# A TLA+ model of github-issue-triage-bot

The bot is one Go server (Cloud Run, one instance) that receives GitHub
webhooks, keeps a Postgres database and calls a language model. This directory
holds TLA+ modules translated from its code, TLC configurations that check them
on small instances, and theorems about them that TLAPS proves for every value
of the constants.

    tlc -workers 2 -config LLMBudget.cfg MCLLMBudget     # one run, see "The runs"
    tlapm LLMBudgetProofs.tla                            # one module of proofs

Paths below are relative to the repository's root (`internal/...` is
`src/internal/...` in `PROJECT.json`). `PROJECT.json` lists, for every
definition that models code, the lines it stands for.

## The system: an inventory

| Part | State it keeps | Operations | Modelled |
|---|---|---|---|
| Research agent, `internal/agent`, `store/agent.go` | `agent_sessions` (stage, context, round trips), `approval_gates`, the audit log; on GitHub the shadow issue, a branch, a pull request, comments | `StartSession`, `HandleComment` and the ten handlers behind it, `/cleanup` | yes |
| LLM client, `internal/llm` | three atomics: limit, count, day | `SetDailyLimit`, `GenerateJSON*`, `Embed`, their retries | yes |
| Webhook, `internal/webhook`, `store/postgres.go`, `store/settings.go` | `webhook_deliveries`, `repo_events`, `issues`, learnings in `documents`, `bot_settings` | `ServeHTTP`, one handler per event, `/pause`, `/unpause` | yes |
| Start and shutdown, `cmd/server/main.go` | the process | migrate, clean up, serve, shut down | where it touches deliveries and the schema |
| Configuration and taxonomy caches, `internal/config`, `internal/hats` | a cached value and its time | `Get` (`hats.Loader` is built anew for each request and never shared) | `config.Cache`, with the pushes that ask it |
| Upstream watcher, `internal/upstream`, `cmd/server/upstream.go` | release events in `repo_events`, release documents | `Sync`, `SyncAndCrossReference` | yes |
| Ingestion, `internal/ingest`, `webhook/autoingest.go`, `cmd/seed` | `documents`, cross-references | push handling, seeding, `/ingest` | pushes |
| Migrations, `store/migrate.go` | `schema_migrations`, an advisory lock | `Migrate` | yes |
| Health monitor, `store/health.go`, `/health-check` | alert issues on GitHub | evaluate, search, create | yes |
| GitHub client and retry transport, `internal/github` | none | API calls, retried | as steps of their callers; the retries and lost answers of a POST with the health monitor |
| Catch-up and other command-line tools, `cmd/backfill`, `cmd/seed` | the rows of `issues` | the weekly catch-up, seeding, a dry run | the catch-up |
| Safety validators, `internal/safety` | the set of allowed hosts | `Validate`, `ValidateWithContext`, `AllowHost` | as a verdict of the agent model |
| Ranking, `store/rerank.go`, with `/brief-preview` | none | three boosts, chained | yes, as functions |
| Clusters of issues, `synthesis/clusters.go` | none | union-find over similar pairs | yes, as functions |
| Bare references, `comment/sanitize.go` | none | `rewriteBareUpstreamRefs` | yes, as functions |
| Phases, comment builder, retrieval, reports, the other synthesizers, learning endpoint, MCP server | read-only, or one upsert | | no (see the end) |
| Mirror, code navigation, runner | | no production caller since ADR 014 | no |

How the parts meet. A delivery passes the signature and the delivery table in
`ServeHTTP` and is then handled in a goroutine of its own, with a limit of five
minutes. The goroutine journals the event and, by its kind, embeds and writes
the issue's row, replaces its labels and captures a learning, changes the pause
setting, hands the comment to the agent, or ingests documents. The agent and
the webhook share the store, the LLM client (so also its daily limit, which the
webhook sets from each repository's `butler.json`) and the GitHub client. The
cron endpoints and the weekly catch-up run at the same time as all of this, and
a new revision starts, and migrates, while the old one still serves. Apart from
the lock of a configuration cache and the one of the migrations nothing takes a
lock over more than one call, and apart from a migration file no store operation
is part of a larger transaction: every handler is a sequence of single calls,
any of which may fail or be the last one before the process ends.

What that makes hard, and what the properties are about (every item is listed
with its line under `hazards` in `PROJECT.json`):

* two handlers of the same session acting on snapshots the other has made stale;
* calls done in a row of which one fails, and the retry finding the others done;
* redelivered, concurrent and reordered deliveries, and a restart in between;
* lock-free counters at midnight;
* content read at one moment and written at another, beside a newer one;
* a lock that a pooler may take away, and one that an error path may keep;
* a call that is repeated because only its answer was lost;
* bounds that must hold although every count is computed from a stale read.

## The modules

### AgentSession: one session of the research agent

One session, a set `Handlers` of goroutines and the `/cleanup` request.
`sess` is the `agent_sessions` row, `gates` its `approval_gates` in the order
they were created, `branch`, `prDoc`, `prs`, `public` and `research` what exists
on GitHub. `task[h]` is a handler: the call it makes next, the snapshot of the
row it read, the signal of its comment, the gate it looked up and the document
it posted.

`Receive` is `HandleComment` up to its `switch`: it reads the row, keeps it and
chooses the branch (`Dispatch`). From there each call to the store or to GitHub
is one action: `LookupGate`, `ResolveGate`, `MarkRevision`, `PostResearch`,
`SaveResearch`, `OpenGate`, `CreateBranch`, `CommitFile`, `OpenPR`,
`SaveApproved`, `PostPublic`, `FinishPromotion`, `CloseSession`, and so on.
`UpdateSessionStage` is what it is in the code, a blind overwrite of stage,
context and round trips. `QualityReject` is any of the reasons a handler gives
up before it posts; `Abandon` is a failed call, the five-minute deadline or the
end of the process at any call; `ResolveGateFails` is the one error the code
ignores. `ListStale` and `MarkSessionComplete` are `/cleanup`.

A comment is the signal `ParseApprovalSignal` finds in it, a context is the
number of the document it holds and whether it still holds the project's
metadata. `StartSession` has no production caller since ADR 014, but the rows of
earlier releases are still there and `HandleComment` still serves them; this is
also why `Init` admits a row in stage `clarifying`, a stage that the current code
handles and never writes. Comments that change nothing are left out.

`Serial` makes an actor wait until no other is at work. The promise of the agent
is stated for that regime in **SessionLifecycle**, an abstract specification
with no handlers, snapshots, gates or failures: where a session may go from
where, in which stages a document or a public comment may appear, and that a
complete session stays as it is. `ImplementsLifecycle` is the refinement.

### LLMBudget: the daily limit and the retries

Each atomic operation of `checkAndIncrementDaily` and `resetIfNewDay` is one
action: load the limit, read the clock, load the day, compare-and-swap it, store
0, add 1 (`Admit` or `Exceed`, by the value the addition returned), add -1.
`Increment` wraps like an `int32` whose largest value is `MaxInt`. `Send`,
`SendTransient`, `Resend` and `Cancel` are `doWithRetry`. `Midnight` is the
clock. `SetDailyLimit` may come at any moment, as `handleOpened` calls it for
every opened issue with the limit of that repository. Four history variables
say what no variable of the code says: the highest limit set, the calls admitted
today and since the last reset, whether a reset came after an admission of the
same day, and roll-backs that arrived after a reset.

### WebhookDelivery: from a delivery to the row

GitHub's events are numbered as they happen; `Post` sends one, late, out of
order or again. `Accept`, `RejectDuplicate` and `CheckFails` are the outcomes of
`CheckAndRecordDelivery`, including the one where the statement is committed and
its answer lost. `Journal`, `PassGate`, `StopAtGate`, `WriteRow`, `WriteLabels`,
`Learn`, `Obey` and `StepFails` are the calls of the handlers. A delivery
carries the whole issue, so a column of `row` is the number of the delivery it
was copied from. `Deploy` starts a new revision, which cleans up identifiers
older than 30 days, and sends the old one SIGTERM; `Exit` ends the old one with
whatever it was doing, which is what `main` does when `ListenAndServe` returns;
`Crash` is sudden. `MonthPasses` retires old events: the model assumes, as ADR
009 does, that GitHub does not redeliver past the retention. `before` and `held`
are history: which deliveries had been handled to the end when one was
accepted, and which were accepted during a pause that has lasted since.

### UpstreamWatch: releases of upstream repositories

Requests to `/upstream-watch` for one consumer repository. `run[r]` is what the
Go stack of request `r` holds: the targets still to do, the fresh releases of the
current one, the ones its current loop has not come to, whether an embedding
failed, and the upstreams whose result carries an error. The journal is a set of
events, each with its request, its upstream, its tag and the day it was created.

`GetLatestReleases` and `ListEvents` are the two reads of `Sync`; between them,
and between them and the inserts, anything may happen. `RecordEvent` is one
INSERT of the batch, newest release first, and `RecordEventFails` ends the batch,
with or without its row. `UpsertEmbedded` and `UpsertFails` are
`ingest.EmbedAndUpsert` for one release: an error is joined to the others and the
loop goes on. `CrossReference` compares one release with the blocked issues.
`NextTarget` is the handler's loop: it appends a result or an error and goes on.
`CleanupOldEvents` runs whenever a new revision starts, `Kill` ends a request in
the middle. `announced`, `before`, `listed`, `masked` and `compared` are history. A
release is its upstream and its tag; `Sync` looks at the tag alone (`Known`), and
`masked` holds the releases a request passed over because the list of events it
read had their tag from another upstream. The row limit of 1000 in the dedupe query is left out, and so is what a comparison finds,
which is only part of the answer.

### DocIngest: pushes and the configuration cache

`Push`, `PushElsewhere` (to the other of main and master), `Remove` and
`EditConfig` are what happens at GitHub; a version of a file is the number of
the push that wrote it. A handler takes a push (`Receive`), asks `config.Cache`
and goes through the files. `ReadCache` and `Lock` are the two looks at the
cached value, under the read and the write lock; `Fetch` is GitHub's answer and
`Store` what is made of it, so that the file may change in between; `FetchFails`
and a file that does not parse (`Fallback`) leave the old configuration and are
not remembered. `GetFileContents` reads at the head of the default branch,
whatever commit was pushed, `Upsert` writes what was read, and
`RecordReferences` is the second half of `EmbedAndUpsert`. Each has its failing
twin; `Restart` loses the handlers and the cache. `excused` and `bare` are
history: files that may be stale, or without references, by a cause that the
code accepts.

### HealthAlert: alerts and the retry transport

Overlapping `/health-check` requests for one repository: the two queries, of
which either may fail without ending the request, `EvaluateThresholds`, the
installations, and for each alert `SearchIssues` and `CreateIssue`. `AnswerLost`,
`Transient` and `Refused` are `retryTransport.RoundTrip` for a POST: an answer
lost after GitHub has opened the issue is indistinguishable from one lost before,
and the issue is opened again. A search finds an issue only after `Index`, which
may come late: a request may start at any moment that another one has ended,
since `.github/workflows/dashboard.yml` repeats `/health-check` 3 seconds after an
attempt that failed or took more than 30, and can be dispatched by hand. `early`
counts, for each metric, the requests that started while an open alert about it
was not yet searchable, and `lost` the answers lost after GitHub had acted.
Scores are tenths, compared as the code compares them.

### IssueCatchup: the weekly job beside the webhook

`Change` moves an issue to the front of the list that the job reads page by page
(`FetchPage`, `Others` being the rest of the list), and makes a delivery, which may be lost. `ExistingIssueNumbers`
looks for rows after the list has been read, `Skip`, `EmbedMissing` and
`EmbedFails` are its loop. `wrote` is history: for each job the rows that others,
handlers or jobs, have written since it looked for rows. Pull requests stand in the same list and have no
deliveries.

### Migrations: processes that start at once

`Boot`, `Lock`, `ListApplied`, `Apply`, `Finish` are `Migrate` and `migrateFS`;
`ApplyConflicts` and `StatementFails` end it. The lock is counted per session of
the database. Without a pooler a process has a session of its own, which ends
with it; over a transaction pooler each statement outside a transaction may run
in any session (`Runs`), so a lock may exclude nobody, be given back in the wrong
session, or stay behind until the pooler closes its session (`Recycle`). Both are
checked, since `terraform/main.tf` passes a pooler's URL and the code takes a
session lock.

### Analysis: the pure algorithms

**IssueClusters** is `find` with path compression, the union and the grouping of
`clusters.go`, against `Components`, which says what the components of the graph
are without any algorithm. **Reranking** is `ApplyHatBoost`, `ApplyVersionBoost`
and `ApplyRecencyBoost` with their clamp at 0 and their stable sort, chained as
`briefPreviewHandler` does; the sort is given by each result's `Place`, the
number of results that come before it or are it. **UpstreamRefs** is the scan of
`rewriteBareUpstreamRefs` over sequences of the tokens it tells apart. **Analysis**
asks each of them about every input of a bounded set; the clustering goes pair by
pair, in the order of the code's loops.

### MC modules

`MCAgentSession` adds the symmetry of the handlers and a view that drops what no
guard reads (`acked`, how a gate was resolved); it is used only by the run of
invariants that read none of these. The others name values that a configuration
file cannot write: limits, target lists, what `butler.json` may hold, readings on
both sides of each threshold, the files a process knows, and Analysis' inputs.

## The runs

| Run | Kind | Instance | What it shows |
|---|---|---|---|
| AgentSessionSerial | pass, 437 k states | 1 handler, 4 rounds, 7 documents, 2 faults, every signal | the type invariant, the refinement of `SessionLifecycle`, what repeats only after a failure, and that a repeated `revise` reaches an outcome |
| AgentSessionConcurrent | pass, 2.8 M states | 2 handlers, 2 rounds, 2 documents, 1 fault, 5 signals | the three invariants that must survive stale snapshots |
| AgentSessionRace | violation | 2 handlers, `research` and `dismiss` | research posted after "No further research will be generated" |
| AgentSessionRetry | violation | 1 handler, 1 fault | repeated approval never succeeds after one failure |
| LLMBudget | pass, 286 k states | 2 callers, limits 2 and none, 3 attempts, 2 midnights | budget, refusals, termination, the counter's day |
| WebhookDelivery | pass, 1.7 M states | 2 events, 3 requests, 1 deploy or crash | once in the journal, pause, no reversal |
| UpstreamWatch | pass, 4.3 M states | 2 requests, 2 upstreams, 2 releases each, 1 fault, window of 1 day, 2 midnights | repeats only by overlap, no silent loss, answers complete but for tags that both upstreams use |
| DocIngest | pass, 563 k states | 2 handlers, 2 files, 2 pushes, 1 edit, 2 hours, 1 fault | stale documents and missing references have a cause, a change of the configuration is obeyed, every push ends |
| HealthAlert | pass, 1.16 M states | 2 requests, 3 readings, 2 attempts, 2 changes, 1 early start, 2 faults | one alert for a metric but for overlaps, lost answers and early starts; a metric that stays bad gets one |
| IssueCatchup | pass, 451 k states | 3 numbers, one a pull request, 1 job, limit 2, pages of 1, 4 changes, 2 faults | the job puts back only rows written after it had looked; lost issues are recovered |
| Migrations | pass, 148 k states | 3 processes that know 1, 3 and 3 files, 3 sessions, with and without a pooler, 2 crashes | each file once and in order, nobody serves early, and without a pooler everybody serves in the end |
| Analysis | pass, 300 k states | every graph of up to 5 issues, up to 3 results, texts of up to 4 tokens and of 6 that nest | clusters are components, boosts never set back, rewriting twice changes nothing |

The bounds. Seven documents let a serial session use all four rounds, repeat
rounds that two faults made uncounted, and still have one to spare, so
`ResearchWithinBudget` (four and one for each fault) is not true because of
`MaxResearch`. In the concurrent run two rounds are the smallest bound at which
two handlers can both be one round below it, and two handlers are what the races
need: every one of them is between a snapshot and one other write. Two callers
with a limit of two can be both below, at and above the limit, and the second
midnight shows what a caller that slept through the first one does. Three
requests for two events give a redelivery of each, and one that overlaps another
event. Two requests overlap or follow each other, the second after the first was
killed, failed in any loop or outlived the window; two releases make every loop
of a request one that can stop in the middle. Two pushes are an older and a
newer content, two hours a cached configuration that expires and one that is
fetched again. Two faults let a request lose both attempts of one call, or two
requests one answer each; the transport makes three attempts, and two are the
fewest that tell a retried failure from the last one. One early start is a request
that follows another before the index does. Three processes are an old revision and two new ones,
so that the lock can be held, waited for and stolen at once. Five issues are the
fewest with a cluster and two issues outside it that are similar to each other;
four tokens nest one opaque span, six one in another. Where more actors might
matter, the theorems hold for any number.

The agent's faults, and those of the other modules, are bounded by `MaxFaults`,
deploys and crashes by `MaxDeploys` and `MaxCrashes`, requests by `MaxRequests`,
midnights and hours by `MaxDay` and `MaxHour`, tags by `MaxTag`, pushes, edits
and changes by `MaxPushes`, `MaxEdits` and `MaxChanges`,
starts before the index has caught up by `MaxEarly`; each bound is a
constant that appears in a guard. DocIngest, Migrations and Analysis may stop
(every push handled, every process serving, every question answered), so their
runs do not look for deadlocks.

### What the disagreements are

The two violation runs each check a sentence that the code says to a maintainer,
which `findings` in `PROJECT.json` quotes: the acknowledgement of a dismissal and
"please try again". The shortest counterexamples are as follows.

* *Race.* `research` is read; `dismiss` is read, closes the session and is
  acknowledged; the research handler posts its document and writes
  `review_pending`.
* *Retry.* `approved` creates the branch and fails to commit; each later
  `approved` fails with "create branch".

Met while modelling, without a run of their own.

In the agent: the README has it escalate "within 4 attempts", but general
feedback whose document a quality layer refuses leaves the counter where it was,
so such attempts are not counted; and the project's metadata, stored "for later
use by HandleComment", is overwritten when the context is saved with the first
document.

In the counter: two resets at midnight can overlap (A swaps the day, B sees
today's day and is admitted, A stores 0), so a day may see one admission more
than its limit for each caller that was overtaken; `MAX_DAILY_LLM_CALLS`
(README, "overrides the default daily Gemini budget") holds only until the first
opened issue sets the limit from `butler.json`; the clamp of `SetDailyLimit`
leaves one slot below the largest `int32` and its comment says that wrapping is
then impossible, which is true for one caller at a time (the theorems therefore
assume `Headroom`, one slot per caller).

In the webhook: after SIGTERM `ListenAndServe` returns at once and with it
`main`, so the log line about a completed shutdown is written, if at all, while
accepted deliveries are cut off, and GitHub's redelivery is answered "duplicate
delivery"; a delivery whose insert is committed and answered 500 is refused when
it comes again, against ADR 009's "causing GitHub to retry later — this is the
correct behavior"; a label event that arrives before the issue's row is dropped,
and the row then written has older labels.

In the ingestion: `handlePush` does not look at `enabled`; `ServeHTTP` takes main
and master for the default branch, so a default branch of another name is never
ingested, and where both exist a push to either makes the handler read the
default one; a file that was removed keeps its document and its references.

In the health monitor nothing but the search keeps two requests apart, so the
retry of the workflow, 3 seconds after a request that ended in a time-out, opens a
second issue if the index has not caught up with the first; and a lost answer
opens an issue twice, as the transport repeats any method. `OneAlertPerMetric`
says that nothing else does.

In the catch-up: a comment says "filter them out" of pull requests, and they are
stored as issues; the rows the job writes lack the milestone and the dates that
the webhook's rows have. The version cleanup of `cmd/seed`, told that 40, 41 and
42 are active, deletes the documents of 40.

In the migrations: `Migrate`'s comment says that the advisory lock keeps
concurrent starts apart, while `terraform/main.tf` passes the URL of a
transaction pooler, over which the lock may exclude nobody or stay behind. The
theorems show that files are applied once and in order all the same, by the
primary key and the transaction; a start that waits for a lock left behind waits
until the pooler closes that session.

Elsewhere: `AllowHost` calls itself safe to call concurrently and writes a plain
map; the comment of `Sync` has it record any release of an upstream "not already in
the consumerRepo's event journal" (`internal/upstream/electron.go:43-45`), but it
looks tags up whatever upstream they are of, so of two upstreams with the same tag
only the first has its release recorded, and no error is reported.
`AnswerIsComplete` asks for the release itself and allows these (`masked`) and no
others; without that disjunct TLC finds the counterexample in this very run: one
request that lists tag 1 of both upstreams. The watcher's answer calls "synced" the number of matches and not of releases recorded; chained
boosts clamp at 0 one after the other, so a result may fall behind one whose
boosts add up to no more, which is why `BoostNeverSetsBack` compares boost by
boost; `rewriteBareUpstreamRefs` has no production caller.

## Fairness

`ReviseSpec` and `ApproveSpec` assume weak fairness of each handler's next step
and of the cleanup's second step: a goroutine that runs is scheduled until it
returns, since every call has a deadline. They assume strong fairness of
receiving the one signal in question: the maintainer repeats it as long as the
session keeps coming back to a state that reacts to it. Nothing is assumed about
other signals, about faults, or about quality layers ever passing a document
(`QualityReject` may be chosen every time).

`FairSpec` of LLMBudget assumes weak fairness of a call's steps (requests time
out, timers fire) and that the model keeps being called; `CounterFollowsClock`
is in addition conditional on calls being counted infinitely often, because
without a limit nobody looks at the clock. No fairness is assumed of midnight,
of `SetDailyLimit` or of a request ever being answered.

`FairSpec` of DocIngest assumes weak fairness of a handler's own steps and strong
fairness of the two places where it waits for the cache's lock: Go's mutex hands
itself to a waiter that has waited long enough. `FairSpec` of HealthAlert assumes
that the cron asks again and again, that a request that runs is handled, and that
the index catches up. `FairSpec` of IssueCatchup assumes that the job is started
every week and runs; nothing is assumed of deliveries, which is what the job is
for. `FairSpec` of Migrations assumes that Cloud Run starts a process that ended
and that the database grants its lock to somebody who waits, again and again to
each (strong fairness); `StartsServing` is claimed only without a pooler.

The other runs check safety only.

## What is proved

For any set of handlers, comments, callers, limits, requests, inputs and bounds.
The assumptions are the named `ASSUME`s of the modules (sizes are natural numbers,
`Callers` and `Requests` of HealthAlert are finite, events are kept at least as
long as they are looked for, each process has a connection of its own; of the
pure algorithms' inputs, that similar pairs are of two issues of the window, that
the store answers in the order of distances, and that a text consists of tokens
of which numbers are not symbols). Three more are hypotheses of the theorems that
need them: `Headroom` for the counter, `Serial` for what the agent promises
when comments are handled one at a time, and a limit and a page size above 0 for
the catch-up.

Every safety property that a passing run checks is a theorem, the action
properties and the refinement included.

* **AgentSessionProofs.** `TypeCorrect`, `RoundTripsBounded`,
  `AtMostOnePullRequest`, `PublishedOnlyReviewed`, `ReviewedHasDocument`, from
  the invariant `IInv == TypeOK /\ Rows /\ PullRequest /\ Approved`. None of the
  four properties is inductive: a handler writes from its snapshot, so `Rows`
  says of every snapshot what the property says of the row (a snapshot under
  review holds a posted document and fewer rounds than the bound if it goes on
  to research). `PullRequest` says that between `CreateBranch` and `OpenPR`
  there is exactly one handler and no pull request, because only the handler
  that created the branch gets that far: this is the lock argument. `Approved`
  ties the handlers past `OpenPR`, and snapshots with stage `approved`, to the
  pull request's document. From the same invariant follows
  `CompleteStaysUndisturbed`: what the race of the violation run does to a
  completed session is done by a handler that had read the row before it was
  completed, and by nothing else (`DisturbedOnlyByOverlap`, which is proved and
  not part of a run).

  Five theorems are about the serial regime: `SerialImplementsLifecycle`,
  `PendingGateLive`, `DecisionsFinal`, `ResearchBudgeted`, `PullRequestLatest`.
  `Serial` only says that an actor starts when no other is at work; that nothing
  is stale then has to be shown. `SerialInv == IInv /\ Alone /\ Snapshots` does:
  one handler is at work at most, the row is its snapshot until it writes itself
  (after `MarkRevision` the row is in `revision`, and a failure there leaves it so
  for the next handler), and the snapshot has a stage from which the handler comes
  to its next call. With it every action is shown to be an action of
  `SessionLifecycle` or a stutter; a failed call is a stutter. On top of it
  `OneGate` says that without failures nobody works past a waiting gate,
  `Budget` counts the documents that the row does not account for (one on its
  way, one for each failed call), and `Latest` follows the newest document from
  the row into the pull request.
* **LLMBudgetProofs.** `TypeCorrect`, `WithinLimit`, `RefusalsDeserved`. The
  heart is the equation *count = used + number of callers about to roll back
  (that were not overtaken by a reset) - stray*, an argument about the
  cardinality of a set of callers that each step changes by at most one. From it
  an addition's result is at least `used + 1`, so an admission needs
  `used < limit`, and a refusal with no one else over the limit needs
  `used >= limit`; the first caller over the limit carries the others.
* **WebhookDeliveryProofs.** `TypeCorrect`, `AtMostOnce`, `PauseIsHonoured`,
  `NeverReverts`. The invariant says that an identifier that has been accepted is
  in `seen` or retired, that at most one request of it was ever accepted
  (`AcceptedOnce`), that it is journaled only by that request (`Recorded`), and
  that the `before` of an accepted delivery holds only deliveries that have
  ended, so that one in progress cannot be among them (`Fresh`). The same module
  has `CatchupNeverSetsBack`, for the other writer of these rows: of any number of
  IssueCatchup's jobs, each puts back only rows that a handler or another job
  wrote after that very job had looked for rows. A job that embeds knows of every
  row but those, and those it wrote itself (`Looked`). Its own are not set back
  because an issue that stands twice in its list, having moved between two pages,
  is no older further down (`Sorted`); and that is kept because nothing in a list
  is newer than the issue is now (`Past`), when the next page is added.
* **UpstreamWatchProofs.** `TypeCorrect`, `NoRepeats`, `NoSilentLoss`,
  `Complete`. The last is about the release itself, upstream and tag, and leaves
  out the masked ones only. The invariant has a part for every request: what it is about to
  record had not been recorded within the window by a request that ended before
  it, nor by itself (`Unseen`); the releases behind its current loop are embedded,
  or marked as failed, and compared (`Loops`, `Accounted`); what it was shown is
  journaled, masked or still to come (`Shown`). `RequestStep` shows once that a step of
  one request leaves the parts of the others alone, so each action is proved for
  its own request only. `Kept`, that what is looked for is kept, is where
  `RetentionAssumption` enters.

* **DocIngestProofs.** `TypeCorrect`, `OneFetchAtATime`, `StaleOnlyWithCause`,
  `ReferencesFollow`, `ConfigObeyed`. A document can only go back when a handler
  stores what it read before another one's newer version, and then it is excused:
  this needs that what a handler holds was at the head when read and is no newer
  than the head now (`ReadWasHead`), that a file which is gone had been removed
  (`GoneIsExcused`), and that an idle handler has nothing left to be overwritten
  (`IdleOwesNothing`). `ConfigAge` bounds how long ago the cached configuration,
  and an answer on its way to the cache, was the present one; from it the action
  property `ConfigTakesEffect` follows for every time to live.
  `FetchOnlyWhenStale`, the exclusion behind the double look at the cache, is
  proved and not part of a run.
* **HealthAlertProofs.** `TypeCorrect`, `AlertsBounded`. What is open about a
  metric, plus the requests that may still open one, stays within one (or one per
  request once two have overlapped) plus the answers lost and the early starts. Which requests count
  depends on what a search finds now: all that have not passed the metric, or only
  those that have already searched (`Promised`); `Unfound` counts the issues that
  no search finds yet with all the requests ahead, and is what the step needs in
  which the last issue a search finds is closed. A request that starts joins those
  ahead, and is counted as early if there is an issue that no search finds.
* **MigrationsProofs.** `TypeCorrect`, `OnceInOrder`, `NeverServesEarly`. The lock
  is in none of the arguments: what a process has read as applied stays applied
  (`ReadStays`), so the first file it has left follows recorded ones, and the
  transaction that records a file found no row of it.
* **AnalysisProofs.** `ClustersCorrect`, `RerankingCorrect`,
  `RewritingIdempotent`: the pure algorithms, for every graph, answer and text.
  None is proved by induction, which the provers do not offer; instead each
  argument looks at the first thing that goes wrong, as the naturals are well
  ordered (`LeastElement`).
  The forest of `clusters.go` has no set of nodes that is closed under going up
  and has no root; this is what makes `find` defined, and each `Union` and each
  compressed path keeps it. Two issues have the same root when the pairs seen so
  far connect them (`TreesAreComponents`), so in the end trees are components.
  In the reranking, `Place` is a bijection, so no result is lost; a result ahead
  of another, no farther away and boosted at least as much, stays no farther away
  when both are clamped at 0, and hence ahead, through each of the chained sorts.
  In the rewriting, the scan of a text exists (`ScanDefined`), and the text it
  writes is compared with the text it read from the end to the start
  (`WrittenAgain`): what was opaque is opaque in the result, with its end moved
  along (`OpaqueEndMoves`), a reference that was rewritten is qualified by what now
  stands before it, and nothing else became a bare reference.

Only model-checked: the liveness properties, `ReviseReachesOutcome`,
`CallsReturn`, `CounterFollowsClock`, `PushesEnd`, `AlertIsRaised`,
`MissedIssuesRecovered` and `StartsServing`. They rest on fairness, that is on
`ENABLED`, which the prover does not reason about. The two disagreements of the
violation runs are counterexamples and need no proof.
`ReviewedHasDocument` is proved and not part of a run, since the other
theorems rest on it.

## Plan

Done: the modules above, each with its runs. The order was that of how much goes
wrong when it goes wrong: the agent, the budget, deliveries, the watcher, then
ingestion, the monitor, migrations and the catch-up, then the pure algorithms.

Left to prove: nothing that a run checks and the prover can reach. Worth adding
are properties of the compositions below.

Left to compose: the pause and the comments of WebhookDelivery with AgentSession
(one delivery, one handler, so that "at most once" carries over to the agent's
rounds); the daily limit of LLMBudget with the configuration of DocIngest, which
sets it. Left to model: two sessions with the same slug, for which a run would
show AgentSessionRetry's outcome without any failed call.

## Not modelled, and why

Text processing (phases, comment building, sanitising beyond the bare
references, formatting, slugs, the rules of the structural validator): functions
from strings to strings without state. SQL retrieval and reports: read-only. The
other synthesizers, the mirror, code navigation and the runner: nothing in the
server starts them. The learning endpoint, the MCP server, and the seed, dry-run
and reaction-count commands: one sequential flow with at most one kind of upsert
each, run by hand. `/ingest` inserts its events one by one without a key, so a
batch that is sent again is recorded again, which a property would only restate.
Triage sessions: no row is created any more, `/cleanup` only closes old ones.
Signatures and authentication: a delivery that reaches the model has passed
them. Two sessions at once: they share nothing but branch names, and the
collision of two equal slugs is described as a hazard.
