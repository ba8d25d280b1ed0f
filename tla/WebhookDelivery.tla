--------------------------- MODULE WebhookDelivery ---------------------------
(***************************************************************************)
(* The webhook: deliveries of GitHub's events, the table that rejects      *)
(* replays, the goroutine each accepted delivery is handled in, and what   *)
(* it writes: the event journal, the issue's row, the label learning and   *)
(* the pause setting.  Sources: internal/webhook/handler.go,               *)
(* internal/store/postgres.go, internal/store/settings.go and the start    *)
(* and shutdown of cmd/server/main.go.                                     *)
(*                                                                         *)
(* One repository and one issue of it.  GitHub numbers its deliveries as   *)
(* the events happen; it may send them late, out of order and again, under *)
(* the same identifier.  A delivery carries the whole issue as it was, so  *)
(* a column is the number of the delivery it was copied from (0: no row).  *)
(* The embedding belongs to the text and is written with it; computing it  *)
(* reads nothing shared, and only takes time and may fail.  Other comments *)
(* go to the agent (module AgentSession) and pushes to the ingester.       *)
(***************************************************************************)
EXTENDS Naturals

CONSTANTS
  MaxDeliveries,  \* bound: events of the repository in a behaviour
  MaxRequests,    \* bound: requests GitHub sends, redeliveries included
  MaxDeploys      \* bound: new revisions and crashes in a behaviour

ASSUME BoundsAssumption == /\ MaxDeliveries \in Nat
                           /\ MaxRequests \in Nat
                           /\ MaxDeploys \in Nat

VARIABLES
  kind,      \* kind[d]: the event of delivery d, "none" until it happens
  retired,   \* deliveries older than the 30 days their identifier is kept
  seen,      \* the webhook_deliveries table
  journal,   \* journal[d]: rows of repo_events that stem from delivery d
  row,       \* the issues row
  learning,  \* the delivery the label learning was captured from (0: none)
  paused,    \* bot_settings.paused, FALSE without a row
  req,       \* req[r]: the r-th request, and the goroutine it starts
  deploys,   \* new revisions and crashes so far
  (* history *)
  before,    \* before[d]: deliveries handled to the end before d was accepted
  held       \* deliveries accepted in a pause that has lasted since

vars == <<kind, retired, seen, journal, row, learning, paused, req, deploys,
          before, held>>

Deliveries == 1..MaxDeliveries
Requests == 1..MaxRequests

Kinds == {"opened", "changed", "labeled", "pause", "unpause"}

\* Where a request is: the call it makes next, or how it ended: handled, not
\* accepted, or its process ended under it.
Handling == {"journal", "gate", "write", "labels", "learn", "set"}
Ended == {"done", "refused", "shut_down", "crashed"}
Steps == {"unsent", "check"} \cup Handling \cup Ended

\* dying: the process that runs it is shutting down; unsure: IsPaused failed.
Request == [id : 0..MaxDeliveries, pc : Steps, dying : BOOLEAN,
            unsure : BOOLEAN]

Unsent == [id |-> 0, pc |-> "unsent", dying |-> FALSE, unsure |-> FALSE]

At(r, p) == req[r].pc = p

Goto(r, p) == req' = [req EXCEPT ![r].pc = p]

After(r, how) == [Unsent EXCEPT !.id = req[r].id, !.pc = how]

Finish(r, how) == req' = [req EXCEPT ![r] = After(r, how)]

Busy(r) == req[r].pc \in Handling \cup {"check"}

Happened == {d \in Deliveries : kind[d] # "none"}

\* What processEvent and processCommentEvent go on to after the journal.
Handler(k) ==
  CASE k = "opened"             -> "gate"
    [] k = "changed"            -> "write"
    [] k = "labeled"            -> "labels"
    [] k \in {"pause", "unpause"} -> "set"

table == <<retired, seen>>
history == <<before, held>>

-----------------------------------------------------------------------------

Init ==
  /\ kind = [d \in Deliveries |-> "none"]
  /\ retired = {} /\ seen = {}
  /\ journal = [d \in Deliveries |-> 0]
  /\ row = [text |-> 0, labels |-> 0] /\ learning = 0 /\ paused = FALSE
  /\ req = [r \in Requests |-> Unsent]
  /\ deploys = 0
  /\ before = [d \in Deliveries |-> {}] /\ held = {}

\* An event happens on GitHub.  An issue is opened once, before all else.
Happen(d, k) ==
  /\ kind[d] = "none" /\ \A e \in 1..(d - 1) : kind[e] # "none"
  /\ k = "opened" => \A e \in Happened : kind[e] \in {"pause", "unpause"}
  /\ kind' = [kind EXCEPT ![d] = k]
  /\ UNCHANGED <<table, journal, row, learning, paused, req, deploys, history>>

\* GitHub sends a delivery, the first time or again.
Post(r, d) ==
  /\ At(r, "unsent") /\ \A q \in 1..(r - 1) : ~At(q, "unsent")
  /\ d \in Happened \ retired
  /\ req' = [req EXCEPT ![r] = [id |-> d, pc |-> "check", dying |-> FALSE,
                                unsure |-> FALSE]]
  /\ UNCHANGED <<kind, table, journal, row, learning, paused, deploys, history>>

\* Mutant: the identifier is looked up and not recorded.
AcceptUnrecorded(r) ==
  LET d == req[r].id IN
  /\ At(r, "check") /\ d \notin seen
  /\ Goto(r, "journal")
  /\ before' = [before EXCEPT
                  ![d] = {req[q].id : q \in {p \in Requests : At(p, "done")}}]
  /\ held' = IF paused THEN held \cup {d} ELSE held
  /\ UNCHANGED <<kind, table, journal, row, learning, paused, deploys>>

\* ServeHTTP: CheckAndRecordDelivery inserts the identifier and reports a
\* duplicate in one statement; a new delivery is answered 202 and handled in a
\* goroutine of its own.
Accept(r) ==
  LET d == req[r].id IN
  /\ At(r, "check") /\ d \notin seen
  /\ seen' = seen \cup {d}
  /\ Goto(r, "journal")
  /\ before' = [before EXCEPT
                  ![d] = {req[q].id : q \in {p \in Requests : At(p, "done")}}]
  /\ held' = IF paused THEN held \cup {d} ELSE held
  /\ UNCHANGED <<kind, retired, journal, row, learning, paused, deploys>>

RejectDuplicate(r) ==
  /\ At(r, "check") /\ req[r].id \in seen
  /\ Finish(r, "refused")
  /\ UNCHANGED <<kind, table, journal, row, learning, paused, deploys, history>>

\* The check fails and the answer is 500.  The statement may have been
\* committed all the same, its answer lost.
CheckFails(r) ==
  /\ At(r, "check")
  /\ seen' \in {seen, seen \cup {req[r].id}}
  /\ Finish(r, "refused")
  /\ UNCHANGED <<kind, retired, journal, row, learning, paused, deploys, history>>

-----------------------------------------------------------------------------
(* The handler of an accepted delivery.                                    *)

\* recordEvent; its error is only logged.
Journal(r) ==
  LET d == req[r].id IN
  /\ At(r, "journal")
  /\ \/ journal' = [journal EXCEPT ![d] = journal[d] + 1]
     \/ UNCHANGED journal
  /\ Goto(r, Handler(kind[d]))
  /\ UNCHANGED <<kind, table, row, learning, paused, deploys, history>>

\* Mutant: the pause is checked and not obeyed.
PassAnyhow(r) ==
  /\ At(r, "gate")
  /\ Goto(r, "write")
  /\ UNCHANGED <<kind, table, journal, row, learning, paused, deploys, history>>

\* handleOpened: not in a paused repository; if the check fails it goes on.
PassGate(r) ==
  /\ At(r, "gate")
  /\ \/ ~paused /\ Goto(r, "write")
     \/ req' = [req EXCEPT ![r].pc = "write", ![r].unsure = TRUE]
  /\ UNCHANGED <<kind, table, journal, row, learning, paused, deploys, history>>

\* Paused, disabled by butler.json, or the author is a bot.
StopAtGate(r) ==
  /\ At(r, "gate")
  /\ Finish(r, "done")
  /\ UNCHANGED <<kind, table, journal, row, learning, paused, deploys, history>>

\* upsertIssue: every column, from the issue as the delivery carries it.
WriteRow(r) ==
  /\ At(r, "write")
  /\ row' = [text |-> req[r].id, labels |-> req[r].id]
  /\ Finish(r, "done")
  /\ UNCHANGED <<kind, table, journal, learning, paused, deploys, history>>

\* Mutant: the labels of an issue without a row are inserted.
InsertLabels(r) ==
  /\ At(r, "labels")
  /\ row' = [row EXCEPT !.labels = req[r].id]
  /\ Goto(r, "learn")
  /\ UNCHANGED <<kind, table, journal, learning, paused, deploys, history>>

\* UpdateIssueLabels: nothing when the issue has no row yet.
WriteLabels(r) ==
  /\ At(r, "labels")
  /\ row' = IF row.text = 0 THEN row ELSE [row EXCEPT !.labels = req[r].id]
  /\ Goto(r, "learn")
  /\ UNCHANGED <<kind, table, journal, learning, paused, deploys, history>>

\* captureLabelLearning, for an issue the bot commented on: one document per
\* issue, overwritten by the next correction.
Learn(r) ==
  /\ At(r, "learn")
  /\ learning' = req[r].id
  /\ Finish(r, "done")
  /\ UNCHANGED <<kind, table, journal, row, paused, deploys, history>>

\* SetPaused, by the owner's comment or by the endpoints of the same name.
SetPaused(p) ==
  /\ paused' = p
  /\ held' = IF p THEN held ELSE {}

Obey(r) ==
  /\ At(r, "set")
  /\ SetPaused(kind[req[r].id] = "pause")
  /\ Finish(r, "done")
  /\ UNCHANGED <<kind, table, journal, row, learning, deploys, before>>

PauseEndpoint(p) ==
  /\ SetPaused(p)
  /\ UNCHANGED <<kind, table, journal, row, learning, req, deploys, before>>

\* A call fails, or the five minutes are over: logged, and the handler ends;
\* after failing to update the labels it still tries to learn from them.  It
\* ends the same way when it finds nothing to learn.
StepFails(r) ==
  /\ req[r].pc \in {"write", "labels", "learn", "set"}
  /\ IF At(r, "labels") THEN Goto(r, "learn") ELSE Finish(r, "done")
  /\ UNCHANGED <<kind, table, journal, row, learning, paused, deploys, history>>

-----------------------------------------------------------------------------
(* The process.                                                            *)

\* A month passes: the identifiers there are outlive their retention.  A request
\* takes minutes at most and GitHub gave up on those deliveries long before.
MonthPasses ==
  /\ \A r \in Requests : ~Busy(r)
  /\ retired' = Happened
  /\ UNCHANGED <<kind, seen, journal, row, learning, paused, req, deploys, history>>

\* Mutant: the cutoff lies in the future.
CleanUpAll == seen' \in {seen, {}}

\* CleanupOldDeliveries at the start of the process, which may fail.
CleanUp == seen' \in {seen, seen \ retired}

\* A request that is not accepted yet fails on GitHub's side, a handler is gone.
Killed(r, how) == After(r, IF At(r, "check") THEN "refused" ELSE how)

\* A new revision takes over: SIGTERM to the old process, requests to the new.
Deploy ==
  /\ deploys < MaxDeploys /\ deploys' = deploys + 1
  /\ CleanUp
  /\ req' = [r \in Requests |-> IF Busy(r) THEN [req[r] EXCEPT !.dying = TRUE]
                                ELSE req[r]]
  /\ UNCHANGED <<kind, retired, journal, row, learning, paused, history>>

\* Shutdown makes ListenAndServe return, main returns, and the process ends
\* with whatever it was doing.
Exit ==
  /\ \E r \in Requests : Busy(r) /\ req[r].dying
  /\ req' = [r \in Requests |-> IF Busy(r) /\ req[r].dying
                                THEN Killed(r, "shut_down") ELSE req[r]]
  /\ UNCHANGED <<kind, table, journal, row, learning, paused, deploys, history>>

Crash ==
  /\ deploys < MaxDeploys /\ deploys' = deploys + 1
  /\ CleanUp
  /\ req' = [r \in Requests |-> IF Busy(r) THEN Killed(r, "crashed")
                                ELSE req[r]]
  /\ UNCHANGED <<kind, retired, journal, row, learning, paused, history>>

Handle(r) ==
  \/ Accept(r) \/ RejectDuplicate(r) \/ CheckFails(r)
  \/ Journal(r) \/ PassGate(r) \/ StopAtGate(r) \/ WriteRow(r)
  \/ WriteLabels(r) \/ Learn(r) \/ Obey(r) \/ StepFails(r)

Next ==
  \/ \E d \in Deliveries, k \in Kinds : Happen(d, k)
  \/ \E r \in Requests, d \in Deliveries : Post(r, d)
  \/ \E r \in Requests : Handle(r)
  \/ \E p \in BOOLEAN : PauseEndpoint(p)
  \/ MonthPasses \/ Deploy \/ Exit \/ Crash

Spec == Init /\ [][Next]_vars

-----------------------------------------------------------------------------
(* Properties.                                                             *)

TypeOK ==
  /\ kind \in [Deliveries -> Kinds \cup {"none"}]
  /\ retired \subseteq Deliveries /\ seen \subseteq Deliveries
  /\ journal \in [Deliveries -> Nat]
  /\ row \in [text : 0..MaxDeliveries, labels : 0..MaxDeliveries]
  /\ row.text = 0 => row.labels = 0
  /\ learning \in 0..MaxDeliveries /\ paused \in BOOLEAN
  /\ req \in [Requests -> Request] /\ deploys \in 0..MaxDeploys
  /\ \A r \in Requests : req[r].id = 0 <=> At(r, "unsent")
  /\ before \in [Deliveries -> SUBSET Deliveries] /\ held \subseteq Deliveries

\* ADR 009, "at-most-once processing per delivery ID": across redeliveries,
\* concurrent duplicates and restarts an event enters the journal once.
JournaledOnce == \A d \in Deliveries : journal[d] <= 1

\* Handlers that overlap may leave the older issue in the row and the older
\* labels in the learning, but what a delivery wrote is never replaced by one
\* that had been handled to the end before that delivery was accepted.
RowNeverReverts ==
  [][/\ row'.text # row.text /\ row.text # 0
          => row'.text \notin before[row.text]
     /\ row'.labels # row.labels /\ row.labels # 0
          => row'.labels \notin before[row.labels]
     /\ learning' # learning /\ learning # 0
          => learning' \notin before[learning]]_<<row, learning>>

\* An issue opened in a pause that lasts is not embedded, unless the pause
\* could not be checked.
PauseHonoured ==
  \A r \in Requests :
    At(r, "write") /\ kind[req[r].id] = "opened" /\ req[r].id \in held
      => req[r].unsure
=============================================================================
