------------------------- MODULE UpstreamWatchProofs -------------------------
(* Theorems about UpstreamWatch, for any requests, upstreams, target lists *)
(* and bounds.                                                             *)
EXTENDS UpstreamWatch, TLAPS

\* Events are of the past, by requests that have started.
Dated == \A e \in announced : e.at <= today /\ ~At(e.by, "unsent")

\* An event that is still looked for is still kept.
Kept == \A e \in announced : today <= e.at + Window => e \in journal

BeforeEnded == \A r, q \in Requests : q \in before[r] => run[q].pc \in Ended

\* What a request is about to record, no earlier request had recorded within
\* the window, as the list it read said; nor had itself.
Unseen(r) ==
  At(r, "record") =>
    /\ run[r].day <= today
    /\ \A e \in announced :
         (e.tag \in run[r].todo /\ e.by \in before[r] \cup {r})
           => e.at + Window < run[r].day

\* The loops go through the fresh releases: those behind them are embedded or
\* marked as failed.
Loops(r) ==
  /\ run[r].pc \in {"record", "embed", "compare"} => run[r].todo \subseteq run[r].fresh
  /\ At(r, "embed") => \A t \in run[r].fresh \ run[r].todo :
                         t \in docs \/ run[r].failed
  /\ At(r, "compare") => run[r].fresh \subseteq docs

\* e is one of the releases its request r is at work on.
InHand(e, r) == /\ run[r].pc \in {"record", "embed", "compare"}
                /\ e.up = Target(r) /\ e.tag \in run[r].fresh

\* Those behind the last loop are compared, and LossIsReported for a request
\* that may still go on.
Accounted(r) ==
  \A e \in announced : e.by = r =>
    /\ (At(r, "compare") /\ InHand(e, r) /\ e.tag \notin run[r].todo)
         => e \in compared
    /\ \/ e.tag \in docs /\ e \in compared
       \/ At(r, "killed") \/ e.up \in run[r].errors \/ InHand(e, r)

\* AnswerIsComplete for a request that may still go on.
Shown(r) ==
  \A u \in Upstreams, t \in Tags : <<u, t>> \in listed[r] =>
    \/ At(r, "killed") \/ u \in run[r].errors
    \/ \E e \in announced : e.up = u /\ e.tag = t
    \/ <<u, t>> \in masked[r]
    \/ run[r].pc \in {"list", "record"} /\ u = Target(r) /\ t \in run[r].todo

Request(r) == Unseen(r) /\ Loops(r) /\ Accounted(r) /\ Shown(r)

IInv == /\ TypeOK /\ Dated /\ Kept /\ BeforeEnded /\ RepeatsOnlyByOverlap
        /\ \A r \in Requests : Request(r)

-----------------------------------------------------------------------------
(* Moves of a request's record.                                            *)

\* What the record of r is after Goto.
LEMMA GotoMoves ==
  ASSUME TypeOK, NEW r \in Requests, Active(r), NEW step, NEW todo,
         step \in Working \cup Ended, todo \subseteq Tags, Goto(r, step, todo)
  PROVE  /\ run' \in [Requests -> Run]
         /\ \A q \in Requests : q # r => run'[q] = run[q]
         /\ run'[r].pc = step /\ run'[r].todo = todo
         /\ run'[r].targets = run[r].targets /\ run'[r].fresh = run[r].fresh
         /\ run'[r].day = run[r].day /\ run'[r].failed = run[r].failed
         /\ run'[r].errors = run[r].errors
         /\ run[r].targets # <<>>
BY DEF TypeOK, Run, Goto, Active

\* What it is after NextTarget.
LEMMA NextTargetMoves ==
  ASSUME TypeOK, NEW r \in Requests, Active(r), NEW failed \in BOOLEAN,
         NextTarget(r, failed)
  PROVE  /\ run' \in [Requests -> Run]
         /\ \A q \in Requests : q # r => run'[q] = run[q]
         /\ run'[r].pc \in {"answered", "fetch"}
         /\ Active(r)' => run'[r].targets # <<>>
         /\ run'[r].errors = IF failed THEN run[r].errors \cup {Target(r)}
                                       ELSE run[r].errors
<1>. DEFINE rest == Tail(run[r].targets)
            step == IF rest = <<>> THEN "answered" ELSE "fetch"
            wrong == IF failed THEN run[r].errors \cup {Target(r)} ELSE run[r].errors
<1>1. /\ run \in [Requests -> Run] /\ run[r] \in Run
      /\ run[r].targets \in Seq(Upstreams) /\ run[r].targets # <<>>
      /\ run[r].errors \subseteq Upstreams
  BY DEF TypeOK, Run, Active
<1>2. /\ run' = [run EXCEPT ![r] = run'[r]]
      /\ run'[r] = [run[r] EXCEPT !.targets = rest, !.pc = step, !.todo = {},
                                  !.fresh = {}, !.failed = FALSE, !.errors = wrong]
  BY <1>1 DEF NextTarget
<1>3. rest \in Seq(Upstreams) /\ wrong \in SUBSET Upstreams
  BY <1>1 DEF Target
<1>4. /\ step \in {"answered", "fetch"} /\ (step # "answered" => rest # <<>>)
      /\ step \in {"unsent"} \cup Working \cup Ended
  BY DEF Working, Ended
<1>. HIDE DEF rest, step, wrong
<1>5. /\ run'[r] \in Run /\ run'[r].pc = step /\ run'[r].targets = rest
      /\ run'[r].errors = wrong
  BY <1>1, <1>2, <1>3, <1>4 DEF Run
<1>6. /\ run' \in [Requests -> Run]
      /\ \A q \in Requests : q # r => run'[q] = run[q]
  BY <1>1, <1>2, <1>5
<1>. QED BY <1>4, <1>5, <1>6 DEF Active, Working, wrong

\* A request at work has a target among the upstreams.
LEMMA TargetIsUpstream ==
  ASSUME TypeOK, NEW r \in Requests, Active(r)
  PROVE  Target(r) \in Upstreams
<1>1. run[r].targets \in Seq(Upstreams) /\ run[r].targets # <<>>
  BY DEF TypeOK, Run, Active
<1>. QED BY <1>1 DEF Target

-----------------------------------------------------------------------------
(* What a step of a request leaves to the others.                          *)

\* r records an event, or no one does.
Records(r) ==
  \/ UNCHANGED <<journal, announced>>
  \/ /\ At(r, "record")
     /\ \E t \in run[r].todo : Insert(Recorded(r, t))

\* A step of request r that adds to what was written and changes no clock.
StepOf(r) ==
  /\ Active(r) /\ run'[r].pc # "unsent" /\ Records(r)
  /\ \A q \in Requests : q # r => /\ run'[q] = run[q] /\ listed'[q] = listed[q]
                                  /\ masked'[q] = masked[q]
  /\ UNCHANGED <<today, before>>
  /\ docs \subseteq docs' /\ compared \subseteq compared'

\* The event r would record is new, and recorded already only by others that
\* overlap with r if at all within the window.
LEMMA NewEvent ==
  ASSUME IInv, NEW r \in Requests, At(r, "record"), NEW t \in run[r].todo,
         NEW e \in announced, e.tag = t, today <= e.at + Window
  PROVE  Overlap(e.by, r)
<1>1. /\ today \in Nat /\ e \in Event /\ e.at \in Nat /\ run[r].day \in Nat
      /\ Window \in Nat
  BY SizesAssumption, RetentionAssumption DEF IInv, TypeOK, Days, Event, Run
<1>2. e.by \notin before[r] \cup {r}
  BY <1>1 DEF IInv, Request, Unseen
<1>3. r \notin before[e.by]
  BY <1>1 DEF IInv, BeforeEnded, At, Ended, Event
<1>. QED BY <1>2, <1>3 DEF Overlap

LEMMA RequestStep ==
  ASSUME IInv, NEW r \in Requests, StepOf(r), TypeOK', Request(r)'
  PROVE  IInv'
<1>1. announced \subseteq announced' /\ journal \subseteq journal'
  BY DEF StepOf, Records, Insert
<1>2. \A e \in announced' \ announced :
        /\ e \in journal' /\ e.by = r /\ e.at = today /\ e.tag \in run[r].todo
        /\ At(r, "record")
  BY DEF StepOf, Records, Insert, Recorded
<1>3. /\ today \in Nat /\ today' = today
      /\ \A e \in announced' : e \in Event /\ e.at \in Nat
  BY SizesAssumption DEF StepOf, IInv, TypeOK, Event, Days
<1>4. Dated'
  <2>1. ASSUME NEW e \in announced PROVE ~At(e.by, "unsent")'
    <3>1. e.by \in Requests /\ ~At(e.by, "unsent")
      BY DEF IInv, TypeOK, Event, Dated
    <3>. QED BY <3>1 DEF StepOf, At
  <2>2. ASSUME NEW e \in announced' \ announced PROVE ~At(e.by, "unsent")'
    BY <1>2 DEF StepOf, At
  <2>. QED BY <1>2, <1>3, <2>1, <2>2 DEF IInv, Dated
<1>5. Kept'
  BY <1>1, <1>2, <1>3 DEF IInv, Kept
<1>6. BeforeEnded'
  BY DEF IInv, BeforeEnded, StepOf, Active, Working, Ended
<1>7. RepeatsOnlyByOverlap'
  <2>1. Window \in Nat
    BY RetentionAssumption
  <2>2. SUFFICES ASSUME NEW e \in announced', NEW f \in announced', e # f,
                        e.tag = f.tag, e.at <= f.at, f.at <= e.at + Window
                 PROVE  Overlap(e.by, f.by)
    BY DEF RepeatsOnlyByOverlap, Overlap, StepOf
  <2>3. CASE e \in announced /\ f \in announced
    BY <2>2, <2>3 DEF IInv, RepeatsOnlyByOverlap
  <2>4. CASE e \in announced /\ f \notin announced
    <3>1. /\ At(r, "record") /\ f.tag \in run[r].todo /\ f.by = r
          /\ today <= e.at + Window
      BY <1>2, <2>2, <2>4
    <3>. QED BY <2>2, <2>4, <3>1, NewEvent
  <2>5. CASE e \notin announced /\ f \in announced
    <3>1. /\ At(r, "record") /\ e.tag \in run[r].todo /\ e.by = r
          /\ today <= f.at + Window
      BY <1>2, <1>3, <2>1, <2>2, <2>5
    <3>2. Overlap(f.by, r)
      BY <2>2, <2>5, <3>1, NewEvent
    <3>. QED BY <3>1, <3>2 DEF Overlap
  <2>6. CASE e \notin announced /\ f \notin announced
    <3>1. PICK t \in run[r].todo : Insert(Recorded(r, t))
      BY <2>2, <2>6 DEF StepOf, Records
    <3>. QED BY <2>2, <2>6, <3>1 DEF Insert
  <2>. QED BY <2>3, <2>4, <2>5, <2>6
<1>8. ASSUME NEW q \in Requests, q # r PROVE Request(q)'
  <2>1. /\ run'[q] = run[q] /\ listed'[q] = listed[q]
        /\ masked'[q] = masked[q] /\ before'[q] = before[q]
    BY <1>8 DEF StepOf
  <2>2. Unseen(q) /\ Loops(q) /\ Accounted(q) /\ Shown(q)
    BY DEF IInv, Request
  <2>3. r \notin before[q]
    BY DEF IInv, BeforeEnded, StepOf, Active, Working, Ended
  <2>4. Unseen(q)'
    BY <1>2, <1>3, <1>8, <2>1, <2>2, <2>3 DEF Unseen, At
  <2>5. Loops(q)'
    BY <2>1, <2>2 DEF Loops, At, StepOf
  <2>6. Accounted(q)'
    BY <1>2, <1>8, <2>1, <2>2 DEF Accounted, InHand, Target, At, StepOf
  <2>7. Shown(q)'
    BY <1>1, <2>1, <2>2 DEF Shown, Target, At
  <2>. QED BY <2>4, <2>5, <2>6, <2>7 DEF Request
<1>. QED BY <1>4, <1>5, <1>6, <1>7, <1>8 DEF IInv

-----------------------------------------------------------------------------
(* The world, the service and the start of a request.                      *)

LEMMA Initially == Init => IInv
<1>. SUFFICES ASSUME Init PROVE IInv
  OBVIOUS
<1>1. Unsent \in Run /\ 0 \in Days
  BY SizesAssumption DEF Unsent, Run, Days
<1>2. \A r \in Requests : At(r, "unsent") /\ ~Active(r)
  BY DEF Init, Unsent, At, Active, Working
<1>3. TypeOK
  BY <1>1, <1>2, SizesAssumption DEF Init, TypeOK
<1>4. Dated /\ Kept /\ BeforeEnded /\ RepeatsOnlyByOverlap
  BY DEF Init, Dated, Kept, BeforeEnded, RepeatsOnlyByOverlap
<1>5. \A r \in Requests : Request(r)
  BY <1>2 DEF Init, Request, Unseen, Loops, Accounted, Shown, At
<1>. QED BY <1>3, <1>4, <1>5 DEF IInv

\* Upstream releases, midnight, the cleanup and stuttering: nothing recorded
\* is lost that is still looked for.
LEMMA OutsideStep ==
  ASSUME IInv,
         \/ \E u \in Upstreams, t \in Tags : Publish(u, t)
         \/ DayPasses \/ CleanupOldEvents \/ UNCHANGED vars
  PROVE  IInv'
<1>1. UNCHANGED <<docs, run, faults, announced, before, listed, masked, compared>>
  BY DEF Publish, DayPasses, CleanupOldEvents, vars
<1>2. /\ today \in Nat /\ today' \in Days /\ today <= today'
      /\ today' \in Nat
  BY SizesAssumption
  DEF IInv, TypeOK, Days, Publish, DayPasses, CleanupOldEvents, vars
<1>3. \A e \in announced : e.at \in Nat
  BY SizesAssumption DEF IInv, TypeOK, Event, Days
<1>4. TypeOK'
  <2>1. published' \in [Upstreams -> SUBSET Tags]
    BY DEF IInv, TypeOK, Publish, DayPasses, CleanupOldEvents, vars
  <2>2. journal' \subseteq announced
    BY DEF IInv, TypeOK, Publish, DayPasses, CleanupOldEvents, vars
  <2>. QED BY <1>1, <1>2, <2>1, <2>2 DEF IInv, TypeOK, Active
<1>5. Dated'
  BY <1>1, <1>2, <1>3 DEF IInv, Dated, At
<1>6. Kept'
  <2>1. SUFFICES ASSUME NEW e \in announced, today' <= e.at + Window
                 PROVE  e \in journal'
    BY <1>1 DEF Kept
  <2>2. e \in journal
    BY <1>2, <1>3, <2>1, RetentionAssumption DEF IInv, Kept
  <2>3. CASE CleanupOldEvents
    BY <1>3, <2>1, <2>2, <2>3, RetentionAssumption, <1>2 DEF CleanupOldEvents
  <2>4. CASE ~CleanupOldEvents
    BY <2>2, <2>4 DEF Publish, DayPasses, vars
  <2>. QED BY <2>3, <2>4
<1>7. BeforeEnded' /\ RepeatsOnlyByOverlap'
  BY <1>1 DEF IInv, BeforeEnded, RepeatsOnlyByOverlap, Overlap
<1>8. ASSUME NEW r \in Requests PROVE Request(r)'
  <2>1. Unseen(r) /\ Loops(r) /\ Accounted(r) /\ Shown(r)
    BY DEF IInv, Request
  <2>2. run[r].day \in Nat
    BY SizesAssumption DEF IInv, TypeOK, Run, Days
  <2>3. Unseen(r)'
    BY <1>1, <1>2, <2>1, <2>2 DEF Unseen, At
  <2>4. Loops(r)' /\ Accounted(r)' /\ Shown(r)'
    BY <1>1, <2>1 DEF Loops, Accounted, Shown, InHand, Target, At
  <2>. QED BY <2>3, <2>4 DEF Request
<1>. QED BY <1>4, <1>5, <1>6, <1>7, <1>8 DEF IInv

LEMMA StartStep ==
  ASSUME IInv, NEW r \in Requests, NEW targets \in TargetLists, Start(r, targets)
  PROVE  IInv'
<1>1. UNCHANGED <<published, today, journal, docs, faults, announced, listed,
                  masked, compared>>
  BY DEF Start
<1>2. /\ run' \in [Requests -> Run] /\ run'[r].pc \in {"answered", "fetch"}
      /\ run'[r].errors = run[r].errors
      /\ Active(r)' => run'[r].targets # <<>>
      /\ \A q \in Requests : q # r => run'[q] = run[q]
  <2>1. targets \in Seq(Upstreams)
    BY SizesAssumption
  <2>2. run'[r] = [run[r] EXCEPT !.targets = targets,
                     !.pc = IF targets = <<>> THEN "answered" ELSE "fetch"]
    BY DEF Start, IInv, TypeOK
  <2>3. run'[r] \in Run
    <3>1. run[r] \in Run
      BY DEF IInv, TypeOK
    <3>2. (IF targets = <<>> THEN "answered" ELSE "fetch")
            \in {"unsent"} \cup Working \cup Ended
      BY DEF Working, Ended
    <3>. QED BY <2>1, <2>2, <3>1, <3>2 DEF Run
  <2>. QED BY <2>2, <2>3 DEF Start, IInv, TypeOK, Run, Active, Working
<1>3. /\ before'[r] = {q \in Requests : run[q].pc \in Ended}
      /\ before' \in [Requests -> SUBSET Requests]
      /\ \A q \in Requests : q # r => before'[q] = before[q]
  BY DEF Start, IInv, TypeOK
<1>4. At(r, "unsent") /\ \A e \in announced : e.by # r
  BY DEF Start, IInv, Dated
<1>5. TypeOK'
  BY <1>1, <1>2, <1>3 DEF IInv, TypeOK, Active
<1>6. Dated' /\ Kept'
  BY <1>1, <1>2, <1>4 DEF IInv, TypeOK, Event, Dated, Kept, At
<1>7. BeforeEnded'
  BY <1>2, <1>3, <1>4 DEF IInv, BeforeEnded, At, Ended
<1>8. RepeatsOnlyByOverlap'
  <2>1. \A e \in announced : before'[e.by] = before[e.by]
    BY <1>3, <1>4 DEF IInv, TypeOK, Event
  <2>. QED BY <1>1, <2>1 DEF IInv, RepeatsOnlyByOverlap, Overlap
<1>9. ASSUME NEW q \in Requests PROVE Request(q)'
  <2>1. Unseen(q) /\ Loops(q) /\ Accounted(q) /\ Shown(q)
    BY DEF IInv, Request
  <2>2. CASE q # r
    <3>1. run'[q] = run[q] /\ before'[q] = before[q]
      BY <1>2, <1>3, <2>2
    <3>. QED BY <1>1, <2>1, <3>1
         DEF Request, Unseen, Loops, Accounted, Shown, InHand, Target, At
  <2>3. CASE q = r
    <3>1. Unseen(r)' /\ Loops(r)' /\ Accounted(r)'
      BY <1>1, <1>2, <1>4 DEF Unseen, Loops, Accounted, At
    <3>2. Shown(r)'
      BY <1>1, <1>2, <1>4, <2>1, <2>3 DEF Shown, At
    <3>. QED BY <2>3, <3>1, <3>2 DEF Request
  <2>. QED BY <2>2, <2>3
<1>. QED BY <1>5, <1>6, <1>7, <1>8, <1>9 DEF IInv

-----------------------------------------------------------------------------
(* The steps of a request.                                                 *)

\* NextTarget with an error: whatever was in hand is in errors.
LEMMA GivesUp ==
  ASSUME IInv, NEW r \in Requests, Active(r), NextTarget(r, TRUE), Records(r),
         UNCHANGED <<published, today, before, listed, masked, compared>>,
         docs' \in SUBSET Tags, docs \subseteq docs', faults' \in 0..MaxFaults,
         journal' \subseteq announced', announced' \subseteq Event
  PROVE  IInv'
<1>1. /\ run' \in [Requests -> Run]
      /\ \A q \in Requests : q # r => run'[q] = run[q]
      /\ run'[r].pc \in {"answered", "fetch"}
      /\ Active(r)' => run'[r].targets # <<>>
      /\ run'[r].errors = run[r].errors \cup {Target(r)}
  BY NextTargetMoves DEF IInv
<1>2. announced \subseteq announced'
  BY DEF Records, Insert
<1>3. \A e \in announced' \ announced : e.up = Target(r)
  BY DEF Records, Insert, Recorded
<1>4. TypeOK'
  BY <1>1, <1>2 DEF IInv, TypeOK, Active
<1>5. StepOf(r)
  BY <1>1 DEF StepOf
<1>6. Unseen(r)' /\ Loops(r)'
  BY <1>1 DEF Unseen, Loops, At
<1>7. Accounted(r)'
  <2>1. ASSUME NEW e \in announced, e.by = r
        PROVE  \/ e.tag \in docs' /\ e \in compared
               \/ At(r, "killed") \/ e.up \in run'[r].errors
    BY <1>1, <2>1 DEF IInv, Request, Accounted, InHand
  <2>2. ~At(r, "killed") /\ ~At(r, "compare")'
    BY <1>1 DEF Active, Working, At
  <2>. QED BY <1>1, <1>3, <2>1, <2>2 DEF Accounted
<1>8. Shown(r)'
  <2>1. ~At(r, "killed")
    BY DEF Active, Working, At
  <2>. QED BY <1>1, <1>2, <2>1 DEF IInv, Request, Shown
<1>9. Request(r)'
  BY <1>6, <1>7, <1>8 DEF Request
<1>. QED BY <1>4, <1>5, <1>9, RequestStep

LEMMA FetchStep ==
  ASSUME IInv, NEW r \in Requests, GetLatestReleases(r)
  PROVE  IInv'
<1>1. Active(r) /\ At(r, "fetch")
  BY DEF GetLatestReleases, At, Active, Working
<1>2. Target(r) \in Upstreams
  BY <1>1, TargetIsUpstream DEF IInv
<1>3. Latest(Target(r)) \subseteq Tags
  BY <1>2 DEF Latest, IInv, TypeOK
<1>4. /\ run' \in [Requests -> Run]
      /\ \A q \in Requests : q # r => run'[q] = run[q]
      /\ run'[r].pc = "list" /\ run'[r].todo = Latest(Target(r))
      /\ run'[r].targets = run[r].targets /\ run'[r].errors = run[r].errors
      /\ run[r].targets # <<>>
  BY <1>1, <1>3, GotoMoves DEF GetLatestReleases, IInv, Working
<1>5. /\ listed' \in [Requests -> SUBSET (Upstreams \X Tags)]
      /\ \A q \in Requests : q # r => listed'[q] = listed[q]
      /\ listed'[r] = listed[r] \cup ({Target(r)} \X Latest(Target(r)))
  BY <1>2, <1>3 DEF GetLatestReleases, IInv, TypeOK
<1>6. TypeOK'
  BY <1>4, <1>5 DEF GetLatestReleases, IInv, TypeOK, Active
<1>7. StepOf(r)
  BY <1>1, <1>4, <1>5 DEF StepOf, Records, GetLatestReleases
<1>8. Unseen(r)' /\ Loops(r)' /\ Accounted(r)'
  BY <1>1, <1>4 DEF GetLatestReleases, IInv, Request, Unseen, Loops, Accounted, InHand, At
<1>9. Shown(r)'
  BY <1>1, <1>4, <1>5 DEF GetLatestReleases, IInv, Request, Shown, Target, At
<1>. QED BY <1>6, <1>7, <1>8, <1>9, RequestStep DEF Request

LEMMA ListStep ==
  ASSUME IInv, NEW r \in Requests, ListEvents(r)
  PROVE  IInv'
<1>. DEFINE fresh == run[r].todo \ Known
<1>1. Active(r) /\ At(r, "list")
  BY DEF ListEvents, At, Active, Working
<1>2. run[r].todo \subseteq Tags /\ run[r].targets # <<>>
  BY <1>1 DEF IInv, TypeOK, Run
<1>3. UNCHANGED <<published, today, journal, docs, faults, announced, before,
                  listed, compared>>
  BY DEF ListEvents
<1>4. /\ masked' \in [Requests -> SUBSET (Upstreams \X Tags)]
      /\ \A q \in Requests : q # r => masked'[q] = masked[q]
      /\ masked[r] \subseteq masked'[r]
  <2>1. Target(r) \in Upstreams
    BY <1>1, TargetIsUpstream DEF IInv
  <2>. QED BY <1>2, <2>1 DEF ListEvents, IInv, TypeOK
\* What is known is journaled for this upstream, or masked by another's event.
<1>5. ASSUME NEW t \in run[r].todo, t \in Known
      PROVE  \/ \E e \in announced : e.up = Target(r) /\ e.tag = t
             \/ <<Target(r), t>> \in masked'[r]
  <2>1. PICK f \in Visible : f.tag = t
    BY <1>5 DEF Known
  <2>2. CASE f.up = Target(r)
    BY <2>1, <2>2 DEF Visible, IInv, TypeOK
  <2>3. CASE f.up # Target(r)
    BY <2>1, <2>3 DEF ListEvents, IInv, TypeOK
  <2>. QED BY <2>2, <2>3
<1>6. Request(r)
  BY DEF IInv
<1>7. CASE fresh = {}
  <2>1. NextTarget(r, FALSE)
    BY <1>7 DEF ListEvents
  <2>2. /\ run' \in [Requests -> Run]
        /\ \A q \in Requests : q # r => run'[q] = run[q]
        /\ run'[r].pc \in {"answered", "fetch"}
        /\ Active(r)' => run'[r].targets # <<>>
        /\ run'[r].errors = run[r].errors
    BY <1>1, <2>1, NextTargetMoves DEF IInv
  <2>3. TypeOK'
    BY <1>3, <1>4, <2>2 DEF IInv, TypeOK, Active
  <2>4. StepOf(r)
    BY <1>1, <1>3, <1>4, <2>2 DEF StepOf, Records
  <2>5. Unseen(r)' /\ Loops(r)' /\ Accounted(r)'
    BY <1>1, <1>3, <1>6, <2>2 DEF Request, Unseen, Loops, Accounted, InHand, At
  <2>6. Shown(r)'
    <3>1. \A t \in run[r].todo : t \in Known
      BY <1>7
    <3>. QED BY <1>1, <1>3, <1>4, <1>6, <1>5, <2>2, <3>1 DEF Request, Shown, At
  <2>. QED BY <2>3, <2>4, <2>5, <2>6, RequestStep DEF Request
<1>8. CASE fresh # {}
  <2>1. run' = [run EXCEPT ![r].pc = "record", ![r].todo = fresh,
                           ![r].fresh = fresh, ![r].day = today]
    BY <1>8 DEF ListEvents
  <2>2. /\ run' \in [Requests -> Run]
        /\ \A q \in Requests : q # r => run'[q] = run[q]
        /\ run'[r].pc = "record" /\ run'[r].todo = fresh
        /\ run'[r].fresh = fresh /\ run'[r].day = today
        /\ run'[r].targets = run[r].targets /\ run'[r].errors = run[r].errors
    <3>1. run[r] \in Run /\ today \in Days /\ fresh \subseteq Tags
      BY <1>2 DEF IInv, TypeOK
    <3>2. run'[r] = [run[r] EXCEPT !.pc = "record", !.todo = fresh,
                                   !.fresh = fresh, !.day = today]
      BY <2>1 DEF IInv, TypeOK
    <3>3. run'[r] \in Run
      BY <3>1, <3>2 DEF Run, Working
    <3>. QED BY <2>1, <3>1, <3>2, <3>3 DEF IInv, TypeOK, Run
  <2>3. TypeOK'
    BY <1>2, <1>3, <1>4, <2>2 DEF IInv, TypeOK, Active
  <2>4. StepOf(r)
    BY <1>1, <1>3, <1>4, <2>2 DEF StepOf, Records
  <2>5. Unseen(r)'
    <3>1. /\ today \in Nat /\ Window \in Nat
          /\ \A e \in announced : e.at \in Nat
      BY SizesAssumption, RetentionAssumption DEF IInv, TypeOK, Days, Event
    <3>2. ASSUME NEW e \in announced, e.tag \in fresh
          PROVE  e.at + Window < today
      <4>1. e \in journal => ~(today <= e.at + Window)
        BY <3>2 DEF Known, Visible
      <4>. QED BY <3>1, <4>1 DEF IInv, Kept
    <3>. QED BY <1>3, <2>2, <3>1, <3>2 DEF Unseen
  <2>6. Loops(r)' /\ Accounted(r)'
    BY <1>1, <1>3, <1>6, <2>2 DEF Request, Loops, Accounted, InHand, At
  <2>7. Shown(r)'
    BY <1>1, <1>3, <1>4, <1>6, <1>5, <2>2 DEF Request, Shown, Target, At
  <2>. QED BY <2>3, <2>4, <2>5, <2>6, <2>7, RequestStep DEF Request
<1>. QED BY <1>7, <1>8

\* What RecordEvent and its failure may add is an event.
LEMMA InsertTyped ==
  ASSUME TypeOK, NEW r \in Requests, Active(r), NEW t \in Tags,
         Insert(Recorded(r, t))
  PROVE  journal' \subseteq announced' /\ announced' \subseteq Event
<1>1. Recorded(r, t) \in Event
  BY TargetIsUpstream DEF Recorded, Event, TypeOK
<1>. QED BY <1>1 DEF Insert, TypeOK

LEMMA RecordStep ==
  ASSUME IInv, NEW r \in Requests, NEW t \in Tags, RecordEvent(r, t)
  PROVE  IInv'
<1>1. /\ Active(r) /\ At(r, "record") /\ t \in run[r].todo
      /\ Insert(Recorded(r, t))
  BY DEF RecordEvent, At, Active, Working, Newest
<1>2. UNCHANGED <<published, today, docs, faults, before, listed, masked, compared>>
  BY DEF RecordEvent
<1>3. /\ run[r].fresh \subseteq Tags /\ run[r].todo \subseteq run[r].fresh
      /\ Request(r) /\ Loops(r)
  BY <1>1 DEF IInv, TypeOK, Run, Request, Loops, At
<1>4. /\ run' \in [Requests -> Run]
      /\ \A q \in Requests : q # r => run'[q] = run[q]
      /\ \/ /\ run'[r].pc = "embed" /\ run'[r].todo = run[r].fresh
            /\ run[r].todo = {t}
         \/ run'[r].pc = "record" /\ run'[r].todo = run[r].todo \ {t}
      /\ run'[r].targets = run[r].targets /\ run'[r].fresh = run[r].fresh
      /\ run'[r].day = run[r].day /\ run'[r].errors = run[r].errors
      /\ run[r].targets # <<>>
  <2>1. \/ run[r].todo = {t} /\ Goto(r, "embed", run[r].fresh)
        \/ Goto(r, "record", run[r].todo \ {t})
    BY <1>1 DEF RecordEvent, Loop, At
  <2>2. run[r].todo \ {t} \subseteq Tags
    BY <1>3
  <2>. QED BY <1>1, <1>3, <2>1, <2>2, GotoMoves DEF IInv, Working
<1>5. journal' \subseteq announced' /\ announced' \subseteq Event
  BY <1>1, InsertTyped DEF IInv
<1>6. announced' = announced \cup {Recorded(r, t)}
  BY <1>1 DEF Insert
<1>7. TypeOK'
  BY <1>2, <1>4, <1>5, <1>6 DEF IInv, TypeOK, Active
<1>8. StepOf(r)
  BY <1>1, <1>2, <1>4 DEF StepOf, Records
<1>9. Unseen(r)'
  <2>1. Recorded(r, t).tag \notin run[r].todo \ {t}
    BY DEF Recorded
  <2>. QED BY <1>1, <1>2, <1>3, <1>4, <1>6, <2>1 DEF Request, Unseen, At
<1>10. Loops(r)'
  BY <1>2, <1>3, <1>4 DEF Loops, At
<1>11. Accounted(r)'
  <2>1. ASSUME NEW e \in announced, e.by = r
        PROVE  \/ e.tag \in docs' /\ e \in compared'
               \/ At(r, "killed")' \/ e.up \in run'[r].errors \/ InHand(e, r)'
    BY <1>1, <1>2, <1>3, <1>4, <2>1 DEF Request, Accounted, InHand, Target, At
  <2>2. ASSUME NEW e, e = Recorded(r, t) PROVE InHand(e, r)'
    BY <1>1, <1>3, <1>4, <2>2 DEF InHand, Recorded, Target
  <2>. QED BY <1>4, <1>6, <2>1, <2>2 DEF Accounted, At
<1>12. Shown(r)'
  <2>1. Recorded(r, t).up = Target(r) /\ Recorded(r, t).tag = t
    BY DEF Recorded
  <2>. QED BY <1>1, <1>2, <1>3, <1>4, <1>6, <2>1 DEF Request, Shown, Target, At
<1>. QED BY <1>7, <1>8, <1>9, <1>10, <1>11, <1>12, RequestStep DEF Request

LEMMA RecordFailsStep ==
  ASSUME IInv, NEW r \in Requests, NEW t \in Tags, RecordEventFails(r, t)
  PROVE  IInv'
<1>1. /\ Active(r) /\ At(r, "record") /\ t \in run[r].todo
      /\ NextTarget(r, TRUE)
  BY DEF RecordEventFails, At, Active, Working, Newest
<1>2. Records(r)
  BY <1>1 DEF RecordEventFails, Records
<1>3. journal' \subseteq announced' /\ announced' \subseteq Event
  BY <1>1, InsertTyped DEF RecordEventFails, IInv, TypeOK
<1>4. faults' \in 0..MaxFaults
  BY SizesAssumption DEF RecordEventFails, Fault, IInv, TypeOK
<1>5. UNCHANGED <<published, today, docs, before, listed, masked, compared>>
  BY DEF RecordEventFails
<1>6. docs' \in SUBSET Tags
  BY <1>5 DEF IInv, TypeOK
<1>. QED BY <1>1, <1>2, <1>3, <1>4, <1>5, <1>6, GivesUp

LEMMA CallFailsStep ==
  ASSUME IInv, NEW r \in Requests, CallFails(r)
  PROVE  IInv'
<1>1. Active(r) /\ NextTarget(r, TRUE) /\ Records(r)
  BY DEF CallFails, Active, Working, Records
<1>2. faults' \in 0..MaxFaults
  BY SizesAssumption DEF CallFails, Fault, IInv, TypeOK
<1>3. UNCHANGED <<published, today, journal, docs, announced, before, listed,
                  masked, compared>>
  BY DEF CallFails
<1>4. /\ docs' \in SUBSET Tags
      /\ journal' \subseteq announced' /\ announced' \subseteq Event
  BY <1>3 DEF IInv, TypeOK
<1>. QED BY <1>1, <1>2, <1>3, <1>4, GivesUp

\* AfterEmbedding: the loop goes on, or ends with or without an error.
LEMMA UpsertMoves ==
  ASSUME IInv, NEW r \in Requests, At(r, "embed"), NEW t \in run[r].todo,
         NEW failed \in BOOLEAN, AfterEmbedding(r, t, failed),
         UNCHANGED <<published, today, journal, announced, before, listed,
                     masked, compared>>,
         docs' \in SUBSET Tags, docs \subseteq docs', faults' \in 0..MaxFaults,
         failed \/ (t \in docs' /\ failed = run[r].failed)
  PROVE  IInv'
<1>1. Active(r) /\ Records(r)
  BY DEF At, Active, Working, Records
<1>2. /\ run[r] \in Run /\ run[r].todo \subseteq run[r].fresh
      /\ Loops(r) /\ Accounted(r) /\ Shown(r)
  BY DEF IInv, TypeOK, Request, Loops, At
<1>3. CASE run[r].todo = {t} /\ failed
  <2>1. NextTarget(r, TRUE)
    BY <1>3 DEF AfterEmbedding
  <2>. QED BY <1>1, <2>1, GivesUp DEF IInv, TypeOK
<1>4. CASE run[r].todo = {t} /\ ~failed
  <2>1. Goto(r, "compare", run[r].fresh) /\ run[r].fresh \subseteq Tags
    BY <1>2, <1>4 DEF AfterEmbedding, Run
  <2>2. /\ run' \in [Requests -> Run]
        /\ \A q \in Requests : q # r => run'[q] = run[q]
        /\ run'[r].pc = "compare" /\ run'[r].todo = run[r].fresh
        /\ run'[r].targets = run[r].targets /\ run'[r].fresh = run[r].fresh
        /\ run'[r].errors = run[r].errors /\ run[r].targets # <<>>
    BY <1>1, <2>1, GotoMoves DEF IInv, Working
  <2>3. TypeOK'
    BY <2>2 DEF IInv, TypeOK, Active
  <2>4. StepOf(r)
    BY <1>1, <2>2 DEF StepOf
  <2>5. Unseen(r)' /\ Loops(r)'
    BY <1>2, <1>4, <2>2 DEF Unseen, Loops, At
  <2>6. Accounted(r)' /\ Shown(r)'
    BY <1>2, <2>2 DEF Accounted, Shown, InHand, Target, At
  <2>. QED BY <2>3, <2>4, <2>5, <2>6, RequestStep DEF Request
<1>5. CASE run[r].todo # {t}
  <2>1. run' = [run EXCEPT ![r].todo = run[r].todo \ {t}, ![r].failed = failed]
    BY <1>5 DEF AfterEmbedding
  <2>2. run'[r] = [run[r] EXCEPT !.todo = run[r].todo \ {t}, !.failed = failed]
    BY <2>1 DEF IInv, TypeOK
  <2>3. run'[r] \in Run
    BY <1>2, <2>2 DEF Run
  <2>4. /\ run' \in [Requests -> Run]
        /\ \A q \in Requests : q # r => run'[q] = run[q]
    BY <2>1, <2>3 DEF IInv, TypeOK
  <2>5. /\ run'[r].pc = "embed" /\ run'[r].todo = run[r].todo \ {t}
        /\ run'[r].failed = failed
        /\ run'[r].targets = run[r].targets /\ run'[r].fresh = run[r].fresh
        /\ run'[r].errors = run[r].errors
    BY <1>2, <2>2 DEF Run, At
  <2>6. TypeOK'
    BY <1>1, <2>4, <2>5 DEF IInv, TypeOK, Active
  <2>7. StepOf(r)
    BY <1>1, <2>4, <2>5 DEF StepOf
  <2>8. Unseen(r)' /\ Loops(r)'
    BY <1>2, <2>5 DEF Unseen, Loops, At
  <2>9. Accounted(r)' /\ Shown(r)'
    BY <1>2, <2>5 DEF Accounted, Shown, InHand, Target, At
  <2>. QED BY <2>6, <2>7, <2>8, <2>9, RequestStep DEF Request
<1>. QED BY <1>3, <1>4, <1>5

LEMMA UpsertStep ==
  ASSUME IInv, NEW r \in Requests, NEW t \in Tags,
         UpsertEmbedded(r, t) \/ UpsertFails(r, t)
  PROVE  IInv'
<1>1. /\ At(r, "embed") /\ t \in run[r].todo
      /\ UNCHANGED <<published, today, journal, announced, before, listed,
                     masked, compared>>
  BY DEF UpsertEmbedded, UpsertFails, Newest
<1>2. docs' \in SUBSET Tags /\ docs \subseteq docs'
  BY DEF UpsertEmbedded, UpsertFails, IInv, TypeOK
<1>3. faults' \in 0..MaxFaults
  <2>1. /\ faults \in 0..MaxFaults /\ MaxFaults \in Nat
        /\ \/ faults' = faults
           \/ faults < MaxFaults /\ faults' = faults + 1
    BY SizesAssumption DEF UpsertEmbedded, UpsertFails, Fault, IInv, TypeOK
  <2>. QED BY <2>1
<1>4. run[r].failed \in BOOLEAN
  BY DEF IInv, TypeOK, Run
<1>5. CASE UpsertEmbedded(r, t)
  <2>1. AfterEmbedding(r, t, run[r].failed) /\ t \in docs'
    BY <1>5 DEF UpsertEmbedded
  <2>. QED BY <1>1, <1>2, <1>3, <1>4, <2>1, UpsertMoves
<1>6. CASE UpsertFails(r, t)
  <2>1. AfterEmbedding(r, t, TRUE)
    BY <1>6 DEF UpsertFails
  <2>2. TRUE \in BOOLEAN
    OBVIOUS
  <2>. QED BY <1>1, <1>2, <1>3, <2>1, <2>2, UpsertMoves
<1>. QED BY <1>5, <1>6

LEMMA CompareStep ==
  ASSUME IInv, NEW r \in Requests, NEW t \in Tags, CrossReference(r, t)
  PROVE  IInv'
<1>1. /\ Active(r) /\ At(r, "compare") /\ t \in run[r].todo
      /\ UNCHANGED <<published, today, journal, docs, faults, announced, before,
                     listed, masked>>
  BY DEF CrossReference, At, Active, Working, Newest
<1>2. Records(r)
  BY <1>1 DEF Records
<1>3. /\ run[r] \in Run /\ run[r].todo \subseteq run[r].fresh
      /\ run[r].fresh \subseteq docs
      /\ Loops(r) /\ Accounted(r) /\ Shown(r)
  BY <1>1 DEF IInv, TypeOK, Request, Loops, At
<1>4. /\ compared \subseteq compared' /\ compared' \subseteq announced
      /\ \A e \in announced : e.by = r /\ e.up = Target(r) /\ e.tag = t
           => e \in compared'
  BY DEF CrossReference, IInv, TypeOK
<1>5. CASE run[r].todo = {t}
  <2>1. NextTarget(r, FALSE)
    BY <1>5 DEF CrossReference
  <2>2. /\ run' \in [Requests -> Run]
        /\ \A q \in Requests : q # r => run'[q] = run[q]
        /\ run'[r].pc \in {"answered", "fetch"}
        /\ Active(r)' => run'[r].targets # <<>>
        /\ run'[r].errors = run[r].errors
    BY <1>1, <2>1, NextTargetMoves DEF IInv
  <2>3. TypeOK'
    BY <1>1, <1>4, <2>2 DEF IInv, TypeOK, Active
  <2>4. StepOf(r)
    BY <1>1, <1>2, <1>4, <2>2 DEF StepOf
  <2>5. Unseen(r)' /\ Loops(r)'
    BY <2>2 DEF Unseen, Loops, At
  <2>6. Accounted(r)'
    <3>1. ASSUME NEW e \in announced, e.by = r, InHand(e, r)
          PROVE  e.tag \in docs /\ e \in compared'
      BY <1>1, <1>3, <1>4, <1>5, <3>1 DEF Accounted, InHand
    <3>2. ASSUME NEW e \in announced, e.by = r
          PROVE  \/ e.tag \in docs' /\ e \in compared'
                 \/ e.up \in run'[r].errors
      BY <1>1, <1>3, <1>4, <2>2, <3>1, <3>2 DEF Accounted, At
    <3>. QED BY <1>1, <2>2, <3>2 DEF Accounted, At
  <2>7. Shown(r)'
    BY <1>1, <1>3, <2>2 DEF Shown, At
  <2>. QED BY <2>3, <2>4, <2>5, <2>6, <2>7, RequestStep DEF Request
<1>6. CASE run[r].todo # {t}
  <2>1. Goto(r, "compare", run[r].todo \ {t}) /\ run[r].todo \ {t} \subseteq Tags
    BY <1>3, <1>6 DEF CrossReference, Run
  <2>2. /\ run' \in [Requests -> Run]
        /\ \A q \in Requests : q # r => run'[q] = run[q]
        /\ run'[r].pc = "compare" /\ run'[r].todo = run[r].todo \ {t}
        /\ run'[r].targets = run[r].targets /\ run'[r].fresh = run[r].fresh
        /\ run'[r].errors = run[r].errors /\ run[r].targets # <<>>
    BY <1>1, <2>1, GotoMoves DEF IInv, Working
  <2>3. TypeOK'
    BY <1>1, <1>4, <2>2 DEF IInv, TypeOK, Active
  <2>4. StepOf(r)
    BY <1>1, <1>2, <1>4, <2>2 DEF StepOf
  <2>5. Unseen(r)' /\ Loops(r)'
    BY <1>1, <1>3, <2>2 DEF Unseen, Loops, At
  <2>6. Accounted(r)'
    BY <1>1, <1>3, <1>4, <2>2 DEF Accounted, InHand, Target, At
  <2>7. Shown(r)'
    BY <1>1, <1>3, <2>2 DEF Shown, Target, At
  <2>. QED BY <2>3, <2>4, <2>5, <2>6, <2>7, RequestStep DEF Request
<1>. QED BY <1>5, <1>6

LEMMA KillStep ==
  ASSUME IInv, NEW r \in Requests, Kill(r)
  PROVE  IInv'
<1>1. /\ Active(r) /\ Records(r)
      /\ UNCHANGED <<published, today, journal, docs, faults, announced, before,
                     listed, masked, compared>>
  BY DEF Kill, Records
<1>2. /\ run' \in [Requests -> Run]
      /\ \A q \in Requests : q # r => run'[q] = run[q]
      /\ run'[r].pc = "killed" /\ run[r].targets # <<>>
      /\ run'[r].targets = run[r].targets
  BY <1>1, GotoMoves DEF Kill, IInv, Ended
<1>3. TypeOK'
  BY <1>1, <1>2 DEF IInv, TypeOK, Active
<1>4. StepOf(r)
  BY <1>1, <1>2 DEF StepOf
<1>5. Request(r)'
  BY <1>2 DEF Request, Unseen, Loops, Accounted, Shown, At
<1>. QED BY <1>3, <1>4, <1>5, RequestStep

-----------------------------------------------------------------------------

LEMMA Inductive == IInv /\ [Next]_vars => IInv'
<1>. SUFFICES ASSUME IInv, [Next]_vars PROVE IInv'
  OBVIOUS
<1>1. CASE \/ \E u \in Upstreams, t \in Tags : Publish(u, t)
           \/ DayPasses \/ CleanupOldEvents \/ UNCHANGED vars
  BY <1>1, OutsideStep
<1>2. ASSUME NEW r \in Requests, \E targets \in TargetLists : Start(r, targets)
      PROVE  IInv'
  BY <1>2, StartStep
<1>3. ASSUME NEW r \in Requests, Sync(r) PROVE IInv'
  BY <1>3, FetchStep, ListStep, RecordStep, RecordFailsStep, UpsertStep DEF Sync
<1>4. ASSUME NEW r \in Requests, \E t \in Tags : CrossReference(r, t)
      PROVE  IInv'
  BY <1>4, CompareStep
<1>5. ASSUME NEW r \in Requests, CallFails(r) \/ Kill(r) PROVE IInv'
  BY <1>5, CallFailsStep, KillStep
<1>. QED BY <1>1, <1>2, <1>3, <1>4, <1>5 DEF Next

LEMMA Invariance == Spec => []IInv
BY Initially, Inductive, PTL DEF Spec

\* Every variable keeps its type, in every behaviour of the watcher.
THEOREM TypeCorrect == Spec => []TypeOK
<1>1. IInv => TypeOK
  BY DEF IInv
<1>. QED BY <1>1, Invariance, PTL

\* A release is journaled twice within the window only by requests that
\* overlapped, for any number of requests and of upstreams and as long as
\* events are kept for the window.
THEOREM NoRepeats == Spec => []RepeatsOnlyByOverlap
<1>1. IInv => RepeatsOnlyByOverlap
  BY DEF IInv
<1>. QED BY <1>1, Invariance, PTL

\* A journaled release without notes or comparison is reported by its request,
\* if that comes to an answer.
THEOREM NoSilentLoss == Spec => []LossIsReported
<1>1. IInv => LossIsReported
  <2>. SUFFICES ASSUME IInv, NEW e \in announced,
                       e.tag \notin docs \/ e \notin compared
                PROVE  \/ Active(e.by) \/ At(e.by, "killed")
                       \/ e.up \in run[e.by].errors
    BY DEF LossIsReported
  <2>1. e.by \in Requests
    BY DEF IInv, TypeOK, Event
  <2>2. At(e.by, "killed") \/ e.up \in run[e.by].errors \/ InHand(e, e.by)
    BY <2>1 DEF IInv, Request, Accounted
  <2>. QED BY <2>2 DEF InHand, Active, Working
<1>. QED BY <1>1, Invariance, PTL

\* An answer without an error for an upstream leaves none of its listed
\* releases unjournaled, but those whose tag the journal had from another.
THEOREM Complete == Spec => []AnswerIsComplete
<1>1. IInv => AnswerIsComplete
  BY DEF IInv, Request, Shown, AnswerIsComplete, At
<1>. QED BY <1>1, Invariance, PTL

=============================================================================
