------------------------ MODULE WebhookDeliveryProofs ------------------------
(***************************************************************************)
(* What holds of WebhookDelivery for any number of deliveries, requests    *)
(* and deploys.  The argument: an identifier is accepted by one request    *)
(* only, because it is recorded in the step that accepts it and is only    *)
(* forgotten once GitHub no longer sends it.                               *)
(*                                                                         *)
(* At the end the other writer of the issues' rows, the weekly catch-up:   *)
(* a job overwrites no row that was there when it looked for rows.         *)
(***************************************************************************)
EXTENDS WebhookDelivery, SequenceTheorems, TLAPS

Accepted(r) == req[r].pc \in Handling \cup {"done", "shut_down", "crashed"}

\* GitHub sends what has happened.
Posted == \A r \in Requests : ~At(r, "unsent") => kind[req[r].id] # "none"

\* An accepted identifier is in the table until it is retired.
Recorded == \A r \in Requests : Accepted(r) => req[r].id \in seen \cup retired

\* Nothing retired is under way.
Fresh == \A r \in Requests : Busy(r) => req[r].id \notin retired

AcceptedOnce ==
  \A r, q \in Requests :
    Accepted(r) /\ Accepted(q) /\ req[r].id = req[q].id => r = q

\* A journal entry stems from an accepted request that is past recordEvent.
Journaled ==
  \A d \in Deliveries :
    journal[d] # 0 => /\ journal[d] = 1
                      /\ \E r \in Requests : /\ Accepted(r) /\ ~At(r, "journal")
                                             /\ req[r].id = d

\* What was handled before a delivery was accepted has a request that is done.
Earlier ==
  \A e \in Deliveries : \A d \in before[e] :
    \E r \in Requests : At(r, "done") /\ req[r].id = d

\* A pause in which a delivery was accepted and that has lasted is on.
HeldInPause == held # {} => paused

IInv == /\ TypeOK /\ Posted /\ Recorded /\ Fresh /\ AcceptedOnce
        /\ Journaled /\ Earlier /\ HeldInPause /\ PauseHonoured

\* Request r goes no way back: it keeps its delivery, is not accepted by this
\* step, and a request that ended stays as it is.
MovesOn(r) ==
  /\ req'[r].id = req[r].id
  /\ req'[r].pc = "unsent" <=> req[r].pc = "unsent"
  /\ Accepted(r)' <=> Accepted(r)
  /\ Busy(r)' => Busy(r)
  /\ At(r, "done") => At(r, "done")'
  /\ At(r, "journal")' => At(r, "journal")

\* Nothing is accepted and nothing accepted is forgotten.
NoneAccepted == /\ UNCHANGED <<kind, retired, before>>
                /\ seen \subseteq seen' \cup retired
                /\ req' \in [Requests -> Request]
                /\ \A r \in Requests : MovesOn(r)

-----------------------------------------------------------------------------

LEMMA Initially == Init => IInv
<1>. SUFFICES ASSUME Init PROVE IInv
  OBVIOUS
<1>1. /\ \A r \in Requests : req[r] = Unsent
      /\ Unsent \in Request /\ ~Unsent.unsure
  BY BoundsAssumption DEF Init, Unsent, Request, Steps
<1>2. TypeOK
  <2>1. /\ req \in [Requests -> Request]
        /\ \A r \in Requests : req[r].id = 0 <=> At(r, "unsent")
    BY <1>1 DEF Init, At, Unsent
  <2>2. /\ kind \in [Deliveries -> Kinds \cup {"none"}]
        /\ journal \in [Deliveries -> Nat]
        /\ before \in [Deliveries -> SUBSET Deliveries]
    BY DEF Init
  <2>3. /\ row \in [text : 0..MaxDeliveries, labels : 0..MaxDeliveries]
        /\ row.text = 0 => row.labels = 0
        /\ learning \in 0..MaxDeliveries /\ deploys \in 0..MaxDeploys
    BY BoundsAssumption DEF Init
  <2>. QED BY <2>1, <2>2, <2>3 DEF Init, TypeOK
<1>3. \A r \in Requests : At(r, "unsent") /\ ~Accepted(r) /\ ~Busy(r)
  BY <1>1 DEF At, Unsent, Accepted, Busy, Handling
<1>4. Posted /\ Recorded /\ Fresh /\ AcceptedOnce
  BY <1>3 DEF Posted, Recorded, Fresh, AcceptedOnce
<1>5. Journaled /\ Earlier /\ HeldInPause /\ PauseHonoured
  BY <1>1, <1>3 DEF Init, Journaled, Earlier, HeldInPause, PauseHonoured, At, Unsent
<1>. QED BY <1>2, <1>4, <1>5 DEF IInv

\* What the steps that accept nothing have in common, whatever they do else.
LEMMA NoneAcceptedKeeps ==
  ASSUME IInv, NoneAccepted
  PROVE  /\ Posted' /\ Recorded' /\ Fresh' /\ AcceptedOnce' /\ Earlier'
         /\ UNCHANGED journal => Journaled'
<1>1. Posted'
  BY DEF IInv, NoneAccepted, MovesOn, Posted, At
<1>2. Recorded'
  BY DEF IInv, NoneAccepted, MovesOn, Recorded
<1>3. Fresh'
  BY DEF IInv, NoneAccepted, MovesOn, Fresh
<1>4. AcceptedOnce'
  BY DEF IInv, NoneAccepted, MovesOn, AcceptedOnce
<1>5. Earlier'
  BY DEF IInv, NoneAccepted, MovesOn, Earlier
<1>6. ASSUME UNCHANGED journal PROVE Journaled'
  <2>1. SUFFICES ASSUME NEW d \in Deliveries, journal[d] # 0
                 PROVE  /\ journal[d] = 1
                        /\ \E r \in Requests : /\ Accepted(r)' /\ ~At(r, "journal")'
                                               /\ req'[r].id = d
    BY <1>6 DEF Journaled
  <2>2. PICK r \in Requests : Accepted(r) /\ ~At(r, "journal") /\ req[r].id = d
    BY <2>1 DEF IInv, Journaled
  <2>3. Accepted(r)' /\ ~At(r, "journal")' /\ req'[r].id = d
    BY <2>2 DEF NoneAccepted, MovesOn
  <2>. QED BY <2>1, <2>3 DEF IInv, Journaled
<1>. QED BY <1>1, <1>2, <1>3, <1>4, <1>5, <1>6

\* One request goes on with its delivery, the others stay.
LEMMA OneMoves ==
  ASSUME IInv, NEW r \in Requests, NEW x \in Request,
         req' = [req EXCEPT ![r] = x], x.id = req[r].id,
         \/ req[r].pc \in Handling /\ x.pc \in (Handling \ {"journal"}) \cup {"done"}
         \/ req[r].pc = "check" /\ x.pc = "refused"
  PROVE  /\ req' \in [Requests -> Request]
         /\ \A q \in Requests : MovesOn(q)
         /\ req'[r] = x
         /\ \A q \in Requests : q # r => req'[q] = req[q]
<1>1. /\ req' \in [Requests -> Request] /\ req'[r] = x
      /\ \A q \in Requests : q # r => req'[q] = req[q]
  BY DEF IInv, TypeOK
<1>2. MovesOn(r)
  BY <1>1 DEF MovesOn, Accepted, Busy, At, Handling
<1>3. \A q \in Requests : q # r => MovesOn(q)
  BY <1>1 DEF MovesOn, Accepted, Busy, At
<1>. QED BY <1>1, <1>2, <1>3

\* The requests a process ends with.
LEMMA AllEnd ==
  ASSUME IInv, NEW S \in SUBSET Requests, NEW how \in {"shut_down", "crashed"},
         \A r \in S : Busy(r),
         req' = [r \in Requests |-> IF r \in S THEN Killed(r, how) ELSE req[r]]
  PROVE  /\ req' \in [Requests -> Request]
         /\ \A r \in Requests : MovesOn(r)
         /\ \A r \in Requests : At(r, "write")' => req'[r] = req[r]
<1>1. \A r \in S : /\ Killed(r, how) \in Request
                    /\ Killed(r, how).id = req[r].id
                    /\ Killed(r, how).pc = IF At(r, "check") THEN "refused" ELSE how
  BY BoundsAssumption DEF IInv, TypeOK, Killed, After, Unsent, Request, Steps, Ended
<1>2. req' \in [Requests -> Request]
  BY <1>1 DEF IInv, TypeOK
<1>3. \A r \in S : MovesOn(r) /\ ~At(r, "write")'
  BY <1>1 DEF MovesOn, Accepted, Busy, At, Handling
<1>4. \A r \in Requests \ S : MovesOn(r) /\ req'[r] = req[r]
  BY DEF MovesOn, Accepted, Busy, At
<1>. QED BY <1>2, <1>3, <1>4

LEMMA HandlerSteps ==
  ASSUME IInv, NEW r \in Requests,
         \/ RejectDuplicate(r) \/ CheckFails(r) \/ PassGate(r) \/ StopAtGate(r)
         \/ WriteRow(r) \/ WriteLabels(r) \/ Learn(r) \/ Obey(r) \/ StepFails(r)
  PROVE  IInv'
<1>. DEFINE D == req[r].id
            GoesOnAs(x) ==
              /\ req' = [req EXCEPT ![r] = x] /\ x.id = D
              /\ \/ /\ req[r].pc \in Handling
                    /\ x.pc \in (Handling \ {"journal"}) \cup {"done"}
                 \/ req[r].pc = "check" /\ x.pc = "refused"
              /\ x.pc = "write" => req[r].pc = "gate" /\ PassGate(r)
<1>1. /\ req[r] \in Request /\ D \in Deliveries /\ ~At(r, "unsent")
      /\ kind[D] \in Kinds
  BY DEF IInv, TypeOK, Posted, Request, Deliveries, At, RejectDuplicate, CheckFails,
         PassGate, StopAtGate, WriteRow, WriteLabels, Learn, Obey, StepFails
<1>2. \E x \in Request : GoesOnAs(x)
  <2>1. CASE PassGate(r)
    <3>1. /\ [req[r] EXCEPT !.pc = "write"] \in Request
          /\ [req[r] EXCEPT !.pc = "write", !.unsure = TRUE] \in Request
      BY <1>1 DEF Request, Steps, Handling
    <3>. QED BY <1>1, <2>1, <3>1 DEF PassGate, Goto, At, Request, Handling
  <2>2. CASE WriteLabels(r) \/ (StepFails(r) /\ At(r, "labels"))
    <3>1. [req[r] EXCEPT !.pc = "learn"] \in Request
      BY <1>1 DEF Request, Steps, Handling
    <3>. QED BY <1>1, <2>2, <3>1 DEF WriteLabels, StepFails, Goto, At, Request, Handling
  <2>3. CASE \/ StopAtGate(r) \/ WriteRow(r) \/ Learn(r) \/ Obey(r)
             \/ StepFails(r) /\ ~At(r, "labels")
    <3>1. After(r, "done") \in Request /\ After(r, "done").id = D
          /\ After(r, "done").pc = "done"
      BY <1>1 DEF After, Unsent, Request, Steps, Ended
    <3>. QED BY <2>3, <3>1 DEF StopAtGate, WriteRow, Learn, Obey, StepFails, Finish, At,
                               Handling
  <2>4. CASE RejectDuplicate(r) \/ CheckFails(r)
    <3>1. After(r, "refused") \in Request /\ After(r, "refused").id = D
          /\ After(r, "refused").pc = "refused"
      BY <1>1 DEF After, Unsent, Request, Steps, Ended
    <3>. QED BY <2>4, <3>1 DEF RejectDuplicate, CheckFails, Finish, At
  <2>. HIDE DEF GoesOnAs
  <2>. QED BY <2>1, <2>2, <2>3, <2>4
<1>3. /\ req' \in [Requests -> Request]
      /\ \A q \in Requests : MovesOn(q)
      /\ \A q \in Requests \ {r} : req'[q] = req[q]
      /\ At(r, "write")' => PassGate(r)
  BY <1>2, OneMoves DEF At
<1>4. /\ UNCHANGED <<kind, retired, journal, before, deploys>>
      /\ seen \subseteq seen' /\ seen' \subseteq Deliveries
  BY <1>1 DEF IInv, TypeOK, RejectDuplicate, CheckFails, PassGate, StopAtGate, WriteRow,
              WriteLabels, Learn, Obey, StepFails, table, history
<1>5. /\ paused' \in BOOLEAN /\ held' \subseteq held /\ HeldInPause'
  BY DEF IInv, TypeOK, HeldInPause, RejectDuplicate, CheckFails, PassGate, StopAtGate,
         WriteRow, WriteLabels, Learn, Obey, SetPaused, StepFails, history
<1>6. /\ row' \in [text : 0..MaxDeliveries, labels : 0..MaxDeliveries]
      /\ row'.text = 0 => row'.labels = 0
      /\ learning' \in 0..MaxDeliveries
  BY <1>1, BoundsAssumption DEF IInv, TypeOK, Deliveries, RejectDuplicate, CheckFails,
     PassGate, StopAtGate, WriteRow, WriteLabels, Learn, Obey, StepFails
<1>7. TypeOK'
  BY <1>3, <1>4, <1>5, <1>6 DEF IInv, TypeOK, MovesOn, At
<1>8. PauseHonoured'
  <2>1. SUFFICES ASSUME NEW q \in Requests, At(q, "write")',
                        kind[req'[q].id] = "opened", req'[q].id \in held'
                 PROVE  req'[q].unsure
    BY <1>4 DEF PauseHonoured
  <2>2. CASE q # r
    BY <1>3, <1>5, <2>1, <2>2 DEF IInv, PauseHonoured, At
  <2>3. CASE q = r
    <3>1. PassGate(r) /\ req'[r].id = D /\ held # {} /\ paused
      BY <1>3, <1>5, <2>1, <2>3 DEF MovesOn, IInv, HeldInPause
    <3>. QED BY <1>1, <2>3, <3>1 DEF PassGate, Goto, IInv, TypeOK, Request
  <2>. QED BY <2>2, <2>3
<1>9. NoneAccepted
  BY <1>3, <1>4 DEF NoneAccepted
<1>. QED BY <1>4, <1>5, <1>7, <1>8, <1>9, NoneAcceptedKeeps DEF IInv

\* Happen and Post: the request comes to be, with a delivery not retired.
LEMMA HappenStep ==
  ASSUME IInv, NEW d \in Deliveries, NEW k \in Kinds, Happen(d, k)
  PROVE  IInv'
<1>1. /\ kind' \in [Deliveries -> Kinds \cup {"none"}]
      /\ \A e \in Deliveries : kind[e] # "none" => kind'[e] = kind[e]
  BY DEF IInv, TypeOK, Happen, Kinds
<1>2. UNCHANGED <<retired, seen, journal, row, learning, paused, req, deploys,
                  before, held>>
  BY DEF Happen, table, history
<1>3. \A r \in Requests : ~At(r, "unsent") => req[r].id \in Deliveries
  BY DEF IInv, TypeOK, Request, Deliveries
<1>4. TypeOK' /\ Posted'
  BY <1>1, <1>2, <1>3 DEF IInv, TypeOK, Posted, At
<1>5. Recorded' /\ Fresh' /\ AcceptedOnce' /\ Journaled' /\ Earlier' /\ HeldInPause'
  BY <1>2 DEF IInv, Recorded, Fresh, AcceptedOnce, Journaled, Earlier, HeldInPause,
              Accepted, Busy, At
<1>6. PauseHonoured'
  BY <1>1, <1>2, <1>3 DEF IInv, Posted, PauseHonoured, At
<1>. QED BY <1>4, <1>5, <1>6 DEF IInv

LEMMA PostStep ==
  ASSUME IInv, NEW r \in Requests, NEW d \in Deliveries, Post(r, d)
  PROVE  IInv'
<1>. DEFINE x == [id |-> d, pc |-> "check", dying |-> FALSE, unsure |-> FALSE]
<1>1. /\ x \in Request /\ x.id = d /\ x.pc = "check" /\ d # 0
  BY BoundsAssumption DEF Request, Steps, Deliveries
<1>2. /\ req' \in [Requests -> Request] /\ req'[r] = x
      /\ \A q \in Requests : q # r => req'[q] = req[q]
  BY <1>1 DEF IInv, TypeOK, Post
<1>3. UNCHANGED <<kind, retired, seen, journal, row, learning, paused, deploys,
                  before, held>>
  BY DEF Post, table, history
<1>4. ~Accepted(r) /\ ~Accepted(r)' /\ ~At(r, "done") /\ ~At(r, "write")'
  BY <1>1, <1>2 DEF Post, Accepted, Handling, At
<1>5. TypeOK'
  BY <1>1, <1>2, <1>3 DEF IInv, TypeOK, At
<1>6. Posted' /\ Fresh'
  BY <1>1, <1>2, <1>3 DEF IInv, Posted, Fresh, Busy, At, Post, Happened
<1>7. Recorded' /\ AcceptedOnce'
  BY <1>2, <1>3, <1>4 DEF IInv, Recorded, AcceptedOnce, Accepted
<1>8. Journaled' /\ Earlier'
  BY <1>2, <1>3, <1>4 DEF IInv, Journaled, Earlier, Accepted, At
<1>9. HeldInPause' /\ PauseHonoured'
  BY <1>2, <1>3, <1>4 DEF IInv, HeldInPause, PauseHonoured, At
<1>. QED BY <1>5, <1>6, <1>7, <1>8, <1>9 DEF IInv

\* The one step that accepts: the identifier was not in the table and is not
\* retired, so no request accepted it before.
LEMMA AcceptStep ==
  ASSUME IInv, NEW r \in Requests, Accept(r)
  PROVE  IInv'
<1>. DEFINE d == req[r].id
            x == [req[r] EXCEPT !.pc = "journal"]
<1>1. /\ x \in Request /\ x.id = d /\ x.pc = "journal" /\ d \in Deliveries
      /\ d # 0 /\ At(r, "check") /\ kind[d] # "none"
  BY DEF IInv, TypeOK, Posted, Accept, At, Request, Steps, Handling, Deliveries
<1>2. /\ req' \in [Requests -> Request] /\ req'[r] = x
      /\ \A q \in Requests : q # r => req'[q] = req[q]
  BY <1>1 DEF IInv, TypeOK, Accept, Goto
<1>3. /\ UNCHANGED <<kind, retired, journal, row, learning, paused, deploys>>
      /\ seen' = seen \cup {d}
  BY DEF Accept
<1>4. d \notin seen /\ d \notin retired
  BY <1>1 DEF IInv, Fresh, Accept, Busy, At
<1>5. \A q \in Requests : Accepted(q) => req[q].id # d
  BY <1>4 DEF IInv, Recorded
<1>6. ~Accepted(r) /\ Accepted(r)'
  BY <1>1, <1>2 DEF Accepted, Handling, At
<1>7. TypeOK'
  <2>1. {req[q].id : q \in {p \in Requests : At(p, "done")}} \subseteq Deliveries
    BY DEF IInv, TypeOK, Request, At, Deliveries
  <2>2. before' \in [Deliveries -> SUBSET Deliveries] /\ held' \subseteq Deliveries
    BY <1>1, <2>1 DEF IInv, TypeOK, Accept
  <2>3. \A q \in Requests : req'[q].id = 0 <=> At(q, "unsent")'
    <3>1. req'[r].id # 0 /\ ~At(r, "unsent")'
      BY <1>1, <1>2 DEF At
    <3>. QED BY <1>2, <3>1 DEF IInv, TypeOK, At
  <2>4. seen' \subseteq Deliveries
    BY <1>1, <1>3 DEF IInv, TypeOK
  <2>. QED BY <1>2, <1>3, <2>2, <2>3, <2>4 DEF IInv, TypeOK
<1>8. Posted' /\ Fresh'
  BY <1>1, <1>2, <1>3, <1>4 DEF IInv, Posted, Fresh, Busy, At
<1>9. Recorded' /\ AcceptedOnce'
  <2>1. \A q \in Requests : q # r => /\ Accepted(q)' <=> Accepted(q)
                                    /\ req'[q].id = req[q].id
    BY <1>2 DEF Accepted
  <2>2. req'[r].id = d
    BY <1>1, <1>2
  <2>3. Recorded'
    BY <1>3, <2>1, <2>2 DEF IInv, Recorded
  <2>4. AcceptedOnce'
    BY <1>5, <2>1, <2>2 DEF IInv, AcceptedOnce
  <2>. QED BY <2>3, <2>4
<1>10. Journaled'
  BY <1>2, <1>3, <1>6 DEF IInv, Journaled, Accepted, At
<1>11. Earlier'
  <2>1. \A e \in Deliveries : \A c \in before'[e] :
          c \in before[e] \/ \E q \in Requests : At(q, "done") /\ req[q].id = c
    BY DEF IInv, TypeOK, Accept
  <2>2. \A q \in Requests : At(q, "done") => At(q, "done")' /\ req'[q].id = req[q].id
    BY <1>1, <1>2 DEF At
  <2>. QED BY <2>1, <2>2 DEF IInv, Earlier
<1>12. HeldInPause'
  BY <1>3 DEF IInv, TypeOK, HeldInPause, Accept
<1>13. PauseHonoured'
  <2>1. \A q \in Requests : At(q, "write") => req[q].id # d
    BY <1>5 DEF Accepted, Handling, At
  <2>2. held' \subseteq held \cup {d}
    BY DEF Accept
  <2>. QED BY <1>1, <1>2, <1>3, <2>1, <2>2 DEF IInv, PauseHonoured, At
<1>. QED BY <1>7, <1>8, <1>9, <1>10, <1>11, <1>12, <1>13 DEF IInv

\* recordEvent runs once per accepted request, and one request accepted it.
LEMMA JournalStep ==
  ASSUME IInv, NEW r \in Requests, Journal(r)
  PROVE  IInv'
<1>. DEFINE d == req[r].id
            x == [req[r] EXCEPT !.pc = Handler(kind[d])]
<1>1. /\ At(r, "journal") /\ d \in Deliveries /\ kind[d] \in Kinds
      /\ req[r] \in Request
  BY DEF IInv, TypeOK, Posted, Journal, At, Request, Deliveries
<1>2. Handler(kind[d]) \in Handling \ {"journal"}
  BY <1>1 DEF Handler, Kinds, Handling
<1>3. /\ x \in Request /\ x.id = d /\ x.pc \in Handling \ {"journal"}
      /\ x.pc = "write" => kind[d] # "opened"
  BY <1>1, <1>2 DEF Request, Steps, Handler, Kinds
<1>4. /\ req' \in [Requests -> Request] /\ req'[r] = x
      /\ \A q \in Requests : MovesOn(q)
      /\ \A q \in Requests : q # r => req'[q] = req[q]
  <2>1. req' = [req EXCEPT ![r] = x]
    BY <1>1 DEF Journal, Goto
  <2>2. req[r].pc \in Handling
    BY <1>1 DEF At, Handling
  <2>. QED BY <1>3, <2>1, <2>2, OneMoves
<1>5. /\ UNCHANGED <<kind, retired, seen, row, learning, paused, deploys, before, held>>
      /\ journal' \in [Deliveries -> Nat]
      /\ \A e \in Deliveries : e # d => journal'[e] = journal[e]
      /\ journal'[d] \in {journal[d], journal[d] + 1}
  BY <1>1 DEF IInv, TypeOK, Journal, table, history
<1>6. NoneAccepted
  BY <1>4, <1>5 DEF NoneAccepted
<1>7. journal[d] = 0
  BY <1>1 DEF IInv, Journaled, AcceptedOnce, Accepted, Handling, At
<1>8. Journaled'
  <2>1. SUFFICES ASSUME NEW e \in Deliveries, journal'[e] # 0
                 PROVE  /\ journal'[e] = 1
                        /\ \E q \in Requests : /\ Accepted(q)' /\ ~At(q, "journal")'
                                               /\ req'[q].id = e
    BY DEF Journaled
  <2>2. CASE e = d
    <3>1. Accepted(r)' /\ ~At(r, "journal")' /\ req'[r].id = d
      BY <1>3, <1>4 DEF Accepted, At
    <3>. QED BY <1>5, <1>7, <2>1, <2>2, <3>1
  <2>3. CASE e # d
    <3>1. PICK q \in Requests : Accepted(q) /\ ~At(q, "journal") /\ req[q].id = e
      BY <1>5, <2>1, <2>3 DEF IInv, Journaled
    <3>. QED BY <1>4, <1>5, <2>1, <2>3, <3>1 DEF MovesOn, IInv, Journaled
  <2>. QED BY <2>2, <2>3
<1>9. TypeOK'
  BY <1>4, <1>5 DEF IInv, TypeOK, MovesOn, At
<1>10. HeldInPause'
  BY <1>5 DEF IInv, HeldInPause
<1>11. PauseHonoured'
  <2>1. ~(At(r, "write")' /\ kind'[req'[r].id] = "opened")
    BY <1>3, <1>4, <1>5 DEF At
  <2>2. \A q \in Requests : q # r => req'[q] = req[q]
    BY <1>4
  <2>. QED BY <1>5, <2>1, <2>2 DEF IInv, PauseHonoured, At
<1>. QED BY <1>6, <1>8, <1>9, <1>10, <1>11, NoneAcceptedKeeps DEF IInv

LEMMA PauseEndpointStep ==
  ASSUME IInv, NEW p \in BOOLEAN, PauseEndpoint(p)
  PROVE  IInv'
<1>1. /\ UNCHANGED <<kind, retired, seen, journal, row, learning, req, deploys, before>>
      /\ paused' = p /\ held' = IF p THEN held ELSE {}
  BY DEF PauseEndpoint, SetPaused, table
<1>2. TypeOK' /\ HeldInPause' /\ PauseHonoured'
  BY <1>1 DEF IInv, TypeOK, HeldInPause, PauseHonoured, At
<1>3. NoneAccepted
  BY <1>1 DEF NoneAccepted, MovesOn, Accepted, Busy, At, IInv, TypeOK
<1>. QED BY <1>1, <1>2, <1>3, NoneAcceptedKeeps DEF IInv

LEMMA MonthPassesStep ==
  ASSUME IInv, MonthPasses
  PROVE  IInv'
<1>1. /\ UNCHANGED <<kind, seen, journal, row, learning, paused, req, deploys, before, held>>
      /\ retired' = Happened /\ \A r \in Requests : ~Busy(r)
  BY DEF MonthPasses, history
<1>2. TypeOK' /\ Posted' /\ Fresh' /\ HeldInPause' /\ PauseHonoured'
  BY <1>1 DEF IInv, TypeOK, Posted, Fresh, HeldInPause, PauseHonoured, At, Busy, Happened
<1>3. AcceptedOnce' /\ Journaled' /\ Earlier'
  BY <1>1 DEF IInv, AcceptedOnce, Journaled, Earlier, Accepted, At
<1>4. Recorded'
  BY <1>1 DEF IInv, TypeOK, Posted, Recorded, Accepted, Handling, At, Happened, Request,
              Deliveries
<1>. QED BY <1>2, <1>3, <1>4 DEF IInv

\* Deploy, Exit and Crash: handlers are marked or end, and the table only loses
\* what is retired.
LEMMA ProcessSteps ==
  ASSUME IInv, Deploy \/ Exit \/ Crash
  PROVE  IInv'
<1>1. /\ UNCHANGED <<kind, retired, journal, row, learning, paused, before, held>>
      /\ seen' \subseteq seen /\ seen \subseteq seen' \cup retired
      /\ deploys' \in 0..MaxDeploys
  BY BoundsAssumption DEF IInv, TypeOK, Deploy, Exit, Crash, CleanUp, table, history
<1>2. /\ req' \in [Requests -> Request]
      /\ \A r \in Requests : MovesOn(r)
      /\ \A r \in Requests : At(r, "write")' => req'[r].unsure = req[r].unsure /\ At(r, "write")
  <2>1. CASE Deploy
    <3>1. \A r \in Requests : /\ req'[r] \in Request
                              /\ req'[r].id = req[r].id /\ req'[r].pc = req[r].pc
                              /\ req'[r].unsure = req[r].unsure
      BY <2>1 DEF Deploy, IInv, TypeOK, Request
    <3>2. req' \in [Requests -> Request]
      BY <2>1, <3>1 DEF Deploy
    <3>. QED BY <3>1, <3>2 DEF MovesOn, Accepted, Busy, At
  <2>2. CASE Exit
    <3>. DEFINE S == {r \in Requests : Busy(r) /\ req[r].dying}
    <3>1. req' = [r \in Requests |-> IF r \in S THEN Killed(r, "shut_down") ELSE req[r]]
      BY <2>2 DEF Exit
    <3>2. S \in SUBSET Requests /\ \A r \in S : Busy(r)
      OBVIOUS
    <3>. HIDE DEF S
    <3>. QED BY <3>1, <3>2, AllEnd DEF At
  <2>3. CASE Crash
    <3>. DEFINE S == {r \in Requests : Busy(r)}
    <3>1. req' = [r \in Requests |-> IF r \in S THEN Killed(r, "crashed") ELSE req[r]]
      BY <2>3 DEF Crash
    <3>2. S \in SUBSET Requests /\ \A r \in S : Busy(r)
      OBVIOUS
    <3>. HIDE DEF S
    <3>. QED BY <3>1, <3>2, AllEnd DEF At
  <2>. QED BY <2>1, <2>2, <2>3
<1>3. TypeOK'
  BY <1>1, <1>2 DEF IInv, TypeOK, MovesOn, At
<1>4. HeldInPause' /\ PauseHonoured'
  BY <1>1, <1>2 DEF IInv, HeldInPause, PauseHonoured, MovesOn, At
<1>5. NoneAccepted
  BY <1>1, <1>2 DEF NoneAccepted
<1>. QED BY <1>1, <1>3, <1>4, <1>5, NoneAcceptedKeeps DEF IInv

LEMMA Stuttering == IInv /\ UNCHANGED vars => IInv'
<1>. SUFFICES ASSUME IInv, UNCHANGED vars PROVE IInv'
  OBVIOUS
<1>1. TypeOK' /\ Posted' /\ Recorded' /\ Fresh' /\ AcceptedOnce'
  BY DEF vars, IInv, TypeOK, Posted, Recorded, Fresh, AcceptedOnce, Accepted, Busy, At
<1>2. Journaled' /\ Earlier' /\ HeldInPause' /\ PauseHonoured'
  BY DEF vars, IInv, Journaled, Earlier, HeldInPause, PauseHonoured, Accepted, At
<1>. QED BY <1>1, <1>2 DEF IInv

LEMMA Inductive == IInv /\ [Next]_vars => IInv'
<1>1. ASSUME IInv, NEW r \in Requests, Handle(r) PROVE IInv'
  BY <1>1, AcceptStep, JournalStep, HandlerSteps DEF Handle
<1>2. ASSUME IInv, Next PROVE IInv'
  BY <1>1, <1>2, HappenStep, PostStep, PauseEndpointStep, MonthPassesStep, ProcessSteps
     DEF Next
<1>. QED BY <1>2, Stuttering

LEMMA Invariance == Spec => []IInv
  BY Initially, Inductive, PTL DEF Spec

-----------------------------------------------------------------------------
(* Results.                                                                *)

\* Every variable of the webhook stays in its set, for any number of
\* deliveries, requests and deploys; a row has labels only if it exists.
THEOREM TypeCorrect == Spec => []TypeOK
<1>1. IInv => TypeOK
  BY DEF IInv
<1>. QED BY <1>1, Invariance, PTL

\* ADR 009's promise: however often GitHub sends a delivery, whatever runs at
\* the same time and whenever the process restarts, it is journaled once.
THEOREM AtMostOnce == Spec => []JournaledOnce
<1>1. IInv => JournaledOnce
  BY DEF IInv, Journaled, TypeOK, JournaledOnce
<1>. QED BY <1>1, Invariance, PTL

\* The pause gate of handleOpened: an issue whose delivery was accepted in a
\* pause that lasts is only embedded if the pause could not be checked.
THEOREM PauseIsHonoured == Spec => []PauseHonoured
<1>1. IInv => PauseHonoured
  BY DEF IInv
<1>. QED BY <1>1, Invariance, PTL

\* What a delivery wrote to the row or to the learning is never replaced by a
\* delivery handled to the end before it was accepted.
THEOREM NeverReverts == Spec => RowNeverReverts
<1>. DEFINE Kept == /\ row'.text # row.text /\ row.text # 0
                         => row'.text \notin before[row.text]
                    /\ row'.labels # row.labels /\ row.labels # 0
                         => row'.labels \notin before[row.labels]
                    /\ learning' # learning /\ learning # 0
                         => learning' \notin before[learning]
<1>1. ASSUME IInv, NEW r \in Requests, req[r].pc \in Handling, NEW e \in Deliveries
      PROVE  req[r].id \notin before[e]
  BY <1>1 DEF IInv, Earlier, AcceptedOnce, Accepted, Handling, At
<1>2. ASSUME IInv, NEW r \in Requests, Handle(r) PROVE Kept
  <2>1. /\ row.text # 0 => row.text \in Deliveries
        /\ row.labels # 0 => row.labels \in Deliveries
        /\ learning # 0 => learning \in Deliveries
    BY <1>2 DEF IInv, TypeOK, Deliveries
  <2>2. \/ UNCHANGED <<row, learning>>
        \/ /\ req[r].pc \in Handling
           /\ row'.text \in {row.text, req[r].id}
           /\ row'.labels \in {row.labels, req[r].id}
           /\ learning' \in {learning, req[r].id}
    <3>1. CASE WriteRow(r) \/ WriteLabels(r) \/ Learn(r)
      BY <1>2, <3>1 DEF WriteRow, WriteLabels, Learn, At, Handling, IInv, TypeOK
    <3>2. CASE ~(WriteRow(r) \/ WriteLabels(r) \/ Learn(r))
      BY <1>2, <3>2 DEF Handle, Accept, RejectDuplicate, CheckFails, Journal, PassGate,
                        StopAtGate, Obey, StepFails
    <3>. QED BY <3>1, <3>2
  <2>. QED BY <1>1, <1>2, <2>1, <2>2
<1>3. ASSUME IInv, [Next]_vars PROVE [Kept]_<<row, learning>>
  <2>1. CASE \E r \in Requests : Handle(r)
    BY <1>2, <1>3, <2>1
  <2>2. CASE ~\E r \in Requests : Handle(r)
    BY <1>3, <2>2 DEF Next, vars, Happen, Post, PauseEndpoint, MonthPasses, Deploy, Exit, Crash
  <2>. QED BY <2>1, <2>2
<1>. QED BY <1>3, Invariance, PTL DEF Spec, RowNeverReverts
-----------------------------------------------------------------------------
(* The other writer of the rows: the weekly catch-up (module IssueCatchup),  *)
(* which has its own view of deliveries.  Its column is called stored here.  *)

CONSTANTS Numbers, PullRequests, Jobs, Limit, PageSize, MaxChanges, MaxFaults

VARIABLES version, listed, changes, flight, stored, pc, page, fetched, existing,
          wrote, faults

\* The job beside the webhook.
Catchup == INSTANCE IssueCatchup WITH row <- stored

\* Issues as the API lists them.
Listing == Seq([number : Numbers, version : Nat])

\* What the argument needs of the variables' types.
Lists ==
  /\ version \in [Numbers -> Nat]
  /\ listed \in Seq(Numbers)
  /\ flight \subseteq [number : Numbers, version : Nat]
  /\ stored \in [Numbers -> Nat]
  /\ pc \in [Jobs -> {"idle", "fetch", "existing", "embed"}]
  /\ page \in [Jobs -> Nat \ {0}]
  /\ fetched \in [Jobs -> Listing]
  /\ existing \in [Jobs -> SUBSET Numbers]
  /\ wrote \in [Jobs -> SUBSET Numbers]

\* A list, in the order in which its pages came: no issue in it is older than
\* it was further up, or newer than it is.
Sorted(s) ==
  \A i, k \in DOMAIN s :
    i =< k /\ s[i].number = s[k].number => s[i].version =< s[k].version

Past(s) == \A i \in DOMAIN s : s[i].version =< version[s[i].number]

NotOlder(s, n, v) == \A i \in DOMAIN s : s[i].number = n => v =< s[i].version

Sound == \A j \in Jobs : Sorted(fetched[j]) /\ Past(fetched[j])

\* A job that embeds knows of every row, but those others wrote since it looked
\* and those it wrote itself, which its list does not set back.
Looked ==
  \A j \in Jobs : pc[j] = "embed" =>
    \A n \in Numbers : stored[n] # 0 =>
      n \in existing[j] \cup wrote[j] \/ NotOlder(fetched[j], n, stored[n])

CatchupInv == Lists /\ Sound /\ Looked

\* A list that is cut off, a page of the list, and the list after a change are lists.
LEMMA AtMostListed ==
  ASSUME NEW S, NEW s \in Seq(S), NEW n \in Nat
  PROVE  Catchup!AtMost(n, s) \in Seq(S)
BY SubSeqProperties DEF Catchup!AtMost

LEMMA PageListed ==
  ASSUME Limit \in Nat \ {0}, PageSize \in Nat \ {0}, listed \in Seq(Numbers),
         NEW p \in Nat \ {0}
  PROVE  Catchup!Page(p) \in Seq(Numbers)
<1>1. Catchup!PerPage \in Nat \ {0}
  BY DEF Catchup!PerPage
<1>2. (p - 1) * Catchup!PerPage \in Nat
  BY <1>1
<1>3. SubSeq(listed, (p - 1) * Catchup!PerPage + 1, Len(listed)) \in Seq(Numbers)
  <2> DEFINE from == (p - 1) * Catchup!PerPage + 1
  <2>1. from \in 1..Len(listed) + 1 \/ from > Len(listed)
    BY <1>2
  <2>2. from \in Nat \ {0} BY <1>2
  <2>3. SubSeq(listed, from, Len(listed)) \in Seq(Numbers)
    <3> HIDE DEF from
    <3> QED BY <2>1, <2>2, SubSeqProperties
  <2> QED BY <2>3
<1> QED BY <1>1, <1>3, AtMostListed DEF Catchup!Page

LEMMA OthersListed ==
  ASSUME listed \in Seq(Numbers), NEW n \in Numbers
  PROVE  <<n>> \o Catchup!Others(n) \in Seq(Numbers)
<1>1. Catchup!Others(n) \in Seq(Numbers)
  <2>1. CASE n \notin Catchup!Range(listed)
    BY <2>1 DEF Catchup!Others
  <2>2. CASE n \in Catchup!Range(listed)
    <3> DEFINE i == CHOOSE i \in DOMAIN listed : listed[i] = n
    <3>1. i \in 1..Len(listed)
      BY <2>2 DEF Catchup!Range
    <3> HIDE DEF i
    <3>2. /\ SubSeq(listed, 1, i - 1) \in Seq(Numbers)
          /\ SubSeq(listed, i + 1, Len(listed)) \in Seq(Numbers)
      BY <3>1, SubSeqProperties
    <3>3. Catchup!RemoveAt(listed, i) \in Seq(Numbers)
      BY <3>2 DEF Catchup!RemoveAt
    <3> QED BY <2>2, <3>3 DEF Catchup!Others, i
  <2> QED BY <2>1, <2>2
<1> QED BY <1>1

\* Neither what is cut off nor the first issue is missed by what is left.
LEMMA AtMostSound ==
  ASSUME NEW s \in Listing, NEW n \in Nat, Sorted(s), Past(s)
  PROVE  Sorted(Catchup!AtMost(n, s)) /\ Past(Catchup!AtMost(n, s))
<1> DEFINE cut == Catchup!AtMost(n, s)
<1>1. DOMAIN cut \subseteq DOMAIN s /\ \A i \in DOMAIN cut : cut[i] = s[i]
  BY DEF Catchup!AtMost, Listing
<1> HIDE DEF cut
<1>2. Sorted(cut) /\ Past(cut)
  BY <1>1 DEF Sorted, Past
<1> QED BY <1>2 DEF cut

LEMMA TailSound ==
  ASSUME NEW s \in Listing, s # <<>>, Sorted(s), Past(s)
  PROVE  /\ Tail(s) \in Listing /\ Sorted(Tail(s)) /\ Past(Tail(s))
         /\ Head(s) \in [number : Numbers, version : Nat] /\ Head(s) = s[1] /\ 1 \in DOMAIN s
         /\ NotOlder(Tail(s), Head(s).number, Head(s).version)
         /\ \A n, v : NotOlder(s, n, v) => NotOlder(Tail(s), n, v)
<1> DEFINE rest == Tail(s)
<1>1. /\ rest \in Listing /\ Head(s) = s[1] /\ 1 \in DOMAIN s
      /\ s[1] \in [number : Numbers, version : Nat]
      /\ \A i \in DOMAIN rest :
           i \in Nat /\ 1 =< i /\ i + 1 \in DOMAIN s /\ rest[i] = s[i + 1]
  <2>1. /\ rest \in Listing /\ Len(rest) = Len(s) - 1 /\ Len(s) \in Nat /\ Len(s) # 0
        /\ \A i \in 1..Len(rest) : rest[i] = s[i + 1]
    BY HeadTailProperties, EmptySeq DEF Listing
  <2>2. DOMAIN rest = 1..Len(rest) /\ DOMAIN s = 1..Len(s)
    BY <2>1 DEF Listing
  <2>3. Head(s) = s[1] /\ s[1] \in [number : Numbers, version : Nat]
    <3>1. 1 \in 1..Len(s) /\ Len(s) \in 1..Len(s)
      BY <2>1
    <3>2. Head(SubSeq(s, 1, Len(s))) = s[1] /\ SubSeq(s, 1, Len(s)) = s
      BY <3>1, HeadTailOfSubSeq, SubSeqFull DEF Listing
    <3> QED BY <3>1, <3>2, ElementOfSeq DEF Listing
  <2> HIDE DEF rest
  <2> QED BY <2>1, <2>2, <2>3
<1> HIDE DEF rest
<1>2. Sorted(rest)
  BY <1>1 DEF Sorted
<1>3. Past(rest)
  BY <1>1 DEF Past
<1>4. NotOlder(rest, Head(s).number, Head(s).version)
  BY <1>1 DEF NotOlder, Sorted
<1>5. \A n, v : NotOlder(s, n, v) => NotOlder(rest, n, v)
  BY <1>1 DEF NotOlder
<1> QED BY <1>1, <1>2, <1>3, <1>4, <1>5 DEF rest

\* A page of current issues behind a list of past ones.
LEMMA ConcatSound ==
  ASSUME NEW s \in Listing, NEW t \in Listing, Sorted(s), Past(s),
         \A i \in DOMAIN t : t[i].version = version[t[i].number]
  PROVE  Sorted(s \o t) /\ Past(s \o t)
<1> DEFINE all == s \o t
<1>1. \A i \in DOMAIN all :
        \/ i \in DOMAIN s /\ all[i] = s[i]
        \/ /\ i \in Nat /\ i > Len(s) /\ i - Len(s) \in DOMAIN t
           /\ all[i] = t[i - Len(s)]
  BY ConcatProperties DEF Listing
<1>2. DOMAIN s = 1..Len(s) /\ Len(s) \in Nat
  BY DEF Listing
<1>3. /\ \A i \in DOMAIN s : s[i] \in [number : Numbers, version : Nat]
      /\ \A i \in DOMAIN t : t[i] \in [number : Numbers, version : Nat]
  BY LenProperties, ElementOfSeq DEF Listing
<1> HIDE DEF all
<1>4. Past(all)
  BY <1>1, <1>3 DEF Past
<1>5. ASSUME NEW i \in DOMAIN all, NEW k \in DOMAIN all, i =< k,
             all[i].number = all[k].number
      PROVE  all[i].version =< all[k].version
  <2>1. CASE k \in DOMAIN s /\ all[k] = s[k]
    <3>1. i \in DOMAIN s /\ all[i] = s[i]
      BY <1>1, <1>2, <1>5, <2>1
    <3> QED BY <1>5, <2>1, <3>1 DEF Sorted
  <2>2. CASE all[k].version = version[all[k].number]
    BY <1>4, <1>5, <2>2 DEF Past
  <2> QED BY <1>1, <1>5, <2>1, <2>2
<1>6. Sorted(all)
  BY <1>5 DEF Sorted
<1> QED BY <1>4, <1>6 DEF all

\* An issue that changes becomes newer.
LEMMA PastLater ==
  ASSUME version \in [Numbers -> Nat], NEW later \in [Numbers -> Nat],
         \A n \in Numbers : version[n] =< later[n],
         NEW s \in Listing, Past(s)
  PROVE  \A i \in DOMAIN s : s[i].version =< later[s[i].number]
<1> SUFFICES ASSUME NEW i \in DOMAIN s PROVE s[i].version =< later[s[i].number]
  OBVIOUS
<1>1. s[i] \in [number : Numbers, version : Nat]
  BY LenProperties, ElementOfSeq DEF Listing
<1>2. s[i].version =< version[s[i].number]
  BY DEF Past
<1> QED BY <1>1, <1>2

LEMMA CatchupInit == Catchup!Init => CatchupInv
<1> SUFFICES ASSUME Catchup!Init PROVE CatchupInv
  OBVIOUS
<1>1. Lists /\ Looked
  BY EmptySeq DEF Catchup!Init, Lists, Looked, Listing
<1>2. Sound
  BY DEF Catchup!Init, Sound, Sorted, Past
<1> QED BY <1>1, <1>2 DEF CatchupInv

LEMMA CatchupStep ==
  ASSUME Limit \in Nat \ {0}, PageSize \in Nat \ {0}, CatchupInv, Catchup!Next
  PROVE  CatchupInv'
<1> USE DEF CatchupInv, Lists
<1>1. ASSUME NEW n \in Numbers, Catchup!Change(n) PROVE CatchupInv'
  <2>1. listed' \in Seq(Numbers)
    BY <1>1, OthersListed DEF Catchup!Change
  <2>2. flight' \subseteq [number : Numbers, version : Nat]
    BY <1>1 DEF Catchup!Change
  <2>3. /\ UNCHANGED <<stored, pc, page, fetched, existing, wrote>>
        /\ version' \in [Numbers -> Nat] /\ \A m \in Numbers : version[m] =< version'[m]
    BY <1>1 DEF Catchup!Change, Catchup!job
  <2>4. Sound'
    <3>1. \A j \in Jobs : \A i \in DOMAIN fetched[j] :
            fetched[j][i].version =< version'[fetched[j][i].number]
      BY <2>3, PastLater DEF Sound
    <3> QED BY <2>3, <3>1 DEF Sound, Sorted, Past
  <2>5. Looked'
    BY <2>3 DEF Looked, NotOlder
  <2> QED BY <2>1, <2>2, <2>3, <2>4, <2>5
<1>2. ASSUME NEW d \in flight, Catchup!Deliver(d) PROVE CatchupInv'
  <2>1. /\ UNCHANGED <<version, listed, pc, page, fetched, existing>>
        /\ d \in [number : Numbers, version : Nat]
        /\ flight' \subseteq [number : Numbers, version : Nat]
        /\ stored' = [stored EXCEPT ![d.number] = d.version]
        /\ wrote' = [j \in Jobs |-> IF pc[j] = "embed" THEN wrote[j] \cup {d.number}
                                    ELSE wrote[j]]
    BY <1>2 DEF Catchup!Deliver, Catchup!UpsertIssue, Catchup!github, Catchup!job
  <2>2. Sound'
    BY <2>1 DEF Sound, Sorted, Past
  <2>3. Looked'
    <3> SUFFICES ASSUME NEW j \in Jobs, pc[j] = "embed", NEW n \in Numbers, stored'[n] # 0
                 PROVE  n \in existing[j] \cup wrote'[j] \/ NotOlder(fetched[j], n, stored'[n])
      BY <2>1 DEF Looked, NotOlder
    <3>1. CASE n = d.number
      BY <2>1, <3>1
    <3>2. CASE n # d.number
      BY <2>1, <3>2 DEF Looked
    <3> QED BY <3>1, <3>2
  <2> QED BY <2>1, <2>2, <2>3
<1>3. ASSUME NEW d \in flight, Catchup!Lose(d) PROVE CatchupInv'
  <2>1. /\ UNCHANGED <<version, listed, stored, pc, page, fetched, existing, wrote>>
        /\ flight' \subseteq flight
    BY <1>3 DEF Catchup!Lose, Catchup!github, Catchup!job
  <2> QED BY <2>1 DEF Sound, Sorted, Past, Looked, NotOlder
<1>4. ASSUME NEW j \in Jobs, Catchup!Start(j) PROVE CatchupInv'
  <2>1. <<>> \in Listing
    BY EmptySeq DEF Listing
  <2>2. fetched' \in [Jobs -> Listing]
    BY <1>4, <2>1 DEF Catchup!Start
  <2>3. UNCHANGED <<version, listed, flight, stored, existing, wrote>>
    BY <1>4 DEF Catchup!Start, Catchup!github
  <2>4. /\ pc[j] = "idle" /\ pc' = [pc EXCEPT ![j] = "fetch"]
        /\ page' = [page EXCEPT ![j] = 1] /\ fetched' = [fetched EXCEPT ![j] = <<>>]
    BY <1>4 DEF Catchup!Start
  <2>5. Sound'
    <3>1. fetched'[j] = <<>> /\ \A k \in Jobs \ {j} : fetched'[k] = fetched[k]
      BY <2>4
    <3>2. \A i : i \notin DOMAIN fetched'[j]
      BY <3>1
    <3>3. ASSUME NEW k \in Jobs PROVE (Sorted(fetched[k]) /\ Past(fetched[k]))'
      <4>1. CASE k = j
        BY <3>2, <4>1 DEF Sorted, Past
      <4>2. CASE k # j
        BY <2>3, <3>1, <4>2 DEF Sound, Sorted, Past
      <4> QED BY <4>1, <4>2
    <3> QED BY <3>3 DEF Sound
  <2>6. Looked'
    <3>1. \A k \in Jobs : pc'[k] = "embed" => pc[k] = "embed" /\ fetched'[k] = fetched[k]
      BY <2>4
    <3> QED BY <2>3, <3>1 DEF Looked, NotOlder
  <2> QED BY <2>2, <2>3, <2>4, <2>5, <2>6
<1>5. ASSUME NEW j \in Jobs, Catchup!FetchPage(j) PROVE CatchupInv'
  <2> DEFINE got == Catchup!Page(page[j])
             all == fetched[j] \o [i \in DOMAIN got |-> Catchup!Snapshot(got[i])]
  <2>1. got \in Seq(Numbers)
    BY PageListed
  <2>2. [i \in DOMAIN got |-> Catchup!Snapshot(got[i])] \in Listing
    <3> HIDE DEF got
    <3>1. /\ Len(got) \in Nat /\ DOMAIN got = 1..Len(got)
          /\ \A i \in 1..Len(got) : got[i] \in Numbers
      BY <2>1
    <3>2. \A i \in 1..Len(got) :
            Catchup!Snapshot(got[i]) \in [number : Numbers, version : Nat]
      BY <3>1 DEF Catchup!Snapshot
    <3> QED BY <3>1, <3>2, IsASeq DEF Listing
  <2>3. all \in Listing /\ Sorted(all) /\ Past(all)
    <3> DEFINE new == [i \in DOMAIN got |-> Catchup!Snapshot(got[i])]
    <3>1. \A i \in DOMAIN new : new[i].version = version[new[i].number]
      <4> HIDE DEF got
      <4> QED BY DEF Catchup!Snapshot
    <3>2. fetched[j] \in Listing /\ Sorted(fetched[j]) /\ Past(fetched[j])
      BY DEF Sound
    <3>3. new \in Listing
      BY <2>2
    <3> HIDE DEF got, new
    <3>4. fetched[j] \o new \in Listing
      BY <3>2, <3>3, ConcatProperties DEF Listing
    <3>5. Sorted(fetched[j] \o new) /\ Past(fetched[j] \o new)
      BY <3>1, <3>2, <3>3, ConcatSound
    <3> QED BY <3>4, <3>5 DEF new
  <2>4. /\ Catchup!AtMost(Limit, all) \in Listing
        /\ Sorted(Catchup!AtMost(Limit, all)) /\ Past(Catchup!AtMost(Limit, all))
    <3> HIDE DEF all
    <3>1. Catchup!AtMost(Limit, all) \in Listing
      BY <2>3, AtMostListed DEF Listing
    <3> QED BY <2>3, <3>1, AtMostSound
  <2>5. fetched' = [fetched EXCEPT ![j] = Catchup!AtMost(Limit, all)]
    BY <1>5 DEF Catchup!FetchPage
  <2>6. /\ pc' \in [Jobs -> {"idle", "fetch", "existing", "embed"}]
        /\ \A k \in Jobs : pc'[k] = "embed" => pc[k] = "embed" /\ k # j
    <3> DEFINE next == IF Len(all) >= Limit \/ Len(got) < Catchup!PerPage
                       THEN "existing" ELSE "fetch"
    <3>1. pc' = [pc EXCEPT ![j] = next]
      BY <1>5 DEF Catchup!FetchPage
    <3>2. next \in {"existing", "fetch"}
      OBVIOUS
    <3> HIDE DEF next
    <3> QED BY <3>1, <3>2
  <2>7. /\ fetched' \in [Jobs -> Listing]
        /\ Sorted(fetched'[j]) /\ Past(fetched'[j])
        /\ \A k \in Jobs \ {j} : fetched'[k] = fetched[k]
    <3> HIDE DEF all
    <3> QED BY <2>4, <2>5
  <2>8. page' \in [Jobs -> Nat \ {0}]
    BY <1>5 DEF Catchup!FetchPage
  <2>9. UNCHANGED <<version, listed, flight, stored, existing, wrote>>
    BY <1>5 DEF Catchup!FetchPage, Catchup!github
  <2> HIDE DEF got, all
  <2>10. Sound'
    BY <2>7, <2>9 DEF Sound, Sorted, Past
  <2>11. Looked'
    BY <2>6, <2>7, <2>9 DEF Looked, NotOlder
  <2> QED BY <2>6, <2>7, <2>8, <2>9, <2>10, <2>11
<1>6. ASSUME NEW j \in Jobs, Catchup!ExistingIssueNumbers(j) PROVE CatchupInv'
  <2>1. /\ UNCHANGED <<version, listed, flight, stored, page, fetched>>
        /\ pc' = [pc EXCEPT ![j] = "embed"] /\ wrote' = [wrote EXCEPT ![j] = {}]
        /\ existing' = [existing EXCEPT ![j] = {n \in Numbers : stored[n] # 0}]
    BY <1>6 DEF Catchup!ExistingIssueNumbers, Catchup!github
  <2>2. Sound'
    BY <2>1 DEF Sound, Sorted, Past
  <2>3. Looked'
    BY <2>1 DEF Looked, NotOlder
  <2> QED BY <2>1, <2>2, <2>3
<1>7. ASSUME NEW j \in Jobs, Catchup!Exit(j) PROVE CatchupInv'
  <2>1. /\ UNCHANGED <<version, listed, flight, stored, page, fetched, existing, wrote>>
        /\ pc' = [pc EXCEPT ![j] = "idle"]
    BY <1>7 DEF Catchup!Exit, Catchup!github
  <2> QED BY <2>1 DEF Sound, Sorted, Past, Looked, NotOlder
<1>8. ASSUME NEW j \in Jobs, pc[j] = "embed", fetched[j] # <<>>, Catchup!Proceed(j),
             UNCHANGED flight
      PROVE  /\ fetched' \in [Jobs -> Listing] /\ Sound'
             /\ UNCHANGED <<version, listed, flight, pc, page, existing>>
             /\ \A k \in Jobs \ {j} : fetched'[k] = fetched[k]
             /\ fetched'[j] = Tail(fetched[j])
             /\ \A n, v : NotOlder(fetched[j], n, v) => NotOlder(fetched'[j], n, v)
  <2>1. fetched[j] \in Listing /\ Sorted(fetched[j]) /\ Past(fetched[j])
    BY DEF Sound
  <2>2. /\ Tail(fetched[j]) \in Listing /\ Sorted(Tail(fetched[j])) /\ Past(Tail(fetched[j]))
        /\ \A n, v : NotOlder(fetched[j], n, v) => NotOlder(Tail(fetched[j]), n, v)
    BY <1>8, <2>1, TailSound
  <2>3. /\ fetched' = [fetched EXCEPT ![j] = Tail(fetched[j])]
        /\ UNCHANGED <<version, listed, pc, page, existing>>
    BY <1>8 DEF Catchup!Proceed, Catchup!github
  <2>4. fetched'[j] = Tail(fetched[j]) /\ \A k \in Jobs \ {j} : fetched'[k] = fetched[k]
    BY <2>3
  <2>5. Sound'
    <3>1. ASSUME NEW k \in Jobs PROVE (Sorted(fetched[k]) /\ Past(fetched[k]))'
      <4>1. CASE k = j
        BY <2>2, <2>3, <2>4, <4>1 DEF Sorted, Past
      <4>2. CASE k # j
        BY <2>3, <2>4, <4>2 DEF Sound, Sorted, Past
      <4> QED BY <4>1, <4>2
    <3> QED BY <3>1 DEF Sound
  <2> QED BY <1>8, <2>2, <2>3, <2>4, <2>5
<1>9. ASSUME NEW j \in Jobs, Catchup!Skip(j) \/ Catchup!EmbedFails(j) PROVE CatchupInv'
  <2>1. /\ pc[j] = "embed" /\ fetched[j] # <<>> /\ Catchup!Proceed(j)
        /\ UNCHANGED <<flight, stored, wrote>>
    BY <1>9 DEF Catchup!Skip, Catchup!EmbedFails
  <2>2. /\ fetched' \in [Jobs -> Listing] /\ Sound'
        /\ UNCHANGED <<version, listed, flight, pc, page, existing>>
        /\ \A k \in Jobs \ {j} : fetched'[k] = fetched[k]
        /\ \A n, v : NotOlder(fetched[j], n, v) => NotOlder(fetched'[j], n, v)
    BY <1>8, <2>1
  <2>3. Looked'
    <3> SUFFICES ASSUME NEW k \in Jobs, pc[k] = "embed", NEW n \in Numbers, stored[n] # 0,
                        ~ (n \in existing[k] \cup wrote[k])
                 PROVE  NotOlder(fetched'[k], n, stored[n])
      BY <2>1, <2>2 DEF Looked, NotOlder
    <3>1. NotOlder(fetched[k], n, stored[n])
      BY DEF Looked
    <3> QED BY <2>2, <3>1
  <2> QED BY <2>1, <2>2, <2>3
<1>10. ASSUME NEW j \in Jobs, Catchup!EmbedMissing(j) PROVE CatchupInv'
  <2> DEFINE d == Head(fetched[j])
  <2>1. /\ pc[j] = "embed" /\ fetched[j] # <<>> /\ Catchup!Proceed(j) /\ UNCHANGED flight
        /\ stored' = [stored EXCEPT ![d.number] = d.version]
        /\ wrote' = [k \in Jobs |-> IF k # j /\ pc[k] = "embed"
                                    THEN wrote[k] \cup {d.number} ELSE wrote[k]]
    BY <1>10 DEF Catchup!EmbedMissing, Catchup!UpsertIssue
  <2>2. /\ d \in [number : Numbers, version : Nat]
        /\ NotOlder(Tail(fetched[j]), d.number, d.version)
    BY <2>1, TailSound DEF Sound
  <2> HIDE DEF d
  <2>3. /\ fetched' \in [Jobs -> Listing] /\ Sound'
        /\ UNCHANGED <<version, listed, flight, pc, page, existing>>
        /\ \A k \in Jobs \ {j} : fetched'[k] = fetched[k]
        /\ fetched'[j] = Tail(fetched[j])
        /\ \A n, v : NotOlder(fetched[j], n, v) => NotOlder(fetched'[j], n, v)
    BY <1>8, <2>1
  <2>4. Looked'
    <3> SUFFICES ASSUME NEW k \in Jobs, pc[k] = "embed", NEW n \in Numbers, stored'[n] # 0
                 PROVE  n \in existing[k] \cup wrote'[k] \/ NotOlder(fetched'[k], n, stored'[n])
      BY <2>3 DEF Looked, NotOlder
    <3>1. CASE n = d.number /\ k = j
      BY <2>1, <2>2, <2>3, <3>1
    <3>2. CASE n = d.number /\ k # j
      BY <2>1, <3>2
    <3>3. CASE n # d.number
      BY <2>1, <2>3, <3>3 DEF Looked
    <3> QED BY <3>1, <3>2, <3>3
  <2>5. stored' \in [Numbers -> Nat] /\ wrote' \in [Jobs -> SUBSET Numbers]
    BY <2>1, <2>2
  <2> QED BY <2>3, <2>4, <2>5
<1>11. ASSUME NEW j \in Jobs, Catchup!Finish(j) PROVE CatchupInv'
  <2>1. /\ UNCHANGED <<version, listed, flight, stored, page, fetched, wrote>>
        /\ pc' = [pc EXCEPT ![j] = "idle"] /\ existing' = [existing EXCEPT ![j] = {}]
    BY <1>11 DEF Catchup!Finish, Catchup!github
  <2> QED BY <2>1 DEF Sound, Sorted, Past, Looked, NotOlder
<1> QED BY <1>1, <1>2, <1>3, <1>4, <1>5, <1>6, <1>7, <1>9, <1>10, <1>11
        DEF Catchup!Next, Catchup!Run

\* A failed call, a late delivery or a change in the middle disturbs none of it.
LEMMA CatchupInvariance ==
  ASSUME Limit \in Nat \ {0}, PageSize \in Nat \ {0}
  PROVE  Catchup!Spec => []CatchupInv
<1>1. CatchupInv /\ [Catchup!Next]_(Catchup!vars) => CatchupInv'
  <2>1. CatchupInv /\ UNCHANGED Catchup!vars => CatchupInv'
    BY DEF CatchupInv, Lists, Sound, Sorted, Past, Looked, NotOlder,
           Catchup!vars, Catchup!github, Catchup!job
  <2> QED BY <2>1, CatchupStep
<1> QED BY <1>1, CatchupInit, PTL DEF Catchup!Spec

\* runCatchup: for any jobs at once, any limit and any size of a page, a job puts
\* back no row but one that a handler or another job wrote after that very job
\* had looked for rows.
THEOREM CatchupNeverSetsBack ==
  Limit \in Nat \ {0} /\ PageSize \in Nat \ {0}
    => (Catchup!Spec => Catchup!CatchupRevertsOnlyByOverlap)
<1> SUFFICES ASSUME Limit \in Nat \ {0}, PageSize \in Nat \ {0}
             PROVE  Catchup!Spec => Catchup!CatchupRevertsOnlyByOverlap
  OBVIOUS
<1> DEFINE Kept == \A n \in Numbers : stored'[n] < stored[n] =>
                     \/ flight' # flight
                     \/ \E j \in Jobs : pc[j] = "embed" /\ fetched'[j] # fetched[j]
                                         /\ n \in wrote[j]
<1>1. ASSUME CatchupInv, Catchup!Next PROVE Kept
  <2>1. CASE \E d \in flight : Catchup!Deliver(d)
    BY <2>1 DEF Catchup!Deliver
  <2>2. CASE \E j \in Jobs : Catchup!EmbedMissing(j)
    <3>1. PICK j \in Jobs : Catchup!EmbedMissing(j)
      BY <2>2
    <3> DEFINE d == Head(fetched[j])
    <3>2. /\ d \in [number : Numbers, version : Nat] /\ d = fetched[j][1]
          /\ 1 \in DOMAIN fetched[j]
      BY <1>1, <3>1, TailSound DEF Catchup!EmbedMissing, CatchupInv, Lists, Sound
    <3>3. pc[j] = "embed" /\ d.number \notin existing[j]
      BY <3>1 DEF Catchup!EmbedMissing, Catchup!Missing
    <3>4. stored' = [stored EXCEPT ![d.number] = d.version]
      BY <3>1 DEF Catchup!EmbedMissing, Catchup!UpsertIssue
    <3>5. fetched'[j] # fetched[j]
      <4>1. fetched[j] \in Listing /\ fetched[j] # <<>> /\ fetched'[j] = Tail(fetched[j])
        BY <1>1, <3>1 DEF Catchup!EmbedMissing, Catchup!Proceed, CatchupInv, Lists
      <4>2. Len(fetched'[j]) = Len(fetched[j]) - 1 /\ Len(fetched[j]) \in Nat
        BY <4>1, HeadTailProperties, LenProperties DEF Listing
      <4> QED BY <4>2
    <3> HIDE DEF d
    <3>6. ASSUME NEW n \in Numbers, stored'[n] < stored[n] PROVE n \in wrote[j]
      <4>1. n = d.number /\ stored'[n] = d.version
        BY <1>1, <3>2, <3>4, <3>6 DEF CatchupInv, Lists
      <4>2. stored[n] # 0 /\ ~(stored[n] =< d.version)
        BY <1>1, <3>2, <3>6, <4>1 DEF CatchupInv, Lists
      <4>3. ~NotOlder(fetched[j], n, stored[n])
        BY <3>2, <4>1, <4>2 DEF NotOlder
      <4> QED BY <1>1, <3>3, <4>1, <4>2, <4>3 DEF CatchupInv, Looked
    <3> QED BY <3>3, <3>5, <3>6
  <2>3. CASE stored' = stored
    BY <1>1, <2>3 DEF CatchupInv, Lists
  <2> QED
    BY <1>1, <2>1, <2>2, <2>3
       DEF Catchup!Next, Catchup!Run, Catchup!Change, Catchup!Lose, Catchup!Start,
           Catchup!FetchPage, Catchup!ExistingIssueNumbers, Catchup!Skip, Catchup!Exit,
           Catchup!EmbedFails, Catchup!Finish
<1>2. CatchupInv /\ [Catchup!Next]_(Catchup!vars) => [Kept]_(Catchup!vars)
  BY <1>1
<1> QED
  BY <1>2, CatchupInvariance, PTL DEF Catchup!Spec, Catchup!CatchupRevertsOnlyByOverlap
=============================================================================
