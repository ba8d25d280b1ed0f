------------------------------ MODULE DocIngest ------------------------------
(***************************************************************************)
(* Pushes to one repository: handlePush, the configuration cache it asks   *)
(* (config.Cache, one per repository, kept for TTL hours) and the          *)
(* ingestion of the documents the push touched.                            *)
(*                                                                         *)
(* A version of a file is the number of the push that wrote it, 0 stands   *)
(* for a file that is not there.  A configuration is the set of files it   *)
(* lets in: those its doc_paths match when auto_ingest is on, none of them *)
(* otherwise.  Deliveries that are lost or repeated on the way are left to *)
(* WebhookDelivery, and so is the entry of a push in the journal, which    *)
(* nothing here reads.                                                     *)
(***************************************************************************)
EXTENDS Naturals

CONSTANTS
  Handlers,    \* goroutines that may be handling a push
  Files,       \* the repository's files
  Commits,     \* the sets of files a push may list as added or modified
  NoFile,      \* the file of a handler that has not read one
  Jsons,       \* what .github/butler.json may hold (a set of Json)
  TTL,         \* hours a configuration is served from the cache (1)
  MaxPushes,   \* bound: pushes
  MaxEdits,    \* bound: changes of butler.json
  MaxHour,     \* bound: the clock
  MaxFaults    \* bound: failed calls and restarts

Json == [kind : {"absent", "broken", "valid"}, files : SUBSET Files]

ASSUME JsonsAssumption == Jsons \subseteq Json
ASSUME CommitsAssumption == Commits \subseteq SUBSET Files
ASSUME TTLAssumption == TTL \in Nat \ {0}
ASSUME BoundsAssumption ==
  MaxPushes \in Nat /\ MaxEdits \in Nat /\ MaxHour \in Nat /\ MaxFaults \in Nat
ASSUME NoFileAssumption == NoFile \notin Files

VARIABLES
  head,     \* GitHub: the version of each file at the default branch's head
  json,     \* GitHub: butler.json
  since,    \* GitHub: the hour json was last changed
  pushes,   \* GitHub: pushes so far
  edits,    \* GitHub: changes of butler.json so far
  due,      \* pushes that GitHub has yet to deliver
  hour,     \* the clock
  cache,    \* config.Cache: fetched, fetchAt and cfg
  lock,     \* config.Cache: the handlers that hold mu for writing
  reply,    \* what GitHub answered to the fetch made under mu, and when, or {}
  pc,       \* the call each handler makes next
  todo,     \* the files it has left (the pushed ones, until it has the config)
  file,     \* the file it is ingesting
  got,      \* the version of it that it read
  docs,     \* documents: the version stored under each path
  refs,     \* doc_references: the versions whose references were recorded
  excused,  \* history: files that may be stale, by a cause the code accepts
  bare,     \* history: files whose references could not be recorded
  faults    \* history: failed calls and restarts

github == <<head, json, since, pushes, edits>>
config == <<cache, lock, reply>>
handler == <<pc, todo, file, got>>
store == <<docs, refs>>
history == <<excused, bare, faults>>
vars == <<github, due, hour, config, handler, store, history>>

Config == SUBSET Files

\* DefaultConfig has auto_ingest off.
DefaultConfig == {}

\* Parse: a missing file, like one that says nothing, means the defaults.
Parse(j) == IF j.kind = "valid" THEN j.files ELSE DefaultConfig

\* Mutant: the last hour counts twice.
FreshLonger == cache.fetched /\ hour <= cache.at + TTL

Fresh == cache.fetched /\ hour < cache.at + TTL

\* What Get returns when it cannot fetch or parse: the last configuration it
\* could, however old, or the defaults.
Fallback == IF cache.fetched THEN cache.cfg ELSE DefaultConfig

Init ==
  /\ head = [f \in Files |-> 0]
  /\ json \in Jsons /\ since = 0 /\ pushes = 0 /\ edits = 0 /\ due = {} /\ hour = 0
  /\ cache = [fetched |-> FALSE, at |-> 0, cfg |-> DefaultConfig]
  /\ lock = {} /\ reply = {}
  /\ pc = [h \in Handlers |-> "idle"]
  /\ todo = [h \in Handlers |-> {}]
  /\ file = [h \in Handlers |-> NoFile]
  /\ got = [h \in Handlers |-> 0]
  /\ docs = [f \in Files |-> 0]
  /\ refs = [f \in Files |-> {}]
  /\ excused = {} /\ bare = {} /\ faults = 0
-----------------------------------------------------------------------------
(* What happens at GitHub and to the clock.                                *)

\* A push to the default branch, main or master.  Its commits list the files.
Push(fs) ==
  /\ pushes < MaxPushes
  /\ pushes' = pushes + 1
  /\ head' = [f \in Files |-> IF f \in fs THEN pushes' ELSE head[f]]
  /\ due' = due \cup {[n |-> pushes', files |-> fs]}
  /\ excused' = excused \ fs
  /\ UNCHANGED <<json, since, edits, hour, config, handler, store, bare, faults>>

\* A push to the other of main and master, when a repository has both: ServeHTTP
\* takes either for the default branch, and ignores every other branch.
PushElsewhere(fs) ==
  /\ pushes < MaxPushes
  /\ pushes' = pushes + 1
  /\ due' = due \cup {[n |-> pushes', files |-> fs]}
  /\ UNCHANGED <<head, json, since, edits, hour, config, handler, store, history>>

\* A push that deletes a file.  Nothing deletes the document.
Remove(f) ==
  /\ pushes < MaxPushes /\ head[f] # 0
  /\ pushes' = pushes + 1
  /\ head' = [head EXCEPT ![f] = 0]
  /\ excused' = excused \cup {f}
  /\ UNCHANGED <<json, since, edits, due, hour, config, handler, store, bare, faults>>

EditConfig(j) ==
  /\ edits < MaxEdits /\ j # json
  /\ edits' = edits + 1 /\ json' = j /\ since' = hour
  /\ UNCHANGED <<head, pushes, due, hour, config, handler, store, history>>

\* A fetch lasts ten seconds at most, so no two hours pass during it.
HourPasses ==
  /\ hour < MaxHour
  /\ \A r \in reply : r.at = hour
  /\ hour' = hour + 1
  /\ UNCHANGED <<github, due, config, handler, store, history>>
-----------------------------------------------------------------------------
(* config.Cache.                                                           *)

\* Mutant: files another handler is at work on are left to it.
ReceiveUnclaimed(h, p) ==
  /\ pc[h] = "idle" /\ p \in due
  /\ due' = due \ {p}
  /\ pc' = [pc EXCEPT ![h] = "config"]
  /\ todo' = [todo EXCEPT ![h] =
       p.files \ {file[g] : g \in {k \in Handlers : pc[k] \in {"embed", "refs"}}}]
  /\ UNCHANGED <<github, hour, config, file, got, store, history>>

Receive(h, p) ==
  /\ pc[h] = "idle" /\ p \in due
  /\ due' = due \ {p}
  /\ pc' = [pc EXCEPT ![h] = "config"]
  /\ todo' = [todo EXCEPT ![h] = p.files]
  /\ UNCHANGED <<github, hour, config, file, got, store, history>>

\* autoIngestDocs' first loop: what the configuration lets in is to be read.
Serve(h, cfg) ==
  /\ todo' = [todo EXCEPT ![h] = @ \cap cfg]
  /\ pc' = [pc EXCEPT ![h] = IF todo[h] \cap cfg = {} THEN "idle" ELSE "read"]
  /\ excused' = excused \cup (todo[h] \ cfg)

\* Get under the read lock, which waits for a writer.
ReadCache(h) ==
  /\ pc[h] = "config" /\ lock = {}
  /\ IF Fresh THEN Serve(h, cache.cfg)
     ELSE pc' = [pc EXCEPT ![h] = "lock"] /\ UNCHANGED <<todo, excused>>
  /\ UNCHANGED <<github, due, hour, config, file, got, store, bare, faults>>

\* Get under the write lock looks again: another handler may have fetched.
Lock(h) ==
  /\ pc[h] = "lock" /\ lock = {}
  /\ IF Fresh THEN Serve(h, cache.cfg) /\ UNCHANGED lock
     ELSE /\ pc' = [pc EXCEPT ![h] = "fetch"] /\ lock' = {h}
          /\ UNCHANGED <<todo, excused>>
  /\ UNCHANGED <<github, due, hour, cache, reply, file, got, store, bare, faults>>

\* GitHub answers, a moment before the handler reads the clock.
Fetch(h) ==
  /\ pc[h] = "fetch"
  /\ reply' = {[json |-> json, at |-> hour]}
  /\ pc' = [pc EXCEPT ![h] = "store"]
  /\ UNCHANGED <<github, due, hour, cache, lock, todo, file, got, store, history>>

\* What cannot be parsed is not cached and does not count as a fetch.
Store(h) ==
  /\ pc[h] = "store" /\ lock' = {} /\ reply' = {}
  /\ \E r \in reply :
       IF r.json.kind = "broken"
       THEN Serve(h, Fallback) /\ UNCHANGED cache
       ELSE /\ cache' = [fetched |-> TRUE, at |-> hour, cfg |-> Parse(r.json)]
            /\ Serve(h, Parse(r.json))
  /\ UNCHANGED <<github, due, hour, file, got, store, bare, faults>>

\* Mutant: the error path returns without unlocking.
FetchFailsLocked(h) ==
  /\ pc[h] = "fetch" /\ faults < MaxFaults
  /\ faults' = faults + 1
  /\ Serve(h, Fallback)
  /\ UNCHANGED <<github, due, hour, config, file, got, store, bare>>

FetchFails(h) ==
  /\ pc[h] = "fetch" /\ faults < MaxFaults
  /\ faults' = faults + 1 /\ lock' = {}
  /\ Serve(h, Fallback)
  /\ UNCHANGED <<github, due, hour, cache, reply, file, got, store, bare>>
-----------------------------------------------------------------------------
(* autoIngestDocs and EmbedAndUpsert.                                      *)

\* f cannot be read: on to the next file, or to the end.
Leave(h, f) ==
  /\ todo' = [todo EXCEPT ![h] = @ \ {f}]
  /\ pc' = [pc EXCEPT ![h] = IF todo[h] \ {f} = {} THEN "idle" ELSE "read"]

\* EmbedAndUpsert returns: on to the next file, or to the end.
Return(h) ==
  /\ pc' = [pc EXCEPT ![h] = IF todo[h] = {} THEN "idle" ELSE "read"]
  /\ file' = [file EXCEPT ![h] = NoFile]
  /\ got' = [got EXCEPT ![h] = 0]

\* Mutant: the path is not passed on.
GetContentsOnly(h, f) ==
  /\ pc[h] = "read" /\ f \in todo[h]
  /\ IF head[f] = 0 THEN Leave(h, f) /\ UNCHANGED got
     ELSE /\ got' = [got EXCEPT ![h] = head[f]]
          /\ pc' = [pc EXCEPT ![h] = "embed"]
          /\ todo' = [todo EXCEPT ![h] = @ \ {f}]
  /\ UNCHANGED <<github, due, hour, config, file, store, history>>

\* The content comes from the default branch, not from the pushed commit; a
\* file that is not there is skipped.
GetFileContents(h, f) ==
  /\ pc[h] = "read" /\ f \in todo[h]
  /\ IF head[f] = 0 THEN Leave(h, f) /\ UNCHANGED <<file, got>>
     ELSE /\ file' = [file EXCEPT ![h] = f]
          /\ got' = [got EXCEPT ![h] = head[f]]
          /\ pc' = [pc EXCEPT ![h] = "embed"]
          /\ todo' = [todo EXCEPT ![h] = @ \ {f}]
  /\ UNCHANGED <<github, due, hour, config, store, history>>

GetFileFails(h, f) ==
  /\ pc[h] = "read" /\ f \in todo[h] /\ faults < MaxFaults
  /\ faults' = faults + 1 /\ excused' = excused \cup {f}
  /\ Leave(h, f)
  /\ UNCHANGED <<github, due, hour, config, file, got, store, bare>>

\* Mutant: the references are not recorded.
UpsertOnly(h) ==
  /\ pc[h] = "embed"
  /\ docs' = [docs EXCEPT ![file[h]] = got[h]]
  /\ Return(h)
  /\ excused' = IF got[h] = head[file[h]] THEN excused \ {file[h]}
                ELSE IF got[h] < docs[file[h]] THEN excused \cup {file[h]}
                ELSE excused
  /\ UNCHANGED <<github, due, hour, config, todo, refs, bare, faults>>

\* Embed and UpsertDocument: last write wins, whatever version it holds.
Upsert(h) ==
  /\ pc[h] = "embed"
  /\ docs' = [docs EXCEPT ![file[h]] = got[h]]
  /\ pc' = [pc EXCEPT ![h] = "refs"]
  /\ excused' = IF got[h] = head[file[h]] THEN excused \ {file[h]}
                ELSE IF got[h] < docs[file[h]] THEN excused \cup {file[h]}
                ELSE excused
  /\ UNCHANGED <<github, due, hour, config, todo, file, got, refs, bare, faults>>

UpsertFails(h) ==
  /\ pc[h] = "embed" /\ faults < MaxFaults
  /\ faults' = faults + 1 /\ excused' = excused \cup {file[h]}
  /\ Return(h)
  /\ UNCHANGED <<github, due, hour, config, todo, store, bare>>

\* The references are added to those of earlier versions; none is removed.
RecordReferences(h) ==
  /\ pc[h] = "refs"
  /\ refs' = [refs EXCEPT ![file[h]] = @ \cup {got[h]}]
  /\ bare' = IF got[h] = docs[file[h]] THEN bare \ {file[h]} ELSE bare
  /\ Return(h)
  /\ UNCHANGED <<github, due, hour, config, todo, docs, excused, faults>>

RecordReferencesFails(h) ==
  /\ pc[h] = "refs" /\ faults < MaxFaults
  /\ faults' = faults + 1 /\ bare' = bare \cup {file[h]}
  /\ Return(h)
  /\ UNCHANGED <<github, due, hour, config, todo, store, excused>>

\* A new process: what was being handled is lost, and the cache is empty.
Restart ==
  /\ faults < MaxFaults
  /\ faults' = faults + 1
  /\ excused' = excused \cup (UNION {todo[h] : h \in Handlers})
                        \cup {file[h] : h \in {g \in Handlers : pc[g] = "embed"}}
  /\ bare' = bare \cup {file[h] : h \in {g \in Handlers : pc[g] = "refs"}}
  /\ cache' = [cache EXCEPT !.fetched = FALSE]
  /\ lock' = {} /\ reply' = {}
  /\ pc' = [h \in Handlers |-> "idle"]
  /\ todo' = [h \in Handlers |-> {}]
  /\ file' = [h \in Handlers |-> NoFile]
  /\ got' = [h \in Handlers |-> 0]
  /\ UNCHANGED <<github, due, hour, store>>

\* The steps of a handler that is running.
Advance(h) ==
  \/ ReadCache(h) \/ Lock(h) \/ Fetch(h) \/ Store(h)
  \/ \E f \in Files : GetFileContents(h, f)
  \/ Upsert(h) \/ RecordReferences(h)

Next ==
  \/ \E fs \in Commits : Push(fs) \/ PushElsewhere(fs)
  \/ \E f \in Files : Remove(f)
  \/ \E j \in Jsons : EditConfig(j)
  \/ HourPasses
  \/ \E h \in Handlers :
       \/ \E p \in due : Receive(h, p)
       \/ Advance(h)
       \/ FetchFails(h)
       \/ \E f \in Files : GetFileFails(h, f)
       \/ UpsertFails(h)
       \/ RecordReferencesFails(h)
  \/ Restart

Spec == Init /\ [][Next]_vars

\* A goroutine that runs is scheduled, and Go's mutex does not starve one that
\* waits for it.
FairSpec ==
  /\ Spec
  /\ \A h \in Handlers : WF_vars(Advance(h)) /\ SF_vars(ReadCache(h) \/ Lock(h))
-----------------------------------------------------------------------------
Steps == {"idle", "config", "lock", "fetch", "store", "read", "embed", "refs"}

\* Every variable keeps its type, and a handler that ingests has a file.
TypeOK ==
  /\ head \in [Files -> Nat] /\ json \in Jsons /\ since \in Nat
  /\ pushes \in Nat /\ edits \in Nat
  /\ due \subseteq [n : Nat, files : SUBSET Files] /\ hour \in Nat
  /\ cache \in [fetched : BOOLEAN, at : Nat, cfg : Config]
  /\ lock \subseteq Handlers /\ reply \subseteq [json : Jsons, at : Nat]
  /\ pc \in [Handlers -> Steps] /\ todo \in [Handlers -> SUBSET Files]
  /\ file \in [Handlers -> Files \cup {NoFile}] /\ got \in [Handlers -> Nat]
  /\ \A h \in Handlers : pc[h] \in {"embed", "refs"} => file[h] \in Files
  /\ docs \in [Files -> Nat] /\ refs \in [Files -> SUBSET Nat]
  /\ excused \subseteq Files /\ bare \subseteq Files /\ faults \in Nat

\* Some handler will still bring f up to date.
Owed(f) ==
  \/ \E p \in due : f \in p.files
  \/ \E h \in Handlers :
       f \in todo[h] \/ (pc[h] = "embed" /\ file[h] = f /\ got[h] = head[f])

\* A stored document is the one at the head of the default branch, or a handler
\* is about to store that one, or there is a cause: the file was removed, the
\* configuration did not let it in, a call failed, or two handlers overlapped
\* and the slower one had read first.  Handling pushes late or in another order
\* is no cause, as the content is always read at the head.
StaleDocHasCause == \A f \in Files : docs[f] = head[f] \/ Owed(f) \/ f \in excused

\* The references of a stored document's text are recorded, or are about to
\* be, or recording them failed: upsert and references are two calls.
DocHasItsReferences ==
  \A f \in Files : docs[f] # 0 =>
    \/ docs[f] \in refs[f] \/ f \in bare
    \/ \E h \in Handlers : pc[h] = "refs" /\ file[h] = f /\ got[h] = docs[f]

\* GitHub is asked for the configuration only while the cached one is too old,
\* and by one handler at a time: those that waited for the lock look again.
FetchOnlyWhenStale ==
  \A h \in Handlers : pc[h] \in {"fetch", "store"} => ~Fresh /\ lock = {h}

\* A change of butler.json is obeyed TTL hours later by every handler whose own
\* fetch does not fail, also when the change raced a fetch.
ConfigTakesEffect ==
  [][\A h \in Handlers :
       /\ pc[h] \in {"config", "lock", "store"} /\ pc'[h] \in {"idle", "read"}
       /\ faults' = faults /\ json.kind # "broken" /\ hour > since + TTL
       => todo'[h] = todo[h] \cap Parse(json)]_vars

\* Every push that is being handled ends, also while GitHub does not answer:
\* the lock under which the configuration is fetched is always given back.
PushesEnd == \A h \in Handlers : pc[h] # "idle" ~> pc[h] = "idle"
=============================================================================
