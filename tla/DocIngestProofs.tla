---------------------------- MODULE DocIngestProofs ----------------------------
(***************************************************************************)
(* Theorems about DocIngest, for any handlers, files, pushes and           *)
(* configurations: what may leave a document stale or without references,  *)
(* who may ask GitHub for the configuration, and when a change of it is    *)
(* obeyed.                                                                 *)
(*                                                                         *)
(* Each part of the invariant has a lemma of its own that shows how every  *)
(* action preserves it; IInv is their conjunction.                         *)
(***************************************************************************)
EXTENDS DocIngest, TLAPS

\* A handler that is idle owes nothing, so taking a push overwrites nothing.
IdleOwesNothing == \A h \in Handlers : pc[h] = "idle" => todo[h] = {}

\* Versions are numbers of pushes: what a handler read was there, and nothing
\* newer than it was at the head when it was read.
ReadWasHead ==
  /\ \A f \in Files : head[f] =< pushes
  /\ \A h \in Handlers : pc[h] = "embed" =>
       /\ got[h] # 0 /\ got[h] =< pushes
       /\ head[file[h]] # 0 => got[h] =< head[file[h]]

\* A file that is not there has no document and no handler that read it,
\* unless it has been removed.
GoneIsExcused ==
  \A f \in Files : head[f] = 0 =>
    \/ f \in excused
    \/ docs[f] = 0 /\ \A h \in Handlers : pc[h] = "embed" => file[h] # f

\* The cached configuration is the present one, or was answered no more than an
\* hour after the present one was written; so was the answer being stored.
ConfigAge ==
  /\ since =< hour
  /\ cache.fetched =>
       /\ cache.at =< hour
       /\ cache.cfg = Parse(json) \/ cache.at =< since + 1
  /\ \A r \in reply :
       /\ r.at =< hour /\ hour =< r.at + 1
       /\ r.json = json \/ r.at =< since

-----------------------------------------------------------------------------
(* Types.                                                                  *)

LEMMA ParseTyped == ASSUME NEW j \in Jsons PROVE Parse(j) \in Config
  BY JsonsAssumption DEF Parse, Json, Config, DefaultConfig

LEMMA InitTypeOK == Init => TypeOK
  BY DEF Init, TypeOK, Steps, Config, DefaultConfig

\* What a configuration does to a handler keeps the types of all it changes.
LEMMA ServeTyped ==
  ASSUME TypeOK, NEW h \in Handlers, NEW cfg \in Config, Serve(h, cfg)
  PROVE  /\ todo' \in [Handlers -> SUBSET Files]
         /\ pc' \in [Handlers -> Steps]
         /\ pc' = [pc EXCEPT ![h] = pc'[h]] /\ pc'[h] \in {"idle", "read"}
         /\ excused' \subseteq Files
<1>1. todo[h] \cap cfg \in SUBSET Files
  BY DEF TypeOK
<1>2. todo' \in [Handlers -> SUBSET Files]
  BY <1>1 DEF TypeOK, Serve
<1>3. /\ pc' \in [Handlers -> Steps]
      /\ pc' = [pc EXCEPT ![h] = pc'[h]] /\ pc'[h] \in {"idle", "read"}
  BY DEF TypeOK, Serve, Steps
<1>4. excused' \subseteq Files
  BY DEF TypeOK, Serve
<1> QED
  BY <1>2, <1>3, <1>4

LEMMA CacheTyped == TypeOK => cache.cfg \in Config /\ Fallback \in Config
  BY DEF TypeOK, Config, Fallback, DefaultConfig

LEMMA TypeStep == TypeOK /\ [Next]_vars => TypeOK'
<1> SUFFICES ASSUME TypeOK, [Next]_vars PROVE TypeOK'
  OBVIOUS
<1> USE DEF config, handler, store, history, github
<1>1. ASSUME NEW fs \in Commits, Push(fs) PROVE TypeOK'
  <2>1. fs \subseteq Files
    BY CommitsAssumption
  <2>2. pushes' \in Nat
    BY <1>1 DEF TypeOK, Push
  <2>3. head' \in [Files -> Nat]
    BY <1>1, <2>2 DEF TypeOK, Push
  <2>4. due' \subseteq [n : Nat, files : SUBSET Files] /\ excused' \subseteq Files
    BY <1>1, <2>1, <2>2 DEF TypeOK, Push
  <2> QED
    BY <1>1, <2>2, <2>3, <2>4 DEF TypeOK, Push
<1>2. ASSUME NEW fs \in Commits, PushElsewhere(fs) PROVE TypeOK'
  <2>1. fs \subseteq Files
    BY CommitsAssumption
  <2>2. pushes' \in Nat
    BY <1>2 DEF TypeOK, PushElsewhere
  <2>3. due' \subseteq [n : Nat, files : SUBSET Files]
    BY <1>2, <2>1, <2>2 DEF TypeOK, PushElsewhere
  <2> QED
    BY <1>2, <2>2, <2>3 DEF TypeOK, PushElsewhere
<1>3. ASSUME NEW f \in Files, Remove(f) PROVE TypeOK'
  BY <1>3 DEF TypeOK, Remove
<1>4. ASSUME NEW j \in Jsons, EditConfig(j) PROVE TypeOK'
  BY <1>4 DEF TypeOK, EditConfig
<1>5. ASSUME HourPasses PROVE TypeOK'
  BY <1>5 DEF TypeOK, HourPasses
<1>6. ASSUME NEW h \in Handlers, NEW p \in due, Receive(h, p) PROVE TypeOK'
  <2>1. p.files \in SUBSET Files
    BY DEF TypeOK
  <2> QED
    BY <1>6, <2>1 DEF TypeOK, Receive, Steps
<1>7. ASSUME NEW h \in Handlers, ReadCache(h) PROVE TypeOK'
  <2>1. CASE Fresh
    <3>1. Serve(h, cache.cfg)
      BY <1>7, <2>1 DEF ReadCache
    <3> QED
      BY <1>7, <3>1, ServeTyped, CacheTyped DEF TypeOK, ReadCache
  <2>2. CASE ~Fresh
    BY <1>7, <2>2 DEF TypeOK, ReadCache, Steps
  <2> QED
    BY <2>1, <2>2
<1>8. ASSUME NEW h \in Handlers, Lock(h) PROVE TypeOK'
  <2>1. CASE Fresh
    <3>1. Serve(h, cache.cfg) /\ UNCHANGED lock
      BY <1>8, <2>1 DEF Lock
    <3> QED
      BY <1>8, <3>1, ServeTyped, CacheTyped DEF TypeOK, Lock
  <2>2. CASE ~Fresh
    BY <1>8, <2>2 DEF TypeOK, Lock, Steps
  <2> QED
    BY <2>1, <2>2
<1>9. ASSUME NEW h \in Handlers, Fetch(h) PROVE TypeOK'
  BY <1>9 DEF TypeOK, Fetch, Steps
<1>10. ASSUME NEW h \in Handlers, Store(h) PROVE TypeOK'
  <2>1. PICK r \in reply :
          IF r.json.kind = "broken"
          THEN Serve(h, Fallback) /\ UNCHANGED cache
          ELSE /\ cache' = [fetched |-> TRUE, at |-> hour, cfg |-> Parse(r.json)]
               /\ Serve(h, Parse(r.json))
    BY <1>10 DEF Store
  <2>2. Parse(r.json) \in Config /\ Fallback \in Config
    BY ParseTyped, CacheTyped DEF TypeOK
  <2>3. PICK cfg \in Config : Serve(h, cfg)
    BY <2>1, <2>2
  <2>4. cache' \in [fetched : BOOLEAN, at : Nat, cfg : Config]
    <3>1. CASE cache' = cache
      BY <3>1 DEF TypeOK
    <3>2. CASE cache' = [fetched |-> TRUE, at |-> hour, cfg |-> Parse(r.json)]
      BY <2>2, <3>2 DEF TypeOK
    <3> QED
      BY <2>1, <3>1, <3>2
  <2>5. /\ todo' \in [Handlers -> SUBSET Files]
        /\ pc' \in [Handlers -> Steps]
        /\ pc' = [pc EXCEPT ![h] = pc'[h]] /\ pc'[h] \in {"idle", "read"}
        /\ excused' \subseteq Files
    BY <2>3, ServeTyped
  <2>6. lock' = {} /\ reply' = {} /\ UNCHANGED <<github, due, hour, file, got, store, bare, faults>>
    BY <1>10 DEF Store
  <2> QED
    BY <2>4, <2>5, <2>6 DEF TypeOK
<1>11. ASSUME NEW h \in Handlers, FetchFails(h) PROVE TypeOK'
  <2>1. Serve(h, Fallback)
    BY <1>11 DEF FetchFails
  <2> QED
    BY <1>11, <2>1, ServeTyped, CacheTyped DEF TypeOK, FetchFails
<1>12. ASSUME NEW h \in Handlers, NEW f \in Files, GetFileContents(h, f) PROVE TypeOK'
  <2>1. CASE head[f] = 0
    BY <1>12, <2>1 DEF TypeOK, GetFileContents, Leave, Steps
  <2>2. CASE head[f] # 0
    BY <1>12, <2>2 DEF TypeOK, GetFileContents, Steps
  <2> QED
    BY <2>1, <2>2
<1>13. ASSUME NEW h \in Handlers, NEW f \in Files, GetFileFails(h, f) PROVE TypeOK'
  BY <1>13 DEF TypeOK, GetFileFails, Leave, Steps
<1>14. ASSUME NEW h \in Handlers, Upsert(h) PROVE TypeOK'
  <2>1. file[h] \in Files /\ got[h] \in Nat
    BY <1>14 DEF TypeOK, Upsert
  <2> QED
    BY <1>14, <2>1 DEF TypeOK, Upsert, Steps
<1>15. ASSUME NEW h \in Handlers, UpsertFails(h) PROVE TypeOK'
  <2>1. file[h] \in Files
    BY <1>15 DEF TypeOK, UpsertFails
  <2> QED
    BY <1>15, <2>1 DEF TypeOK, UpsertFails, Return, Steps
<1>16. ASSUME NEW h \in Handlers, RecordReferences(h) PROVE TypeOK'
  <2>1. file[h] \in Files /\ got[h] \in Nat
    BY <1>16 DEF TypeOK, RecordReferences
  <2> QED
    BY <1>16, <2>1 DEF TypeOK, RecordReferences, Return, Steps
<1>17. ASSUME NEW h \in Handlers, RecordReferencesFails(h) PROVE TypeOK'
  <2>1. file[h] \in Files
    BY <1>17 DEF TypeOK, RecordReferencesFails
  <2> QED
    BY <1>17, <2>1 DEF TypeOK, RecordReferencesFails, Return, Steps
<1>18. ASSUME Restart PROVE TypeOK'
  <2>1. UNION {todo[h] : h \in Handlers} \subseteq Files
    BY DEF TypeOK
  <2>2. \A h \in Handlers : pc[h] \in {"embed", "refs"} => file[h] \in Files
    BY DEF TypeOK
  <2>3. excused' \subseteq Files /\ bare' \subseteq Files
    <3> DEFINE Left == UNION {todo[h] : h \in Handlers}
               Embedding == {file[h] : h \in {g \in Handlers : pc[g] = "embed"}}
               Referring == {file[h] : h \in {g \in Handlers : pc[g] = "refs"}}
    <3>1. Left \subseteq Files /\ Embedding \subseteq Files /\ Referring \subseteq Files
      BY <2>1, <2>2
    <3>2. excused' = (excused \cup Left) \cup Embedding /\ bare' = bare \cup Referring
      BY <1>18 DEF Restart
    <3>3. excused \subseteq Files /\ bare \subseteq Files
      BY DEF TypeOK
    <3> HIDE DEF Left, Embedding, Referring
    <3> QED
      BY <3>1, <3>2, <3>3
  <2>4. cache' \in [fetched : BOOLEAN, at : Nat, cfg : Config]
    BY <1>18 DEF TypeOK, Restart
  <2>5. /\ pc' \in [Handlers -> Steps] /\ todo' \in [Handlers -> SUBSET Files]
        /\ file' \in [Handlers -> Files \cup {NoFile}] /\ got' \in [Handlers -> Nat]
        /\ \A h \in Handlers : pc'[h] = "idle"
    BY <1>18 DEF Restart, Steps
  <2>6. /\ lock' = {} /\ reply' = {} /\ faults' \in Nat
        /\ UNCHANGED <<github, due, hour, store>>
    BY <1>18 DEF TypeOK, Restart
  <2> QED
    BY <2>3, <2>4, <2>5, <2>6 DEF TypeOK
<1>19. CASE UNCHANGED vars
  BY <1>19 DEF TypeOK, vars
<1> QED
  BY <1>1, <1>2, <1>3, <1>4, <1>5, <1>6, <1>7, <1>8, <1>9, <1>10, <1>11, <1>12,
     <1>13, <1>14, <1>15, <1>16, <1>17, <1>18, <1>19 DEF Next, Advance
-----------------------------------------------------------------------------
(* Handlers that are idle, and the lock.                                   *)

LEMMA IdleStep == TypeOK /\ IdleOwesNothing /\ [Next]_vars => IdleOwesNothing'
<1> SUFFICES ASSUME TypeOK, IdleOwesNothing, [Next]_vars PROVE IdleOwesNothing'
  OBVIOUS
<1> USE DEF IdleOwesNothing, config, handler, store, history, github
<1>1. CASE UNCHANGED handler
  BY <1>1
<1>2. ASSUME NEW h \in Handlers, NEW p \in due, Receive(h, p) PROVE IdleOwesNothing'
  BY <1>2 DEF TypeOK, Receive
<1>3. ASSUME NEW h \in Handlers, NEW cfg, Serve(h, cfg) PROVE IdleOwesNothing'
  BY <1>3 DEF TypeOK, Serve
<1>4. ASSUME NEW h \in Handlers, ReadCache(h) \/ Lock(h) PROVE IdleOwesNothing'
  <2>1. CASE Fresh
    <3>1. Serve(h, cache.cfg)
      BY <1>4, <2>1 DEF ReadCache, Lock
    <3> QED
      BY <1>3, <3>1
  <2>2. CASE ~Fresh
    BY <1>4, <2>2 DEF TypeOK, ReadCache, Lock
  <2> QED
    BY <2>1, <2>2
<1>5. ASSUME NEW h \in Handlers, Fetch(h) PROVE IdleOwesNothing'
  BY <1>5 DEF TypeOK, Fetch
<1>6. ASSUME NEW h \in Handlers, Store(h) \/ FetchFails(h) PROVE IdleOwesNothing'
  <2>1. \E cfg : Serve(h, cfg)
    BY <1>6 DEF Store, FetchFails
  <2> QED
    BY <1>3, <2>1
<1>7. ASSUME NEW h \in Handlers, NEW f \in Files,
             GetFileContents(h, f) \/ GetFileFails(h, f)
      PROVE  IdleOwesNothing'
  BY <1>7 DEF TypeOK, GetFileContents, GetFileFails, Leave
<1>8. ASSUME NEW h \in Handlers, Upsert(h) PROVE IdleOwesNothing'
  BY <1>8 DEF TypeOK, Upsert
<1>9. ASSUME NEW h \in Handlers,
             UpsertFails(h) \/ RecordReferences(h) \/ RecordReferencesFails(h)
      PROVE  IdleOwesNothing'
  BY <1>9 DEF TypeOK, UpsertFails, RecordReferences, RecordReferencesFails, Return
<1>10. CASE Restart
  BY <1>10 DEF Restart
<1> QED
  BY <1>1, <1>2, <1>4, <1>5, <1>6, <1>7, <1>8, <1>9, <1>10
     DEF Next, Advance, Push, PushElsewhere, Remove, EditConfig, HourPasses, vars

\* Whoever fetches holds the lock, so nobody else fetches; and a configuration
\* that is too old stays so until it is replaced.
LEMMA LockStep ==
  TypeOK /\ FetchOnlyWhenStale /\ [Next]_vars => FetchOnlyWhenStale'
<1> SUFFICES ASSUME TypeOK, FetchOnlyWhenStale, [Next]_vars PROVE FetchOnlyWhenStale'
  OBVIOUS
<1> USE DEF config, handler, store, history, github
<1>1. CASE UNCHANGED <<cache, hour, lock, pc>>
  BY <1>1 DEF FetchOnlyWhenStale, Fresh
<1>2. CASE HourPasses
  <2>1. hour \in Nat /\ cache.at \in Nat /\ TTL \in Nat
    BY TTLAssumption DEF TypeOK
  <2>2. hour' = hour + 1 /\ UNCHANGED <<cache, lock, pc>>
    BY <1>2 DEF HourPasses
  <2>3. Fresh' => Fresh
    BY <2>1, <2>2 DEF Fresh
  <2> QED
    BY <2>2, <2>3 DEF FetchOnlyWhenStale
<1>3. ASSUME NEW h \in Handlers, pc'[h] \notin {"fetch", "store"},
             pc' = [pc EXCEPT ![h] = pc'[h]], UNCHANGED <<cache, hour, lock>>
      PROVE  FetchOnlyWhenStale'
  BY <1>3 DEF FetchOnlyWhenStale, Fresh, TypeOK
<1>4. ASSUME NEW h \in Handlers, NEW cfg, Serve(h, cfg)
      PROVE  pc'[h] \notin {"fetch", "store"} /\ pc' = [pc EXCEPT ![h] = pc'[h]]
  BY <1>4 DEF TypeOK, Serve
<1>5. ASSUME NEW h \in Handlers, NEW p \in due, Receive(h, p) PROVE FetchOnlyWhenStale'
  BY <1>3, <1>5 DEF TypeOK, Receive
<1>6. ASSUME NEW h \in Handlers, ReadCache(h) PROVE FetchOnlyWhenStale'
  <2>1. CASE Fresh
    <3>1. Serve(h, cache.cfg) /\ UNCHANGED <<cache, hour, lock>>
      BY <1>6, <2>1 DEF ReadCache
    <3> QED
      BY <1>3, <1>4, <3>1
  <2>2. CASE ~Fresh
    BY <1>3, <1>6, <2>2 DEF TypeOK, ReadCache
  <2> QED
    BY <2>1, <2>2
<1>7. ASSUME NEW h \in Handlers, Lock(h) PROVE FetchOnlyWhenStale'
  <2>1. CASE Fresh
    <3>1. Serve(h, cache.cfg) /\ UNCHANGED <<cache, hour, lock>>
      BY <1>7, <2>1 DEF Lock
    <3> QED
      BY <1>3, <1>4, <3>1
  <2>2. CASE ~Fresh
    <3>1. lock = {} /\ lock' = {h} /\ ~Fresh'
      BY <1>7, <2>2 DEF Lock, Fresh
    <3>2. \A g \in Handlers \ {h} : pc'[g] \notin {"fetch", "store"}
      BY <1>7, <2>2, <3>1 DEF TypeOK, Lock, FetchOnlyWhenStale
    <3> QED
      BY <3>1, <3>2 DEF FetchOnlyWhenStale
  <2> QED
    BY <2>1, <2>2
<1>8. ASSUME NEW h \in Handlers, Fetch(h) PROVE FetchOnlyWhenStale'
  BY <1>8 DEF TypeOK, Fetch, FetchOnlyWhenStale, Fresh
<1>9. ASSUME NEW h \in Handlers, Store(h) \/ FetchFails(h) PROVE FetchOnlyWhenStale'
  <2>1. PICK cfg : Serve(h, cfg)
    BY <1>9 DEF Store, FetchFails
  <2>2. lock = {h}
    BY <1>9 DEF Store, FetchFails, FetchOnlyWhenStale
  <2>3. \A g \in Handlers \ {h} : pc[g] \notin {"fetch", "store"}
    BY <2>2 DEF FetchOnlyWhenStale
  <2>4. \A g \in Handlers : pc'[g] \notin {"fetch", "store"}
    BY <1>4, <2>1, <2>3 DEF TypeOK
  <2> QED
    BY <2>4 DEF FetchOnlyWhenStale
<1>10. ASSUME NEW h \in Handlers, NEW f \in Files,
              GetFileContents(h, f) \/ GetFileFails(h, f)
       PROVE  FetchOnlyWhenStale'
  BY <1>3, <1>10 DEF TypeOK, GetFileContents, GetFileFails, Leave
<1>11. ASSUME NEW h \in Handlers,
              \/ Upsert(h) \/ UpsertFails(h)
              \/ RecordReferences(h) \/ RecordReferencesFails(h)
       PROVE  FetchOnlyWhenStale'
  BY <1>3, <1>11
     DEF TypeOK, Upsert, UpsertFails, RecordReferences, RecordReferencesFails, Return
<1>12. CASE Restart
  BY <1>12 DEF Restart, FetchOnlyWhenStale
<1> QED
  BY <1>1, <1>2, <1>5, <1>6, <1>7, <1>8, <1>9, <1>10, <1>11, <1>12
     DEF Next, Advance, Push, PushElsewhere, Remove, EditConfig, vars
-----------------------------------------------------------------------------
(* Versions.                                                               *)

LEMMA ReadStep == TypeOK /\ ReadWasHead /\ [Next]_vars => ReadWasHead'
<1> SUFFICES ASSUME TypeOK, ReadWasHead, [Next]_vars PROVE ReadWasHead'
  OBVIOUS
<1> USE DEF config, handler, store, history, github
<1>1. ASSUME NEW h \in Handlers, pc'[h] # "embed", pc' = [pc EXCEPT ![h] = pc'[h]],
             \A g \in Handlers \ {h} : file'[g] = file[g] /\ got'[g] = got[g],
             UNCHANGED <<head, pushes>>
      PROVE  ReadWasHead'
  BY <1>1 DEF ReadWasHead, TypeOK
<1>2. ASSUME NEW h \in Handlers, NEW cfg, Serve(h, cfg)
      PROVE  pc'[h] # "embed" /\ pc' = [pc EXCEPT ![h] = pc'[h]]
  BY <1>2 DEF TypeOK, Serve
<1>3. CASE UNCHANGED <<head, pushes, handler>>
  BY <1>3 DEF ReadWasHead
<1>4. ASSUME NEW fs \in Commits, Push(fs) PROVE ReadWasHead'
  <2>1. pushes \in Nat /\ pushes' = pushes + 1 /\ UNCHANGED handler
    BY <1>4 DEF Push, TypeOK
  <2>2. \A f \in Files : head[f] \in Nat /\ head'[f] = IF f \in fs THEN pushes' ELSE head[f]
    BY <1>4 DEF Push, TypeOK
  <2>3. \A f \in Files : head'[f] =< pushes'
    BY <2>1, <2>2 DEF ReadWasHead
  <2>4. ASSUME NEW h \in Handlers, pc'[h] = "embed"
        PROVE  got'[h] # 0 /\ got'[h] =< pushes' /\ (head'[file'[h]] # 0 => got'[h] =< head'[file'[h]])
    <3>1. /\ got[h] \in Nat /\ file[h] \in Files /\ got[h] # 0 /\ got[h] =< pushes
          /\ head[file[h]] # 0 => got[h] =< head[file[h]]
      BY <2>1, <2>4 DEF TypeOK, ReadWasHead
    <3> QED
      BY <2>1, <2>2, <3>1
  <2> QED
    BY <2>3, <2>4 DEF ReadWasHead
<1>5. ASSUME NEW fs \in Commits, PushElsewhere(fs) PROVE ReadWasHead'
  <2>1. pushes \in Nat /\ pushes' = pushes + 1 /\ UNCHANGED <<head, handler>>
    BY <1>5 DEF PushElsewhere, TypeOK
  <2>2. (\A f \in Files : head[f] \in Nat) /\ (\A h \in Handlers : got[h] \in Nat)
    BY DEF TypeOK
  <2> QED
    BY <2>1, <2>2 DEF ReadWasHead
<1>6. ASSUME NEW f \in Files, Remove(f) PROVE ReadWasHead'
  <2>1. pushes \in Nat /\ pushes' = pushes + 1 /\ UNCHANGED handler
    BY <1>6 DEF Remove, TypeOK
  <2>2. \A g \in Files : head[g] \in Nat /\ head'[g] = IF g = f THEN 0 ELSE head[g]
    BY <1>6 DEF Remove, TypeOK
  <2>3. \A h \in Handlers : got[h] \in Nat /\ (pc[h] = "embed" => file[h] \in Files)
    BY DEF TypeOK
  <2> QED
    BY <2>1, <2>2, <2>3 DEF ReadWasHead
<1>7. ASSUME NEW h \in Handlers, NEW p \in due, Receive(h, p) PROVE ReadWasHead'
  BY <1>1, <1>7 DEF TypeOK, Receive
<1>8. ASSUME NEW h \in Handlers, ReadCache(h) \/ Lock(h) PROVE ReadWasHead'
  <2>1. CASE Fresh
    <3>1. Serve(h, cache.cfg) /\ UNCHANGED <<head, pushes, file, got>>
      BY <1>8, <2>1 DEF ReadCache, Lock
    <3> QED
      BY <1>1, <1>2, <3>1
  <2>2. CASE ~Fresh
    BY <1>1, <1>8, <2>2 DEF TypeOK, ReadCache, Lock
  <2> QED
    BY <2>1, <2>2
<1>9. ASSUME NEW h \in Handlers, Fetch(h) PROVE ReadWasHead'
  BY <1>1, <1>9 DEF TypeOK, Fetch
<1>10. ASSUME NEW h \in Handlers, Store(h) \/ FetchFails(h) PROVE ReadWasHead'
  <2>1. PICK cfg : Serve(h, cfg)
    BY <1>10 DEF Store, FetchFails
  <2>2. UNCHANGED <<head, pushes, file, got>>
    BY <1>10 DEF Store, FetchFails
  <2> QED
    BY <1>1, <1>2, <2>1, <2>2
<1>11. ASSUME NEW h \in Handlers, NEW f \in Files, GetFileContents(h, f) PROVE ReadWasHead'
  <2>1. CASE head[f] = 0
    BY <1>1, <1>11, <2>1 DEF TypeOK, GetFileContents, Leave
  <2>2. CASE head[f] # 0
    <3>1. head[f] =< pushes
      BY DEF ReadWasHead
    <3>2. /\ UNCHANGED <<head, pushes>> /\ pc' = [pc EXCEPT ![h] = "embed"]
          /\ file' = [file EXCEPT ![h] = f] /\ got' = [got EXCEPT ![h] = head[f]]
      BY <1>11, <2>2 DEF GetFileContents
    <3>3. file'[h] = f /\ got'[h] = head[f] /\ head[f] =< head[f]
      BY <3>2 DEF TypeOK
    <3>4. \A g \in Handlers \ {h} :
            pc'[g] = pc[g] /\ file'[g] = file[g] /\ got'[g] = got[g]
      BY <3>2 DEF TypeOK
    <3> QED
      BY <2>2, <3>1, <3>2, <3>3, <3>4 DEF ReadWasHead
  <2> QED
    BY <2>1, <2>2
<1>12. ASSUME NEW h \in Handlers, NEW f \in Files, GetFileFails(h, f) PROVE ReadWasHead'
  BY <1>1, <1>12 DEF TypeOK, GetFileFails, Leave
<1>13. ASSUME NEW h \in Handlers,
              \/ Upsert(h) \/ UpsertFails(h)
              \/ RecordReferences(h) \/ RecordReferencesFails(h)
       PROVE  ReadWasHead'
  BY <1>1, <1>13
     DEF TypeOK, Upsert, UpsertFails, RecordReferences, RecordReferencesFails, Return
<1>14. CASE Restart
  BY <1>14 DEF Restart, ReadWasHead
<1> QED
  BY <1>3, <1>4, <1>5, <1>6, <1>7, <1>8, <1>9, <1>10, <1>11, <1>12, <1>13, <1>14
     DEF Next, Advance, EditConfig, HourPasses, vars

\* A file comes back only with a push, and a document of it only from a handler
\* that read the file while it was there.
LEMMA GoneStep ==
  TypeOK /\ ReadWasHead /\ GoneIsExcused /\ [Next]_vars => GoneIsExcused'
<1> SUFFICES ASSUME TypeOK, ReadWasHead, GoneIsExcused, [Next]_vars PROVE GoneIsExcused'
  OBVIOUS
<1> USE DEF config, handler, store, history, github
<1>1. ASSUME UNCHANGED <<head, docs>>, excused \subseteq excused',
             \A h \in Handlers : pc'[h] = "embed" => pc[h] = "embed" /\ file'[h] = file[h]
      PROVE  GoneIsExcused'
  BY <1>1 DEF GoneIsExcused
<1>2. ASSUME NEW h \in Handlers, NEW cfg, Serve(h, cfg), UNCHANGED <<head, docs, file>>
      PROVE  GoneIsExcused'
  <2>1. excused \subseteq excused' /\ \A g \in Handlers : pc'[g] = "embed" => pc[g] = "embed"
    BY <1>2 DEF Serve, TypeOK
  <2> QED
    BY <1>1, <1>2, <2>1
<1>3. ASSUME NEW fs \in Commits, Push(fs) PROVE GoneIsExcused'
  <2>1. pushes \in Nat /\ pushes' = pushes + 1
    BY <1>3 DEF TypeOK, Push
  <2>2. \A f \in Files : head'[f] = IF f \in fs THEN pushes' ELSE head[f]
    BY <1>3 DEF Push
  <2>3. excused' = excused \ fs /\ UNCHANGED <<docs, pc, file>>
    BY <1>3 DEF Push
  <2> QED
    BY <2>1, <2>2, <2>3 DEF GoneIsExcused
<1>4. ASSUME NEW f \in Files, Remove(f) PROVE GoneIsExcused'
  BY <1>4 DEF TypeOK, Remove, GoneIsExcused
<1>5. ASSUME NEW h \in Handlers, NEW p \in due, Receive(h, p) PROVE GoneIsExcused'
  BY <1>1, <1>5 DEF TypeOK, Receive
<1>6. ASSUME NEW h \in Handlers, ReadCache(h) \/ Lock(h) PROVE GoneIsExcused'
  <2>1. CASE Fresh
    <3>1. Serve(h, cache.cfg) /\ UNCHANGED <<head, docs, file>>
      BY <1>6, <2>1 DEF ReadCache, Lock
    <3> QED
      BY <1>2, <3>1
  <2>2. CASE ~Fresh
    BY <1>1, <1>6, <2>2 DEF TypeOK, ReadCache, Lock
  <2> QED
    BY <2>1, <2>2
<1>7. ASSUME NEW h \in Handlers, Fetch(h) PROVE GoneIsExcused'
  BY <1>1, <1>7 DEF TypeOK, Fetch
<1>8. ASSUME NEW h \in Handlers, Store(h) \/ FetchFails(h) PROVE GoneIsExcused'
  <2>1. PICK cfg : Serve(h, cfg)
    BY <1>8 DEF Store, FetchFails
  <2>2. UNCHANGED <<head, docs, file>>
    BY <1>8 DEF Store, FetchFails
  <2> QED
    BY <1>2, <2>1, <2>2
<1>9. ASSUME NEW h \in Handlers, NEW f \in Files, GetFileContents(h, f) PROVE GoneIsExcused'
  <2>1. CASE head[f] = 0
    BY <1>1, <1>9, <2>1 DEF TypeOK, GetFileContents, Leave
  <2>2. CASE head[f] # 0
    <3>1. UNCHANGED <<head, docs, excused>>
      BY <1>9, <2>2 DEF GetFileContents
    <3>2. \A g \in Handlers :
            pc'[g] = "embed" => file'[g] = f \/ (pc[g] = "embed" /\ file'[g] = file[g])
      BY <1>9, <2>2 DEF TypeOK, GetFileContents
    <3> QED
      BY <2>2, <3>1, <3>2 DEF GoneIsExcused
  <2> QED
    BY <2>1, <2>2
<1>10. ASSUME NEW h \in Handlers, NEW f \in Files, GetFileFails(h, f) PROVE GoneIsExcused'
  BY <1>1, <1>10 DEF TypeOK, GetFileFails, Leave
<1>11. ASSUME NEW h \in Handlers, Upsert(h) PROVE GoneIsExcused'
  <2>1. /\ pc[h] = "embed" /\ file[h] \in Files /\ got[h] # 0
        /\ docs' = [docs EXCEPT ![file[h]] = got[h]]
        /\ UNCHANGED <<head, file>>
    BY <1>11 DEF TypeOK, ReadWasHead, Upsert
  <2>2. \A g \in Handlers : pc'[g] = "embed" => pc[g] = "embed"
    BY <1>11 DEF TypeOK, Upsert
  <2>3. head[file[h]] = 0 => file[h] \in excused'
    BY <1>11, <2>1 DEF GoneIsExcused, Upsert
  <2>4. \A f \in Files \ {file[h]} : docs'[f] = docs[f] /\ (f \in excused => f \in excused')
    BY <1>11 DEF TypeOK, Upsert
  <2> QED
    BY <2>1, <2>2, <2>3, <2>4 DEF GoneIsExcused
<1>12. ASSUME NEW h \in Handlers,
              UpsertFails(h) \/ RecordReferences(h) \/ RecordReferencesFails(h)
       PROVE  GoneIsExcused'
  <2>1. UNCHANGED <<head, docs>> /\ excused \subseteq excused'
    BY <1>12 DEF UpsertFails, RecordReferences, RecordReferencesFails
  <2>2. \A g \in Handlers : pc'[g] = "embed" => pc[g] = "embed" /\ file'[g] = file[g]
    BY <1>12 DEF TypeOK, UpsertFails, RecordReferences, RecordReferencesFails, Return
  <2> QED
    BY <1>1, <2>1, <2>2
<1>13. CASE Restart
  <2>1. UNCHANGED <<head, docs>> /\ excused \subseteq excused' /\ \A h \in Handlers : pc'[h] = "idle"
    BY <1>13 DEF Restart
  <2> QED
    BY <1>1, <2>1
<1>14. CASE UNCHANGED <<head, docs, excused, pc, file>>
  BY <1>1, <1>14
<1> QED
  BY <1>3, <1>4, <1>5, <1>6, <1>7, <1>8, <1>9, <1>10, <1>11, <1>12, <1>13, <1>14
     DEF Next, Advance, EditConfig, HourPasses, PushElsewhere, vars
-----------------------------------------------------------------------------
(* Documents.                                                              *)

LEMMA StaleStep ==
  /\ TypeOK /\ IdleOwesNothing /\ ReadWasHead /\ GoneIsExcused /\ StaleDocHasCause
  /\ [Next]_vars
  => StaleDocHasCause'
<1> SUFFICES ASSUME TypeOK, IdleOwesNothing, ReadWasHead, GoneIsExcused, StaleDocHasCause,
                    [Next]_vars
             PROVE  StaleDocHasCause'
  OBVIOUS
<1> USE DEF config, handler, store, history, github
<1>1. ASSUME UNCHANGED <<head, docs>>, excused \subseteq excused',
             \A f \in Files : Owed(f) => Owed(f)' \/ f \in excused'
      PROVE  StaleDocHasCause'
  BY <1>1 DEF StaleDocHasCause
\* A handler that is not embedding owes what it has left.
<1>2. ASSUME NEW h \in Handlers, UNCHANGED <<head, docs, due>>, excused \subseteq excused',
             pc[h] # "embed",
             \A g \in Handlers \ {h} :
               pc'[g] = pc[g] /\ todo'[g] = todo[g] /\ file'[g] = file[g] /\ got'[g] = got[g],
             \A f \in todo[h] : f \in todo'[h] \/ f \in excused' \/ Owed(f)' \/ docs[f] = head[f]
      PROVE  StaleDocHasCause'
  BY <1>2 DEF StaleDocHasCause, Owed
<1>3. ASSUME NEW h \in Handlers, NEW cfg, Serve(h, cfg), pc[h] # "embed",
             UNCHANGED <<head, docs, due, file, got>>
      PROVE  StaleDocHasCause'
  <2>1. \A g \in Handlers \ {h} : pc'[g] = pc[g] /\ todo'[g] = todo[g]
    BY <1>3 DEF TypeOK, Serve
  <2>2. excused \subseteq excused' /\ \A f \in todo[h] : f \in todo'[h] \/ f \in excused'
    BY <1>3 DEF TypeOK, Serve
  <2> QED
    BY <1>2, <1>3, <2>1, <2>2
<1>4. ASSUME NEW fs \in Commits, Push(fs) PROVE StaleDocHasCause'
  <2>1. ASSUME NEW f \in Files PROVE docs'[f] = head'[f] \/ Owed(f)' \/ f \in excused'
    <3>1. CASE f \in fs
      <4>1. [n |-> pushes', files |-> fs] \in due'
        BY <1>4 DEF Push
      <4> QED
        BY <3>1, <4>1 DEF Owed
    <3>2. CASE f \notin fs
      <4>1. head'[f] = head[f] /\ due \subseteq due' /\ UNCHANGED <<docs, handler>>
        BY <1>4, <3>2 DEF Push
      <4>2. f \in excused => f \in excused'
        BY <1>4, <3>2 DEF Push
      <4> QED
        BY <4>1, <4>2 DEF StaleDocHasCause, Owed
    <3> QED
      BY <3>1, <3>2
  <2> QED
    BY <2>1 DEF StaleDocHasCause
<1>5. ASSUME NEW fs \in Commits, PushElsewhere(fs) PROVE StaleDocHasCause'
  <2>1. due \subseteq due' /\ UNCHANGED <<head, docs, excused, handler>>
    BY <1>5 DEF PushElsewhere
  <2> QED
    BY <1>1, <2>1 DEF Owed
<1>6. ASSUME NEW f \in Files, Remove(f) PROVE StaleDocHasCause'
  <2>1. /\ UNCHANGED <<docs, due, handler>> /\ excused' = excused \cup {f}
        /\ \A g \in Files \ {f} : head'[g] = head[g]
    BY <1>6 DEF TypeOK, Remove
  <2> QED
    BY <2>1 DEF StaleDocHasCause, Owed
<1>7. ASSUME NEW h \in Handlers, NEW p \in due, Receive(h, p) PROVE StaleDocHasCause'
  <2>1. todo[h] = {} /\ pc[h] = "idle"
    BY <1>7 DEF IdleOwesNothing, Receive
  <2>2. /\ UNCHANGED <<head, docs, excused, file, got>> /\ due' = due \ {p}
        /\ todo'[h] = p.files
        /\ \A g \in Handlers \ {h} : pc'[g] = pc[g] /\ todo'[g] = todo[g]
    BY <1>7 DEF TypeOK, Receive
  <2>3. \A f \in Files : Owed(f) => Owed(f)'
    BY <2>1, <2>2 DEF Owed
  <2> QED
    BY <1>1, <2>2, <2>3
<1>8. ASSUME NEW h \in Handlers, ReadCache(h) \/ Lock(h) PROVE StaleDocHasCause'
  <2>1. pc[h] # "embed" /\ UNCHANGED <<head, docs, due, file, got>>
    BY <1>8 DEF ReadCache, Lock
  <2>2. CASE Fresh
    <3>1. Serve(h, cache.cfg)
      BY <1>8, <2>2 DEF ReadCache, Lock
    <3> QED
      BY <1>3, <2>1, <3>1
  <2>3. CASE ~Fresh
    <3>1. UNCHANGED <<todo, excused>> /\ \A g \in Handlers \ {h} : pc'[g] = pc[g]
      BY <1>8, <2>3 DEF TypeOK, ReadCache, Lock
    <3> QED
      BY <1>2, <2>1, <3>1
  <2> QED
    BY <2>2, <2>3
<1>9. ASSUME NEW h \in Handlers, Fetch(h) PROVE StaleDocHasCause'
  BY <1>2, <1>9 DEF TypeOK, Fetch
<1>10. ASSUME NEW h \in Handlers, Store(h) \/ FetchFails(h) PROVE StaleDocHasCause'
  <2>1. PICK cfg : Serve(h, cfg)
    BY <1>10 DEF Store, FetchFails
  <2>2. pc[h] # "embed" /\ UNCHANGED <<head, docs, due, file, got>>
    BY <1>10 DEF Store, FetchFails
  <2> QED
    BY <1>3, <2>1, <2>2
<1>11. ASSUME NEW h \in Handlers, NEW f \in Files, GetFileContents(h, f)
       PROVE  StaleDocHasCause'
  <2>1. pc[h] # "embed" /\ UNCHANGED <<head, docs, due, excused>>
    BY <1>11 DEF GetFileContents
  <2>2. /\ \A g \in todo[h] \ {f} : g \in todo'[h]
        /\ \A g \in Handlers \ {h} : pc'[g] = pc[g] /\ todo'[g] = todo[g]
        /\ \A g \in Handlers \ {h} : file'[g] = file[g] /\ got'[g] = got[g]
    BY <1>11 DEF TypeOK, GetFileContents, Leave
  <2>3. Owed(f)' \/ docs[f] = head[f] \/ f \in excused'
    <3>1. CASE head[f] = 0
      BY <2>1, <3>1 DEF GoneIsExcused
    <3>2. CASE head[f] # 0
      <4>1. pc'[h] = "embed" /\ file'[h] = f /\ got'[h] = head'[f]
        BY <1>11, <3>2 DEF TypeOK, GetFileContents
      <4> QED
        BY <4>1 DEF Owed
    <3> QED
      BY <3>1, <3>2
  <2> QED
    BY <1>2, <2>1, <2>2, <2>3
<1>12. ASSUME NEW h \in Handlers, NEW f \in Files, GetFileFails(h, f) PROVE StaleDocHasCause'
  <2>1. /\ pc[h] # "embed" /\ UNCHANGED <<head, docs, due, file, got>>
        /\ excused' = excused \cup {f}
    BY <1>12 DEF GetFileFails
  <2>2. /\ \A g \in todo[h] \ {f} : g \in todo'[h]
        /\ \A g \in Handlers \ {h} : pc'[g] = pc[g] /\ todo'[g] = todo[g]
    BY <1>12 DEF TypeOK, GetFileFails, Leave
  <2> QED
    BY <1>2, <2>1, <2>2
<1>13. ASSUME NEW h \in Handlers, Upsert(h) PROVE StaleDocHasCause'
  <2>1. /\ pc[h] = "embed" /\ file[h] \in Files
        /\ docs' = [docs EXCEPT ![file[h]] = got[h]]
        /\ UNCHANGED <<head, due, todo, file, got>>
        /\ \A g \in Handlers \ {h} : pc'[g] = pc[g]
    BY <1>13 DEF TypeOK, Upsert
  <2>2. ASSUME NEW f \in Files \ {file[h]}
        PROVE  docs'[f] = head'[f] \/ Owed(f)' \/ f \in excused'
    <3>1. docs'[f] = docs[f] /\ (f \in excused => f \in excused')
      BY <1>13, <2>1, <2>2 DEF TypeOK, Upsert
    <3>2. Owed(f) => Owed(f)'
      BY <2>1, <2>2 DEF Owed
    <3> QED
      BY <2>1, <3>1, <3>2 DEF StaleDocHasCause
  <2>3. ASSUME got[h] # head[file[h]]
        PROVE  Owed(file[h])' \/ file[h] \in excused'
    <3>1. CASE got[h] < docs[file[h]]
      BY <1>13, <2>1, <2>3, <3>1 DEF Upsert
    <3>2. CASE ~(got[h] < docs[file[h]])
      <4>1. excused' = excused
        BY <1>13, <2>1, <2>3, <3>2 DEF Upsert
      <4>2. docs[file[h]] # head[file[h]] \/ file[h] \in excused
        <5>1. CASE head[file[h]] = 0
          BY <2>1, <5>1 DEF GoneIsExcused
        <5>2. CASE head[file[h]] # 0
          <6>1. /\ got[h] \in Nat /\ head[file[h]] \in Nat /\ docs[file[h]] \in Nat
                /\ got[h] =< head[file[h]]
            BY <2>1, <5>2 DEF TypeOK, ReadWasHead
          <6> QED
            BY <2>3, <3>2, <6>1
        <5> QED
          BY <5>1, <5>2
      <4>3. Owed(file[h]) => Owed(file[h])'
        BY <2>1, <2>3 DEF Owed
      <4> QED
        BY <2>1, <4>1, <4>2, <4>3 DEF StaleDocHasCause
    <3> QED
      BY <3>1, <3>2
  <2>4. docs'[file'[h]] = got[h]
    BY <2>1 DEF TypeOK
  <2> QED
    BY <2>1, <2>2, <2>3, <2>4 DEF StaleDocHasCause
<1>14. ASSUME NEW h \in Handlers, UpsertFails(h) PROVE StaleDocHasCause'
  <2>1. /\ UNCHANGED <<head, docs, due, todo>> /\ excused' = excused \cup {file[h]}
        /\ \A g \in Handlers \ {h} : pc'[g] = pc[g] /\ file'[g] = file[g] /\ got'[g] = got[g]
    BY <1>14 DEF TypeOK, UpsertFails, Return
  <2> QED
    BY <1>1, <2>1 DEF Owed
<1>15. ASSUME NEW h \in Handlers, RecordReferences(h) \/ RecordReferencesFails(h)
       PROVE  StaleDocHasCause'
  BY <1>2, <1>15 DEF TypeOK, RecordReferences, RecordReferencesFails, Return
<1>16. CASE Restart
  <2>1. UNCHANGED <<head, docs, due>> /\ excused \subseteq excused'
    BY <1>16 DEF Restart
  <2>2. \A h \in Handlers : \A f \in todo[h] : f \in excused'
    BY <1>16 DEF Restart
  <2>3. \A h \in Handlers : pc[h] = "embed" => file[h] \in excused'
    BY <1>16 DEF Restart
  <2> QED
    BY <1>1, <2>1, <2>2, <2>3 DEF Owed
<1>17. CASE UNCHANGED <<head, docs, due, excused, handler>>
  BY <1>1, <1>17 DEF Owed
<1> QED
  BY <1>4, <1>5, <1>6, <1>7, <1>8, <1>9, <1>10, <1>11, <1>12, <1>13, <1>14, <1>15,
     <1>16, <1>17 DEF Next, Advance, EditConfig, HourPasses, vars

LEMMA ReferencesStep ==
  TypeOK /\ DocHasItsReferences /\ [Next]_vars => DocHasItsReferences'
<1> SUFFICES ASSUME TypeOK, DocHasItsReferences, [Next]_vars PROVE DocHasItsReferences'
  OBVIOUS
<1> USE DEF config, handler, store, history, github
<1>1. ASSUME UNCHANGED <<store, bare>>,
             \A h \in Handlers : pc[h] = "refs" =>
               pc'[h] = "refs" /\ file'[h] = file[h] /\ got'[h] = got[h]
      PROVE  DocHasItsReferences'
  BY <1>1 DEF DocHasItsReferences
<1>2. ASSUME NEW h \in Handlers, NEW cfg, Serve(h, cfg), pc[h] # "refs",
             UNCHANGED <<store, bare, file, got>>
      PROVE  DocHasItsReferences'
  BY <1>1, <1>2 DEF TypeOK, Serve
<1>3. ASSUME NEW h \in Handlers, NEW p \in due, Receive(h, p) PROVE DocHasItsReferences'
  BY <1>1, <1>3 DEF TypeOK, Receive
<1>4. ASSUME NEW h \in Handlers, ReadCache(h) \/ Lock(h) PROVE DocHasItsReferences'
  <2>1. pc[h] # "refs" /\ UNCHANGED <<store, bare, file, got>>
    BY <1>4 DEF ReadCache, Lock
  <2>2. CASE Fresh
    BY <1>2, <1>4, <2>1, <2>2 DEF ReadCache, Lock
  <2>3. CASE ~Fresh
    BY <1>1, <1>4, <2>1, <2>3 DEF TypeOK, ReadCache, Lock
  <2> QED
    BY <2>2, <2>3
<1>5. ASSUME NEW h \in Handlers, Fetch(h) PROVE DocHasItsReferences'
  BY <1>1, <1>5 DEF TypeOK, Fetch
<1>6. ASSUME NEW h \in Handlers, Store(h) \/ FetchFails(h) PROVE DocHasItsReferences'
  <2>1. PICK cfg : Serve(h, cfg)
    BY <1>6 DEF Store, FetchFails
  <2>2. pc[h] # "refs" /\ UNCHANGED <<store, bare, file, got>>
    BY <1>6 DEF Store, FetchFails
  <2> QED
    BY <1>2, <2>1, <2>2
<1>7. ASSUME NEW h \in Handlers, NEW f \in Files,
             GetFileContents(h, f) \/ GetFileFails(h, f)
      PROVE  DocHasItsReferences'
  BY <1>1, <1>7 DEF TypeOK, GetFileContents, GetFileFails, Leave
<1>8. ASSUME NEW h \in Handlers, Upsert(h) PROVE DocHasItsReferences'
  <2>1. /\ pc[h] = "embed" /\ pc'[h] = "refs" /\ file[h] \in Files
        /\ docs' = [docs EXCEPT ![file[h]] = got[h]]
        /\ \A g \in Handlers \ {h} : pc'[g] = pc[g]
        /\ UNCHANGED <<refs, bare, file, got>>
    BY <1>8 DEF TypeOK, Upsert
  <2>2. docs'[file[h]] = got[h] /\ \A f \in Files \ {file[h]} : docs'[f] = docs[f]
    BY <2>1 DEF TypeOK
  <2> QED
    BY <2>1, <2>2 DEF DocHasItsReferences
<1>9. ASSUME NEW h \in Handlers, UpsertFails(h) PROVE DocHasItsReferences'
  BY <1>1, <1>9 DEF TypeOK, UpsertFails, Return
<1>10. ASSUME NEW h \in Handlers, RecordReferences(h) PROVE DocHasItsReferences'
  <2>1. file[h] \in Files /\ got[h] \in refs'[file[h]] /\ docs' = docs
    BY <1>10 DEF TypeOK, RecordReferences
  <2>2. \A f \in Files : refs[f] \subseteq refs'[f]
    BY <1>10 DEF TypeOK, RecordReferences
  <2>3. \A f \in bare : f \in bare' \/ (f = file[h] /\ got[h] = docs[f])
    BY <1>10 DEF RecordReferences
  <2>4. \A g \in Handlers \ {h} : pc'[g] = pc[g] /\ file'[g] = file[g] /\ got'[g] = got[g]
    BY <1>10 DEF TypeOK, RecordReferences, Return
  <2> QED
    BY <2>1, <2>2, <2>3, <2>4 DEF DocHasItsReferences
<1>11. ASSUME NEW h \in Handlers, RecordReferencesFails(h) PROVE DocHasItsReferences'
  <2>1. UNCHANGED store /\ bare' = bare \cup {file[h]}
    BY <1>11 DEF RecordReferencesFails
  <2>2. \A g \in Handlers \ {h} : pc'[g] = pc[g] /\ file'[g] = file[g] /\ got'[g] = got[g]
    BY <1>11 DEF TypeOK, RecordReferencesFails, Return
  <2> QED
    BY <2>1, <2>2 DEF DocHasItsReferences
<1>12. CASE Restart
  <2>1. UNCHANGED store /\ bare \subseteq bare'
    BY <1>12 DEF Restart
  <2>2. \A h \in Handlers : pc[h] = "refs" => file[h] \in bare'
    BY <1>12 DEF Restart
  <2> QED
    BY <2>1, <2>2 DEF DocHasItsReferences
<1>13. CASE UNCHANGED <<store, bare, handler>>
  BY <1>1, <1>13
<1> QED
  BY <1>3, <1>4, <1>5, <1>6, <1>7, <1>8, <1>9, <1>10, <1>11, <1>12, <1>13
     DEF Next, Advance, Push, PushElsewhere, Remove, EditConfig, HourPasses, vars
-----------------------------------------------------------------------------
(* The configuration.                                                      *)

\* What a handler is served without a fetch, from a cache that is not too old.
LEMMA CachedIsPresent ==
  ASSUME TypeOK, ConfigAge, Fresh, hour > since + TTL
  PROVE  cache.cfg = Parse(json)
<1>1. hour \in Nat /\ since \in Nat /\ cache.at \in Nat /\ TTL \in Nat
  BY TTLAssumption DEF TypeOK
<1>2. cache.fetched /\ hour < cache.at + TTL
  BY DEF Fresh
<1>3. cache.cfg = Parse(json) \/ cache.at =< since + 1
  BY <1>2 DEF ConfigAge
<1> QED
  BY <1>1, <1>2, <1>3

LEMMA ConfigStep == TypeOK /\ ConfigAge /\ [Next]_vars => ConfigAge'
<1> SUFFICES ASSUME TypeOK, ConfigAge, [Next]_vars PROVE ConfigAge'
  OBVIOUS
<1> USE DEF config, handler, store, history, github
<1>1. /\ hour \in Nat /\ since \in Nat /\ cache.at \in Nat
      /\ \A r \in reply : r.at \in Nat
  BY DEF TypeOK
<1>2. CASE UNCHANGED <<json, since, hour, cache, reply>>
  BY <1>2 DEF ConfigAge
<1>3. ASSUME NEW j \in Jsons, EditConfig(j) PROVE ConfigAge'
  <2>1. since' = hour /\ UNCHANGED <<hour, cache, reply>>
    BY <1>3 DEF EditConfig
  <2> QED
    BY <1>1, <2>1 DEF ConfigAge
<1>4. CASE HourPasses
  <2>1. hour' = hour + 1 /\ UNCHANGED <<json, since, cache, reply>>
    BY <1>4 DEF HourPasses
  <2>2. \A r \in reply : r.at = hour
    BY <1>4 DEF HourPasses
  <2> QED
    BY <1>1, <2>1, <2>2 DEF ConfigAge
<1>5. ASSUME NEW h \in Handlers, Fetch(h) PROVE ConfigAge'
  <2>1. reply' = {[json |-> json, at |-> hour]} /\ UNCHANGED <<json, since, hour, cache>>
    BY <1>5 DEF Fetch
  <2> QED
    BY <1>1, <2>1 DEF ConfigAge
<1>6. ASSUME NEW h \in Handlers, Store(h) PROVE ConfigAge'
  <2>1. reply' = {} /\ UNCHANGED <<json, since, hour>>
    BY <1>6 DEF Store
  <2>2. PICK r \in reply :
          cache' = cache \/ cache' = [fetched |-> TRUE, at |-> hour, cfg |-> Parse(r.json)]
    BY <1>6 DEF Store
  <2>3. CASE cache' = cache
    BY <2>1, <2>3 DEF ConfigAge
  <2>4. CASE cache' = [fetched |-> TRUE, at |-> hour, cfg |-> Parse(r.json)]
    <3>1. hour =< r.at + 1 /\ (r.json = json \/ r.at =< since)
      BY DEF ConfigAge
    <3>2. cache'.at = hour /\ cache'.cfg = Parse(r.json)
      BY <2>4
    <3>3. Parse(r.json) = Parse(json) \/ hour =< since + 1
      BY <1>1, <3>1
    <3>4. Parse(json)' = Parse(json) /\ hour =< hour
      BY <1>1, <2>1 DEF Parse
    <3> QED
      BY <2>1, <3>2, <3>3, <3>4 DEF ConfigAge
  <2> QED
    BY <2>2, <2>3, <2>4
<1>7. CASE Restart
  <2>1. reply' = {} /\ cache' = [cache EXCEPT !.fetched = FALSE] /\ UNCHANGED <<json, since, hour>>
    BY <1>7 DEF Restart
  <2>2. ~cache'.fetched
    BY <2>1 DEF TypeOK
  <2> QED
    BY <2>1, <2>2 DEF ConfigAge
<1> QED
  BY <1>2, <1>3, <1>4, <1>5, <1>6, <1>7
     DEF Next, Advance, Push, PushElsewhere, Remove, Receive, ReadCache, Lock, FetchFails,
         GetFileContents, GetFileFails, Upsert, UpsertFails, RecordReferences,
         RecordReferencesFails, vars

\* What one step may do to a handler that waits for the configuration.
Obeys ==
  \A h \in Handlers :
    /\ pc[h] \in {"config", "lock", "store"} /\ pc'[h] \in {"idle", "read"}
    /\ faults' = faults /\ json.kind # "broken" /\ hour > since + TTL
    => todo'[h] = todo[h] \cap Parse(json)

LEMMA ObeysStep == TypeOK /\ ConfigAge /\ [Next]_vars => Obeys
<1> SUFFICES ASSUME TypeOK, ConfigAge, [Next]_vars,
                    NEW h \in Handlers,
                    pc[h] \in {"config", "lock", "store"}, pc'[h] \in {"idle", "read"},
                    faults' = faults, json.kind # "broken", hour > since + TTL
             PROVE  todo'[h] = todo[h] \cap Parse(json)
  BY DEF Obeys
<1> USE DEF config, handler, store, history, github
<1>1. /\ hour \in Nat /\ since \in Nat /\ TTL \in Nat \ {0} /\ faults # faults + 1
      /\ \A r \in reply : r.at \in Nat
  BY TTLAssumption DEF TypeOK
<1>2. ASSUME NEW cfg, Serve(h, cfg), cfg = Parse(json)
      PROVE  todo'[h] = todo[h] \cap Parse(json)
  BY <1>2 DEF TypeOK, Serve
\* A step of another handler leaves this one where it is.
<1>3. ASSUME NEW g \in Handlers \ {h}, NEW v, pc' = [pc EXCEPT ![g] = v] PROVE FALSE
  BY <1>3 DEF TypeOK
<1>4. ASSUME NEW g \in Handlers \ {h}, NEW cfg, Serve(g, cfg) PROVE FALSE
  BY <1>3, <1>4 DEF Serve
<1>5. CASE UNCHANGED pc
  BY <1>5
<1>6. ASSUME NEW g \in Handlers, ReadCache(g) \/ Lock(g)
      PROVE  todo'[h] = todo[h] \cap Parse(json)
  <2>1. CASE Fresh
    <3>1. Serve(g, cache.cfg)
      BY <1>6, <2>1 DEF ReadCache, Lock
    <3> QED
      BY <1>2, <1>4, <2>1, <3>1, CachedIsPresent
  <2>2. CASE ~Fresh
    <3>1. pc' = [pc EXCEPT ![g] = "lock"] \/ pc' = [pc EXCEPT ![g] = "fetch"]
      BY <1>6, <2>2 DEF ReadCache, Lock
    <3> QED
      BY <3>1 DEF TypeOK
  <2> QED
    BY <2>1, <2>2
<1>7. ASSUME NEW g \in Handlers, Store(g)
      PROVE  todo'[h] = todo[h] \cap Parse(json)
  <2>1. PICK r \in reply :
          IF r.json.kind = "broken" THEN Serve(g, Fallback) ELSE Serve(g, Parse(r.json))
    BY <1>7 DEF Store
  <2>2. hour =< r.at + 1 /\ (r.json = json \/ r.at =< since)
    BY DEF ConfigAge
  <2>3. r.json = json
    BY <1>1, <2>2
  <2> QED
    BY <1>2, <1>4, <2>1, <2>3
<1>8. ASSUME NEW g \in Handlers, NEW p \in due, Receive(g, p) PROVE FALSE
  BY <1>8 DEF TypeOK, Receive
<1>9. ASSUME NEW g \in Handlers, Fetch(g) PROVE FALSE
  BY <1>9 DEF TypeOK, Fetch
<1>10. ASSUME NEW g \in Handlers, NEW f \in Files, GetFileContents(g, f) PROVE FALSE
  <2>1. pc[g] = "read" /\ \E v : pc' = [pc EXCEPT ![g] = v]
    BY <1>10 DEF GetFileContents, Leave
  <2> QED
    BY <1>3, <2>1
<1>11. ASSUME NEW g \in Handlers, Upsert(g) \/ RecordReferences(g) PROVE FALSE
  <2>1. pc[g] \in {"embed", "refs"} /\ \E v : pc' = [pc EXCEPT ![g] = v]
    BY <1>11 DEF Upsert, RecordReferences, Return
  <2> QED
    BY <1>3, <2>1
<1> QED
  BY <1>1, <1>5, <1>6, <1>7, <1>8, <1>9, <1>10, <1>11
     DEF Next, Advance, Push, PushElsewhere, Remove, EditConfig, HourPasses, FetchFails,
         GetFileFails, UpsertFails, RecordReferencesFails, Restart, vars
-----------------------------------------------------------------------------
(* The theorems.                                                           *)

IInv ==
  /\ TypeOK /\ IdleOwesNothing /\ FetchOnlyWhenStale
  /\ ReadWasHead /\ GoneIsExcused /\ StaleDocHasCause
  /\ DocHasItsReferences /\ ConfigAge

LEMMA InitIInv == Init => IInv
<1> SUFFICES ASSUME Init PROVE IInv
  OBVIOUS
<1>1. TypeOK
  BY InitTypeOK
<1>2. IdleOwesNothing /\ FetchOnlyWhenStale
  BY DEF Init, IdleOwesNothing, FetchOnlyWhenStale
<1>3. ReadWasHead /\ GoneIsExcused /\ StaleDocHasCause /\ DocHasItsReferences
  BY DEF Init, ReadWasHead, GoneIsExcused, StaleDocHasCause, DocHasItsReferences
<1>4. ConfigAge
  BY DEF Init, ConfigAge
<1> QED
  BY <1>1, <1>2, <1>3, <1>4 DEF IInv

THEOREM Invariance == Spec => []IInv
<1>1. IInv /\ [Next]_vars => IInv'
  BY TypeStep, IdleStep, LockStep, ReadStep, GoneStep, StaleStep, ReferencesStep, ConfigStep
     DEF IInv
<1> QED
  BY <1>1, InitIInv, PTL DEF Spec

\* Every variable keeps its type.
THEOREM TypeCorrect == Spec => []TypeOK
<1>1. IInv => TypeOK
  BY DEF IInv
<1> QED
  BY <1>1, Invariance, PTL

\* config.Cache.Get: GitHub is asked only for a configuration that is too old,
\* and by one handler at a time.
THEOREM OneFetchAtATime == Spec => []FetchOnlyWhenStale
<1>1. IInv => FetchOnlyWhenStale
  BY DEF IInv
<1> QED
  BY <1>1, Invariance, PTL

\* autoIngestDocs: no order of pushes, handlers and failures leaves a document
\* stale but by a cause the code accepts.
THEOREM StaleOnlyWithCause == Spec => []StaleDocHasCause
<1>1. IInv => StaleDocHasCause
  BY DEF IInv
<1> QED
  BY <1>1, Invariance, PTL

\* EmbedAndUpsert: a document without the references of its text is one whose
\* references could not be recorded.
THEOREM ReferencesFollow == Spec => []DocHasItsReferences
<1>1. IInv => DocHasItsReferences
  BY DEF IInv
<1> QED
  BY <1>1, Invariance, PTL

\* A change of butler.json is obeyed TTL hours later, also when it raced a fetch.
THEOREM ConfigObeyed == Spec => ConfigTakesEffect
<1>1. IInv /\ [Next]_vars => [Obeys]_vars
  BY ObeysStep DEF IInv
<1>2. Spec => [][Obeys]_vars
  BY <1>1, Invariance, PTL DEF Spec
<1> QED
  BY <1>2 DEF ConfigTakesEffect, Obeys
=============================================================================
