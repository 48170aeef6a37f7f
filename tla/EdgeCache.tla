------------------------------ MODULE EdgeCache ------------------------------
(***************************************************************************)
(* The disk cache of edge-cache-service for ONE file id: GET /download/id  *)
(* from the handler to the files under CACHE__DIR.  A file id names five   *)
(* files (.json, .bin, .json.tmp, .bin.tmp, .lock) that no other id shares,*)
(* so what one id goes through is independent of the others.               *)
(*                                                                         *)
(* Several processes (Instances) may share the directory.  Each request is *)
(* one asynchronous task.  A step is one blocking operation (every         *)
(* tokio::fs call is one spawn_blocking) or one exchange with the origin,  *)
(* together with what the task does, without awaiting, once it returns.    *)
(* A cancelled task does not stop an operation it already submitted: it is *)
(* left behind as an orphan and runs later, when the task is gone and its  *)
(* lock is released.                                                       *)
(*                                                                         *)
(* Content is abstracted to the origin's version number, and the file that *)
(* holds it to the version found in each of MaxChunks chunks.              *)
(***************************************************************************)
EXTENDS Integers

CONSTANTS
  Requests,     \* the requests of the file, each handled once
  Instances,    \* edge-cache processes that share the cache directory
  Home,         \* the process that handles a request
  MaxVersion,   \* bound: the origin publishes versions 1 .. MaxVersion
  MaxChunks,    \* bound: the longest content, in chunks
  Length,       \* number of chunks of a version
  Tagged,       \* versions the origin sends with an ETag
  TTLs,         \* lifetimes the origin or CACHE__DEFAULT_TTL can give
  MaxTime,      \* bound: the clock stops here
  Faults,       \* what the environment may do wrong
  None          \* no file, no metadata, no lock holder

Versions == 1 .. MaxVersion
Chunks   == 1 .. MaxChunks
Absent   == 0                       \* a chunk the file does not hold
Contents == [Chunks -> Versions \cup {Absent}]
Empty    == [k \in Chunks |-> Absent]
Metas    == [ver : Versions, len : 0 .. MaxChunks, exp : Nat]

FaultKinds == {"origin", "ioRead", "ioWrite", "crash", "cancel"}

ASSUME BoundsAssumption == MaxVersion \in Nat \ {0} /\ MaxChunks \in Nat /\ MaxTime \in Nat
ASSUME HomeAssumption   == Home \in [Requests -> Instances]
ASSUME OriginAssumption == /\ Length \in [Versions -> 0 .. MaxChunks]
                           /\ Tagged \subseteq Versions
                           /\ TTLs \subseteq Nat
ASSUME FaultsAssumption == Faults \subseteq FaultKinds
ASSUME NoneAssumption   == None \notin Requests /\ None \notin Metas

VARIABLES
  now,        \* the wall clock, in seconds
  origin,     \* the version the origin serves
  meta,       \* <id>.json: CacheMeta, its etag being that of version ver
  tmpMeta,    \* <id>.json.tmp
  data,       \* <id>.bin: the inode the name refers to
  tmp,        \* <id>.bin.tmp: likewise
  inode,      \* content of each inode, named by the request that made it
  lock,       \* holder of the exclusive flock on <id>.lock
  pc,         \* where each request is
  seen,       \* CachedFile.meta of the lookup in progress
  view,       \* CachedFile.data: the bytes mapped by the lookup
  reply,      \* version of the origin's response body
  pending,    \* metadata being written by write_meta_atomic
  fd,         \* inode the request's CacheWriterImpl has open
  sent,       \* CacheWriterImpl.written, in chunks
  flight,     \* the file's buffered write: idle, busy or failed
  orphan      \* blocking operation left behind by a cancelled request

env    == <<now, origin>>
metas  == <<meta, tmpMeta>>
bytes  == <<data, tmp, inode>>
disk   == <<metas, bytes>>
cached == <<seen, view>>
writer == <<reply, fd, sent, flight>>
vars   == <<env, disk, lock, pc, cached, pending, writer, orphan>>

(* What a finished request gave its client; "streamed" is a complete       *)
(* MISS, or a REVALIDATED with new content.                                *)
Ended == {"hit", "revalidated", "streamed", "error"}

(* The steps that change the cache directory by a name under it.           *)
DiskOps == {"create", "mvdata", "wrmeta", "mvmeta"}

(* The steps between acquire_lock and the drop of CacheLock.               *)
Leading == {"meta2", "data2", "cond", "fetch", "stream", "rdttl"} \cup DiskOps

Labels == {"idle", "meta1", "data1", "lock"} \cup Leading \cup Ended
Active == Labels \ (Ended \cup {"idle"})

TypeOK ==
  /\ now \in 0 .. MaxTime /\ origin \in Versions
  /\ meta \in Metas \cup {None} /\ tmpMeta \in Metas \cup {None}
  /\ data \in Requests \cup {None} /\ tmp \in Requests \cup {None}
  /\ inode \in [Requests -> Contents]
  /\ lock \in Requests \cup {None}
  /\ pc \in [Requests -> Labels]
  /\ seen \in [Requests -> Metas \cup {None}]
  /\ view \in [Requests -> Contents]
  /\ reply \in [Requests -> Versions \cup {0}]
  /\ pending \in [Requests -> Metas \cup {None}]
  /\ fd \in [Requests -> Requests \cup {None}]
  /\ sent \in [Requests -> 0 .. MaxChunks]
  /\ flight \in [Requests -> {"idle", "busy", "failed"}]
  /\ orphan \in [Requests -> DiskOps \cup {None}]

Init ==
  /\ now = 0 /\ origin = 1
  /\ meta = None /\ tmpMeta = None /\ data = None /\ tmp = None
  /\ inode = [r \in Requests |-> Empty]
  /\ lock = None
  /\ pc = [r \in Requests |-> "idle"]
  /\ seen = [r \in Requests |-> None] /\ view = [r \in Requests |-> Empty]
  /\ reply = [r \in Requests |-> 0] /\ pending = [r \in Requests |-> None]
  /\ fd = [r \in Requests |-> None] /\ sent = [r \in Requests |-> 0]
  /\ flight = [r \in Requests |-> "idle"]
  /\ orphan = [r \in Requests |-> None]

-----------------------------------------------------------------------------
(* Pieces shared by the actions.                                           *)

Expired(m) == now >= m.exp
Goto(r, label) == pc' = [pc EXCEPT ![r] = label]

(* is_expired holds back a cached entry; the mutant tests only under the   *)
(* lock.                                                                   *)
Mutant_ServeableExpired(r) == pc[r] = "data1" \/ ~Expired(seen[r])
Serveable(r) == ~Expired(seen[r])

(* The body has another chunk; the mutant reads one too many.              *)
Mutant_MoreToComeLate(r) == sent[r] <= Length[reply[r]]
MoreToCome(r) == sent[r] < Length[reply[r]]

(* flock(LOCK_EX); the mutant takes a shared lock.                         *)
Mutant_LockShared == TRUE
LockIsFree == lock = None

(* The request is over and its CacheLock, if it has one, is dropped; the   *)
(* mutant keeps the lock's descriptor open.                                *)
Mutant_FinishLeaks(r, outcome) == Goto(r, outcome) /\ UNCHANGED lock
Finish(r, outcome) ==
  /\ Goto(r, outcome)
  /\ lock' = IF lock = r THEN None ELSE lock

(* Drop of an uncommitted CacheWriterImpl: both temporary names go.  The   *)
(* writer is dropped before the lock.  The mutant forgets .json.tmp.       *)
Mutant_DropWriterHalf(r) ==
  /\ tmp' = IF fd[r] = None THEN tmp ELSE None
  /\ UNCHANGED <<metas, data>>
DropWriter(r) ==
  /\ tmp' = IF fd[r] = None THEN tmp ELSE None
  /\ tmpMeta' = IF fd[r] = None THEN tmpMeta ELSE None
  /\ UNCHANGED <<meta, data>>

(* The request ends without an answer or with a broken one.                *)
Abort(r) == Finish(r, "error") /\ DropWriter(r)

(* What the four mutating operations do to the directory, whoever runs them.*)
(* File::create makes the file or truncates it; the mutant only opens it.  *)
Mutant_CreateTmpKeeps(r) ==
  /\ tmp' = IF tmp = None THEN r ELSE tmp
  /\ UNCHANGED <<metas, data, inode>>
CreateTmp(r) ==
  LET i == IF tmp = None THEN r ELSE tmp
  IN  /\ tmp' = i
      /\ inode' = [inode EXCEPT ![i] = Empty]
      /\ UNCHANGED <<metas, data>>
MoveData   == data' = tmp /\ tmp' = None /\ UNCHANGED <<metas, inode>>
PutMeta(r) == tmpMeta' = pending[r] /\ UNCHANGED <<meta, bytes>>
MoveMeta   == meta' = tmpMeta /\ tmpMeta' = None /\ UNCHANGED bytes

-----------------------------------------------------------------------------
(* DownloadUseCase::execute: the lookup without the lock and, under the    *)
(* lock, the second one.                                                   *)

Arrive(r) ==
  /\ pc[r] = "idle" /\ Goto(r, "meta1")
  /\ UNCHANGED <<env, disk, lock, cached, pending, writer, orphan>>

(* Ok(None) and Err alike: the fast path goes on to the lock, the leader   *)
(* to a full fetch.                                                        *)
LookupMiss(r) ==
  /\ Goto(r, IF pc[r] \in {"meta1", "data1"} THEN "lock" ELSE "fetch")
  /\ seen' = [seen EXCEPT ![r] = None]
  /\ UNCHANGED <<view, lock>>

ReadMeta(r) ==
  /\ pc[r] \in {"meta1", "meta2"}
  /\ \/ meta = None /\ LookupMiss(r)
     \/ /\ meta # None
        /\ seen' = [seen EXCEPT ![r] = meta]
        /\ Goto(r, IF pc[r] = "meta1" THEN "data1" ELSE "data2")
        /\ UNCHANGED <<view, lock>>
  /\ UNCHANGED <<env, disk, pending, writer, orphan>>

(* The bytes are mapped, and only then is the expiry of the metadata read  *)
(* before compared with the clock. The fast path drops an expired entry;   *)
(* the leader keeps it, to revalidate.                                     *)
OpenData(r) ==
  /\ pc[r] \in {"data1", "data2"}
  /\ \/ data = None /\ LookupMiss(r)
     \/ data # None /\ pc[r] = "data1" /\ ~Serveable(r) /\ LookupMiss(r)
     \/ /\ data # None
        /\ \/ Serveable(r) /\ Finish(r, "hit")
           \/ /\ ~Serveable(r) /\ pc[r] = "data2"
              /\ Goto(r, IF seen[r].ver \in Tagged THEN "cond" ELSE "fetch")
              /\ UNCHANGED lock
        /\ view' = [view EXCEPT ![r] = inode[data]]
        /\ UNCHANGED seen
  /\ UNCHANGED <<env, disk, pending, writer, orphan>>

(* The mutant trusts the lookup made before the lock.                      *)
Mutant_AcquireLockNoRecheck(r) ==
  /\ pc[r] = "lock" /\ lock = None
  /\ lock' = r /\ Goto(r, "fetch")
  /\ UNCHANGED <<env, disk, cached, pending, writer, orphan>>

AcquireLock(r) ==
  /\ pc[r] = "lock" /\ LockIsFree
  /\ lock' = r /\ Goto(r, "meta2")
  /\ UNCHANGED <<env, disk, cached, pending, writer, orphan>>

-----------------------------------------------------------------------------
(* The leader: revalidate, or fetch_and_cache.                             *)

(* The origin answers with its current version; begin_write comes next.    *)
Answered(r) ==
  /\ reply' = [reply EXCEPT ![r] = origin]
  /\ Goto(r, "create")
  /\ UNCHANGED <<env, disk, lock, cached, pending, fd, sent, flight, orphan>>

Fetch(r) == pc[r] = "fetch" /\ Answered(r)

FetchIfChanged(r) ==
  /\ pc[r] = "cond"
  /\ \/ origin # seen[r].ver /\ Answered(r)
     \/ /\ origin = seen[r].ver              \* 304
        /\ Goto(r, "rdttl")
        /\ UNCHANGED <<env, disk, lock, cached, pending, writer, orphan>>

BeginWrite(r) ==
  /\ pc[r] = "create"
  /\ CreateTmp(r)
  /\ fd' = [fd EXCEPT ![r] = tmp']
  /\ Goto(r, "stream")
  /\ UNCHANGED <<env, lock, cached, pending, reply, sent, flight, orphan>>

-----------------------------------------------------------------------------
(* stream_and_cache, polled by the client's connection.                    *)

(* tokio's File buffers the chunk and writes it in the background; the     *)
(* next write waits for that and is the one to learn that it failed.       *)
WriteChunk(r) ==
  /\ pc[r] = "stream" /\ MoreToCome(r)
  /\ \/ /\ flight[r] = "idle"
        /\ flight' = [flight EXCEPT ![r] = "busy"]
        /\ sent' = [sent EXCEPT ![r] = @ + 1]
        /\ UNCHANGED <<disk, lock, pc>>
     \/ /\ flight[r] = "failed" /\ Abort(r)
        /\ UNCHANGED <<inode, flight, sent>>
  /\ UNCHANGED <<env, cached, pending, reply, fd, orphan>>

(* The background write reaches the inode, also after the task has ended.  *)
LandWrite(r) ==
  /\ flight[r] = "busy"
  /\ inode' = [inode EXCEPT ![fd[r]][sent[r]] = reply[r]]
  /\ flight' = [flight EXCEPT ![r] = "idle"]
  /\ UNCHANGED <<env, metas, data, tmp, lock, pc, cached, pending, reply, fd, sent, orphan>>

(* End of the body: commit, which does not wait for the last write.  The   *)
(* mutant drops the lock before the commit, not after it.                  *)
Mutant_EndStreamUnlocks(r) ==
  /\ pc[r] = "stream" /\ ~MoreToCome(r)
  /\ Goto(r, "mvdata") /\ lock' = None
  /\ UNCHANGED <<env, disk, cached, pending, writer, orphan>>

EndStream(r) ==
  /\ pc[r] = "stream" /\ ~MoreToCome(r)
  /\ Goto(r, "mvdata")
  /\ UNCHANGED <<env, disk, lock, cached, pending, writer, orphan>>

RenameData(r) ==
  /\ pc[r] = "mvdata"
  /\ \/ /\ tmp # None /\ MoveData
        /\ \E ttl \in TTLs : pending' = [pending EXCEPT ![r] =
             [ver |-> reply[r], len |-> sent[r], exp |-> now + ttl]]
        /\ Goto(r, "wrmeta") /\ UNCHANGED lock
     \/ tmp = None /\ Abort(r) /\ UNCHANGED <<inode, pending>>
  /\ UNCHANGED <<env, cached, writer, orphan>>

-----------------------------------------------------------------------------
(* refresh_ttl and write_meta_atomic.                                      *)

ReadForRefresh(r) ==
  /\ pc[r] = "rdttl"
  /\ \/ /\ meta # None
        /\ \E ttl \in TTLs :
             pending' = [pending EXCEPT ![r] = [meta EXCEPT !.exp = now + ttl]]
        /\ Goto(r, "wrmeta") /\ UNCHANGED <<disk, lock>>
     \/ meta = None /\ Abort(r) /\ UNCHANGED <<inode, pending>>
  /\ UNCHANGED <<env, cached, writer, orphan>>

WriteMeta(r) ==
  /\ pc[r] = "wrmeta"
  /\ PutMeta(r) /\ Goto(r, "mvmeta")
  /\ UNCHANGED <<env, lock, cached, pending, writer, orphan>>

(* The last step of both: the entry is committed or refreshed, the lock    *)
(* goes, and the client has its answer.                                    *)
RenameMeta(r) ==
  /\ pc[r] = "mvmeta"
  /\ \/ tmpMeta # None /\ MoveMeta
        /\ Finish(r, IF fd[r] = None THEN "revalidated" ELSE "streamed")
     \/ tmpMeta = None /\ Abort(r) /\ UNCHANGED inode
  /\ UNCHANGED <<env, cached, pending, writer, orphan>>

-----------------------------------------------------------------------------
(* What may go wrong.                                                      *)

(* A lookup fails with an I/O or parse error other than NotFound.          *)
ReadError(r) ==
  /\ "ioRead" \in Faults
  /\ pc[r] \in {"meta1", "data1", "meta2", "data2"}
  /\ LookupMiss(r)
  /\ UNCHANGED <<env, disk, pending, writer, orphan>>

(* Opening the lock, begin_write, commit or refresh_ttl fails. A failed    *)
(* write of the metadata may leave its temporary file behind.              *)
WriteError(r) ==
  /\ "ioWrite" \in Faults
  /\ pc[r] \in {"lock", "rdttl"} \cup DiskOps
  /\ \/ Abort(r) /\ UNCHANGED inode
     \/ pc[r] = "wrmeta" /\ fd[r] = None /\ PutMeta(r) /\ Finish(r, "error")
  /\ UNCHANGED <<env, cached, pending, writer, orphan>>

(* A background write fails: nobody learns of it after the last chunk.     *)
LoseWrite(r) ==
  /\ "ioWrite" \in Faults
  /\ flight[r] = "busy"
  /\ flight' = [flight EXCEPT ![r] = "failed"]
  /\ UNCHANGED <<env, disk, lock, pc, cached, pending, reply, fd, sent, orphan>>

(* 404, unavailable, unexpected status, a header no response may carry, or *)
(* a body that breaks off.                                                 *)
OriginError(r) ==
  /\ "origin" \in Faults
  /\ pc[r] \in {"cond", "fetch", "stream"}
  /\ Abort(r)
  /\ UNCHANGED <<env, inode, cached, pending, writer, orphan>>

(* The client goes away: the task is dropped at its await, a mutating      *)
(* operation it was awaiting is not.                                       *)
Cancel(r) ==
  /\ "cancel" \in Faults
  /\ pc[r] \in Active
  /\ orphan' = [orphan EXCEPT ![r] = IF pc[r] \in DiskOps THEN pc[r] ELSE None]
  /\ Abort(r)
  /\ UNCHANGED <<env, inode, cached, pending, writer>>

RunOrphan(r) ==
  /\ orphan[r] # None
  /\ \/ orphan[r] = "create" /\ CreateTmp(r)
     \/ orphan[r] = "mvdata" /\ tmp # None /\ MoveData
     \/ orphan[r] = "wrmeta" /\ PutMeta(r)
     \/ orphan[r] = "mvmeta" /\ tmpMeta # None /\ MoveMeta
     \/ /\ \/ orphan[r] = "mvdata" /\ tmp = None
           \/ orphan[r] = "mvmeta" /\ tmpMeta = None
        /\ UNCHANGED disk
  /\ orphan' = [orphan EXCEPT ![r] = None]
  /\ UNCHANGED <<env, lock, pc, cached, pending, writer>>

(* A process dies: its tasks, their descriptors and locks and its blocking *)
(* operations are gone, the files are as they were.  It restarts at once.  *)
Crash(i) ==
  LET mine == {r \in Requests : Home[r] = i}
  IN  /\ "crash" \in Faults
      /\ \E r \in mine : pc[r] \in Active \/ flight[r] = "busy" \/ orphan[r] # None
      /\ pc' = [r \in Requests |-> IF r \in mine /\ pc[r] \in Active THEN "error" ELSE pc[r]]
      /\ flight' = [r \in Requests |->
                      IF r \in mine /\ flight[r] = "busy" THEN "failed" ELSE flight[r]]
      /\ orphan' = [r \in Requests |-> IF r \in mine THEN None ELSE orphan[r]]
      /\ fd' = [r \in Requests |-> IF r \in mine /\ pc[r] \in Active THEN None ELSE fd[r]]
      /\ lock' = IF lock \in mine THEN None ELSE lock
      /\ UNCHANGED <<env, disk, cached, pending, reply, sent>>

Tick          == now < MaxTime /\ now' = now + 1
                 /\ UNCHANGED <<origin, disk, lock, pc, cached, pending, writer, orphan>>
OriginChanges == origin < MaxVersion /\ origin' = origin + 1
                 /\ UNCHANGED <<now, disk, lock, pc, cached, pending, writer, orphan>>

-----------------------------------------------------------------------------
(* What a task does of its own accord, once its client has sent the        *)
(* request and while it reads the answer.                                  *)
Serve(r) ==
  \/ ReadMeta(r) \/ OpenData(r) \/ AcquireLock(r)
  \/ Fetch(r) \/ FetchIfChanged(r) \/ BeginWrite(r)
  \/ WriteChunk(r) \/ LandWrite(r) \/ EndStream(r) \/ RenameData(r)
  \/ ReadForRefresh(r) \/ WriteMeta(r) \/ RenameMeta(r)

Fault(r) ==
  \/ ReadError(r) \/ WriteError(r) \/ LoseWrite(r) \/ OriginError(r)
  \/ Cancel(r) \/ RunOrphan(r)

Next ==
  \/ \E r \in Requests : Arrive(r) \/ Serve(r) \/ Fault(r)
  \/ \E i \in Instances : Crash(i)
  \/ Tick \/ OriginChanges

Spec == Init /\ [][Next]_vars

(* The runtime polls every runnable task and runs every blocking operation,*)
(* flock wakes a waiter when the lock is free, the origin answers within   *)
(* its timeout, and a client that does not leave keeps reading.            *)
Fairness == \A r \in Requests : WF_vars(Serve(r))
FairSpec == Spec /\ Fairness

-----------------------------------------------------------------------------
(* Properties.                                                             *)

Fresh == meta # None /\ ~Expired(meta)

HoldsOnly(content, v) == \A k \in Chunks : content[k] \in {v, Absent}
Whole(content, v)     == \A k \in Chunks : content[k] = v <=> k <= Length[v]
Settled(i)            == \A r \in Requests : fd[r] = i => flight[r] = "idle"

(* At most one request is between acquire_lock and the drop of its         *)
(* CacheLock, and it is the one the flock names.                           *)
LeaderHoldsLock == \A r \in Requests : pc[r] \in Leading <=> lock = r

(* While an entry's TTL lasts, its .bin holds content of the very version  *)
(* its .json describes, and all of it unless a background write is still   *)
(* on its way or was lost: commit replaces .bin before .json, so this      *)
(* rests on the leader having seen the old .json expire (usecase.rs,       *)
(* writer.rs commit), also when a process dies between the two renames.    *)
EntryIntact ==
  Fresh => /\ data # None
           /\ HoldsOnly(inode[data], meta.ver)
           /\ meta.len = Length[meta.ver]
           /\ Settled(data) => Whole(inode[data], meta.ver)

(* The bytes of a HIT, or of a REVALIDATED after a 304, are of the version *)
(* whose ETag and Content-Length go with them, although the fast path      *)
(* reads .json and .bin without the lock (repo.rs lookup).                 *)
ServedMatchesHeaders ==
  \A r \in Requests : pc[r] \in {"hit", "revalidated"} => HoldsOnly(view[r], seen[r].ver)

(* However a download that began to write ends, short of its process dying,*)
(* both temporary files are gone when the lock is (writer.rs drop).        *)
CleansUp ==
  [][\A r \in Requests : (lock = r /\ lock' # r /\ fd[r] # None)
       => \/ tmp' = None /\ tmpMeta' = None
          \/ \E i \in Instances : Crash(i)]_vars

(* A leader asks the origin only when no entry is fresh: who waited for    *)
(* the lock while another request filled the cache is served from it.      *)
AsksOrigin(r) == pc[r] \in {"cond", "fetch"} /\ pc'[r] # pc[r]
AsksOnlyWhenStale == [][\A r \in Requests : AsksOrigin(r) => ~Fresh]_vars

(* A commit or a refresh never puts an older version, or an earlier expiry *)
(* of the same one, over what another request published.                   *)
NeverBackwards ==
  [][(meta # None /\ meta' # meta) =>
       /\ meta'.ver >= meta.ver
       /\ meta'.exp >= meta.exp]_vars

(* The content behind a servable entry does not change while the entry     *)
(* stays: repo.rs maps .bin under the comment that cache files are         *)
(* immutable after write.                                                  *)
PublishedIsImmutable ==
  [][(Fresh /\ UNCHANGED <<meta, data>>) => inode'[data] = inode[data]]_vars

(* Every request that starts is answered, or given up, in the end: nobody  *)
(* waits forever on <id>.lock.                                             *)
AllAnswered == \A r \in Requests : pc[r] # "idle" ~> pc[r] \in Ended

(* All of it implements the contract of one entry replaced and read in one *)
(* step: the files, read and renamed one by one, by processes that may die,*)
(* are never seen apart by a request that is answered.                     *)
AnswerOf(r) ==
  LET served(v) == [kind |-> "served", ver |-> v]
  IN  CASE pc[r] \in {"hit", "revalidated"} /\ HoldsOnly(view[r], seen[r].ver) -> served(seen[r].ver)
        [] pc[r] = "streamed" -> served(reply[r])
        [] pc[r] = "error"    -> [kind |-> "failed", ver |-> 0]
        [] pc[r] \notin Ended -> [kind |-> "waiting", ver |-> 0]
        [] OTHER              -> [kind |-> "mixed", ver |-> 0]

Contract == INSTANCE CacheContract WITH
  clock  <- now,
  entry  <- {[ver |-> m.ver, exp |-> m.exp] : m \in {meta} \ {None}},
  answer <- [r \in Requests |-> AnswerOf(r)]

KeepsContract == Contract!Spec

=============================================================================
