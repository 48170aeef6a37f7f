--------------------------- MODULE EdgeCacheProofs ---------------------------
(* Theorems about EdgeCache, for every number of requests, processes,       *)
(* versions and chunks.                                                     *)
EXTENDS EdgeCache, TLAPS

(* What the coherence of the cache rests on.  Under the lock, the leader    *)
(* works on an entry nobody else changes: one that is absent or stale.      *)

(* Requests that have run begin_write, or are over.                         *)
Begun == {"stream", "mvdata", "wrmeta", "mvmeta"} \cup Ended

(* The entry cannot become servable again as it is: it has expired, and     *)
(* the origin has moved on or will not be asked about it conditionally.     *)
Stale(m) == Expired(m) /\ (m.ver < origin \/ m.ver \notin Tagged)

(* The file i is what the metadata m says, up to the last buffered write.   *)
Intact(m, i) ==
  /\ m.len = Length[m.ver]
  /\ HoldsOnly(inode[i], m.ver)
  /\ Settled(i) => Whole(inode[i], m.ver)
  /\ \A r \in Requests : fd[r] = i => reply[r] = m.ver /\ sent[r] = m.len

(* The content of the inode a writer has open follows from its progress.    *)
WrittenSoFar(r) ==
  \A k \in Chunks :
    inode[fd[r]][k] = IF k < sent[r] \/ (k = sent[r] /\ flight[r] = "idle")
                      THEN reply[r] ELSE Absent

NoOrphans == \A r \in Requests : orphan[r] = None

(* A request that streams or commits an answer of the origin has one.       *)
Replied ==
  \A r \in Requests :
    pc[r] \in {"create", "stream", "mvdata"} \/ flight[r] = "busy" => reply[r] \in Versions

EntryInv ==
  meta # None => /\ meta.ver <= origin
                 /\ data # None
                 /\ Stale(meta) \/ Intact(meta, data)

InodeInv ==
  /\ tmp # None => tmp # data
  /\ \A r \in Requests :
       /\ data = r \/ tmp = r => pc[r] \in Begun
       /\ pc[r] \notin Begun => fd[r] = None
       /\ fd[r] # None => /\ WrittenSoFar(r)
                          /\ pc[fd[r]] \in Begun
                          /\ fd[r] = tmp => pc[r] \in {"stream", "mvdata"}
  /\ \A r, s \in Requests : fd[r] # None /\ fd[r] = fd[s] => r = s

ReaderInv ==
  \A r \in Requests :
    /\ pc[r] \in {"data1", "data2"} =>
         seen[r] # None /\ (seen[r] = meta \/ Expired(seen[r]))
    /\ pc[r] \in {"hit", "revalidated"} => HoldsOnly(view[r], seen[r].ver)

(* What the holder of the lock knows at each of its steps.                  *)
WriterInv(r) ==
  /\ reply[r] \in Versions /\ reply[r] <= origin
  /\ meta # None => Stale(meta) /\ meta.ver <= reply[r]

(* Refreshing the metadata after a 304.                                     *)
Refreshing(r) ==
  \/ pc[r] = "rdttl"
  \/ pc[r] \in {"wrmeta", "mvmeta"} /\ fd[r] = None

LeaderKnows(r) ==
  /\ pc[r] = "data2" => seen[r] = meta
  /\ pc[r] = "cond" =>
       /\ meta # None /\ seen[r] = meta /\ Expired(meta) /\ meta.ver \in Tagged
       /\ meta.ver < origin \/ HoldsOnly(view[r], meta.ver)
  /\ pc[r] = "fetch" => (meta # None => Stale(meta))
  /\ pc[r] = "create" => WriterInv(r)
  /\ pc[r] \in {"stream", "mvdata"} =>
       /\ WriterInv(r) /\ fd[r] # None /\ fd[r] = tmp
       /\ sent[r] <= Length[reply[r]]
       /\ pc[r] = "mvdata" => sent[r] = Length[reply[r]]
  /\ pc[r] \in {"wrmeta", "mvmeta"} /\ fd[r] # None =>
       /\ WriterInv(r) /\ fd[r] = data
       /\ pending[r].ver = reply[r] /\ pending[r].len = sent[r]
       /\ sent[r] = Length[reply[r]]
  /\ Refreshing(r) =>
       /\ meta # None /\ Expired(meta) /\ Intact(meta, data)
       /\ seen[r].ver = meta.ver /\ HoldsOnly(view[r], meta.ver)
       /\ pc[r] # "rdttl" => pending[r].ver = meta.ver /\ pending[r].len = meta.len
  /\ pc[r] \in {"wrmeta", "mvmeta"} =>
       pending[r] # None /\ (meta # None => pending[r].exp >= meta.exp)
  /\ pc[r] = "mvmeta" => tmpMeta = pending[r]
  /\ pc[r] \notin Begun => sent[r] = 0 /\ flight[r] = "idle"

LeaderInv == \A r \in Requests : LeaderKnows(r)

Inv ==
  /\ TypeOK /\ Replied /\ NoOrphans /\ LeaderHoldsLock
  /\ EntryInv /\ InodeInv /\ ReaderInv /\ LeaderInv

-----------------------------------------------------------------------------
(* Lemmas on the values the variables take.                                 *)
LEMMA EmptyContent == Empty \in Contents
  BY DEF Empty, Contents, Absent

LEMMA ChunkWritten ==
  ASSUME NEW c \in Contents, NEW k, NEW v \in Versions \cup {0}
  PROVE  [c EXCEPT ![k] = v] \in Contents
  BY DEF Contents, Absent

LEMMA VersionsAreNat == Versions \subseteq Nat \ {0} /\ 1 \in Versions
  BY BoundsAssumption DEF Versions

LEMMA MetaFields ==
  ASSUME NEW m \in Metas
  PROVE  m.ver \in Versions /\ m.ver \in Int /\ m.exp \in Int
  BY DEF Metas, Versions

LEMMA ClockIsNat == TypeOK => now \in Nat /\ origin \in Int /\ \A ttl \in TTLs : now + ttl \in Nat
  BY BoundsAssumption, OriginAssumption DEF TypeOK, Versions

LEMMA LengthBound == \A v \in Versions : Length[v] \in 0 .. MaxChunks
  BY OriginAssumption

LEMMA CommittedMeta ==
  ASSUME NEW v \in Versions, NEW n \in 0 .. MaxChunks, NEW e \in Nat
  PROVE  [ver |-> v, len |-> n, exp |-> e] \in Metas
  BY DEF Metas

LEMMA RefreshedMeta ==
  ASSUME NEW m \in Metas, NEW e \in Nat
  PROVE  [m EXCEPT !.exp = e] \in Metas
  BY DEF Metas

LEMMA InitType == Init => TypeOK /\ Replied
  BY BoundsAssumption, EmptyContent, VersionsAreNat
     DEF Init, TypeOK, Replied, Labels, Leading, DiskOps, Ended

LEMMA NextType == TypeOK /\ Replied /\ [Next]_vars => TypeOK' /\ Replied'
<1> SUFFICES ASSUME TypeOK, Replied, [Next]_vars PROVE TypeOK' /\ Replied' OBVIOUS
<1> USE DEF env, metas, bytes, disk, cached, writer, vars,
            Labels, Leading, DiskOps, Ended, Goto, Finish, DropWriter, Abort, Replied
<1>0. CASE UNCHANGED vars BY <1>0 DEF TypeOK
<1>1. ASSUME NEW r \in Requests, Arrive(r) PROVE TypeOK' /\ Replied'
  BY <1>1 DEF Arrive, TypeOK
<1>2. ASSUME NEW r \in Requests, ReadMeta(r) PROVE TypeOK' /\ Replied'
  BY <1>2 DEF ReadMeta, LookupMiss, TypeOK
<1>3. ASSUME NEW r \in Requests, OpenData(r) PROVE TypeOK' /\ Replied'
  BY <1>3 DEF OpenData, LookupMiss, TypeOK
<1>4. ASSUME NEW r \in Requests, AcquireLock(r) PROVE TypeOK' /\ Replied'
  BY <1>4 DEF AcquireLock, TypeOK
<1>5. ASSUME NEW r \in Requests, Fetch(r) \/ FetchIfChanged(r) PROVE TypeOK' /\ Replied'
  BY <1>5 DEF Fetch, FetchIfChanged, Answered, TypeOK
<1>6. ASSUME NEW r \in Requests, BeginWrite(r) PROVE TypeOK' /\ Replied'
  BY <1>6, EmptyContent DEF BeginWrite, CreateTmp, TypeOK
<1>7. ASSUME NEW r \in Requests, WriteChunk(r) PROVE TypeOK' /\ Replied'
  <2>1. reply[r] \in Versions BY <1>7 DEF WriteChunk
  <2>2. MoreToCome(r) => sent[r] + 1 \in 0 .. MaxChunks
    BY <2>1, LengthBound, BoundsAssumption DEF MoreToCome, TypeOK
  <2> QED BY <1>7, <2>1, <2>2 DEF WriteChunk, TypeOK
<1>8. ASSUME NEW r \in Requests, LandWrite(r) PROVE TypeOK' /\ Replied'
  BY <1>8, ChunkWritten DEF LandWrite, TypeOK
<1>9. ASSUME NEW r \in Requests, EndStream(r) PROVE TypeOK' /\ Replied'
  BY <1>9 DEF EndStream, TypeOK
<1>10. ASSUME NEW r \in Requests, RenameData(r) PROVE TypeOK' /\ Replied'
  BY <1>10, ClockIsNat, CommittedMeta DEF RenameData, MoveData, TypeOK
<1>11. ASSUME NEW r \in Requests, ReadForRefresh(r) PROVE TypeOK' /\ Replied'
  BY <1>11, ClockIsNat, RefreshedMeta DEF ReadForRefresh, TypeOK
<1>12. ASSUME NEW r \in Requests, WriteMeta(r) PROVE TypeOK' /\ Replied'
  BY <1>12 DEF WriteMeta, PutMeta, TypeOK
<1>13. ASSUME NEW r \in Requests, RenameMeta(r) PROVE TypeOK' /\ Replied'
  BY <1>13 DEF RenameMeta, MoveMeta, TypeOK
<1>14. ASSUME NEW r \in Requests, ReadError(r) PROVE TypeOK' /\ Replied'
  BY <1>14 DEF ReadError, LookupMiss, TypeOK
<1>15. ASSUME NEW r \in Requests, WriteError(r) PROVE TypeOK' /\ Replied'
  BY <1>15 DEF WriteError, PutMeta, TypeOK
<1>16. ASSUME NEW r \in Requests, LoseWrite(r) \/ OriginError(r) PROVE TypeOK' /\ Replied'
  BY <1>16 DEF LoseWrite, OriginError, TypeOK
<1>17. ASSUME NEW r \in Requests, Cancel(r) PROVE TypeOK' /\ Replied'
  BY <1>17 DEF Cancel, TypeOK
<1>18. ASSUME NEW r \in Requests, RunOrphan(r) PROVE TypeOK' /\ Replied'
  BY <1>18, EmptyContent DEF RunOrphan, CreateTmp, MoveData, PutMeta, MoveMeta, TypeOK
<1>19. ASSUME NEW i \in Instances, Crash(i) PROVE TypeOK' /\ Replied'
  BY <1>19 DEF Crash, Active, TypeOK
<1>20. ASSUME Tick \/ OriginChanges PROVE TypeOK' /\ Replied'
  BY <1>20, BoundsAssumption DEF Versions, Tick, OriginChanges, TypeOK
<1> QED
  BY <1>0, <1>1, <1>2, <1>3, <1>4, <1>5, <1>6, <1>7, <1>8, <1>9, <1>10, <1>11,
     <1>12, <1>13, <1>14, <1>15, <1>16, <1>17, <1>18, <1>19, <1>20
     DEF Next, Serve, Fault

(* Every variable keeps its type: no read, write or crash leaves a half-    *)
(* formed entry, whatever the environment does.                             *)
THEOREM TypeCorrect == Spec => []TypeOK
  BY InitType, NextType, PTL DEF Spec
-----------------------------------------------------------------------------
LEMMA InitLock == Init => LeaderHoldsLock
<1>1. Init => lock = None /\ \A r \in Requests : pc[r] = "idle" BY DEF Init
<1> QED BY <1>1, NoneAssumption DEF LeaderHoldsLock, Leading, DiskOps

LEMMA NextLock == TypeOK /\ LeaderHoldsLock /\ [Next]_vars => LeaderHoldsLock'
<1> SUFFICES ASSUME TypeOK, LeaderHoldsLock, [Next]_vars PROVE LeaderHoldsLock' OBVIOUS
<1> USE NoneAssumption
    DEF env, metas, bytes, disk, cached, writer, vars, LeaderHoldsLock,
        Labels, Leading, DiskOps, Ended, Active, Goto, Finish, Abort
<1>0. CASE UNCHANGED vars BY <1>0
<1>1. ASSUME NEW r \in Requests, Arrive(r) PROVE LeaderHoldsLock'
  BY <1>1 DEF Arrive, TypeOK
<1>2. ASSUME NEW r \in Requests, ReadMeta(r) PROVE LeaderHoldsLock'
  BY <1>2 DEF ReadMeta, LookupMiss, TypeOK
<1>3. ASSUME NEW r \in Requests, OpenData(r) PROVE LeaderHoldsLock'
  BY <1>3 DEF OpenData, LookupMiss, TypeOK
<1>4. ASSUME NEW r \in Requests, AcquireLock(r) PROVE LeaderHoldsLock'
  BY <1>4 DEF AcquireLock, LockIsFree, TypeOK
<1>5. ASSUME NEW r \in Requests, Fetch(r) PROVE LeaderHoldsLock'
  BY <1>5 DEF Fetch, Answered, TypeOK
<1>6. ASSUME NEW r \in Requests, FetchIfChanged(r) PROVE LeaderHoldsLock'
  BY <1>6 DEF FetchIfChanged, Answered, TypeOK
<1>7. ASSUME NEW r \in Requests, BeginWrite(r) PROVE LeaderHoldsLock'
  BY <1>7 DEF BeginWrite, CreateTmp, TypeOK
<1>8. ASSUME NEW r \in Requests, WriteChunk(r) PROVE LeaderHoldsLock'
  BY <1>8 DEF WriteChunk, TypeOK
<1>9. ASSUME NEW r \in Requests, LandWrite(r) PROVE LeaderHoldsLock'
  BY <1>9 DEF LandWrite, TypeOK
<1>10. ASSUME NEW r \in Requests, EndStream(r) PROVE LeaderHoldsLock'
  BY <1>10 DEF EndStream, TypeOK
<1>11. ASSUME NEW r \in Requests, RenameData(r) PROVE LeaderHoldsLock'
  BY <1>11 DEF RenameData, MoveData, TypeOK
<1>12. ASSUME NEW r \in Requests, ReadForRefresh(r) PROVE LeaderHoldsLock'
  BY <1>12 DEF ReadForRefresh, TypeOK
<1>13. ASSUME NEW r \in Requests, WriteMeta(r) PROVE LeaderHoldsLock'
  BY <1>13 DEF WriteMeta, PutMeta, TypeOK
<1>14. ASSUME NEW r \in Requests, RenameMeta(r) PROVE LeaderHoldsLock'
  BY <1>14 DEF RenameMeta, MoveMeta, TypeOK
<1>15. ASSUME NEW r \in Requests, WriteError(r) PROVE LeaderHoldsLock'
  BY <1>15 DEF WriteError, PutMeta, TypeOK
<1>16. ASSUME NEW r \in Requests, LoseWrite(r) PROVE LeaderHoldsLock'
  BY <1>16 DEF LoseWrite, TypeOK
<1>17. ASSUME NEW r \in Requests, OriginError(r) PROVE LeaderHoldsLock'
  BY <1>17 DEF OriginError, TypeOK
<1>18. ASSUME NEW i \in Instances, Crash(i) PROVE LeaderHoldsLock'
  BY <1>18 DEF Crash, TypeOK
<1>19. ASSUME Tick PROVE LeaderHoldsLock'
  BY <1>19 DEF Tick, TypeOK
<1>20. ASSUME OriginChanges PROVE LeaderHoldsLock'
  BY <1>20 DEF OriginChanges, TypeOK
<1>21. ASSUME NEW r \in Requests, ReadError(r) PROVE LeaderHoldsLock'
  BY <1>21 DEF ReadError, LookupMiss, TypeOK
<1>22. ASSUME NEW r \in Requests, Cancel(r) PROVE LeaderHoldsLock'
  BY <1>22 DEF Cancel, TypeOK
<1>23. ASSUME NEW r \in Requests, RunOrphan(r) PROVE LeaderHoldsLock'
  BY <1>23 DEF RunOrphan, CreateTmp, MoveData, PutMeta, MoveMeta, TypeOK
<1> QED
  BY <1>0, <1>1, <1>2, <1>3, <1>4, <1>5, <1>6, <1>7, <1>8, <1>9, <1>10, <1>11, <1>12, <1>13, <1>14, <1>15, <1>16, <1>17, <1>18, <1>19, <1>20, <1>21, <1>22, <1>23
     DEF Next, Serve, Fault

(* No two requests, of one process or of several that share the directory,  *)
(* are ever between acquire_lock and the drop of the lock together, also    *)
(* when clients leave, disks fail and processes die.                        *)
THEOREM SingleLeader == Spec => []LeaderHoldsLock
<1>1. Init => TypeOK /\ Replied /\ LeaderHoldsLock BY InitType, InitLock
<1>2. TypeOK /\ Replied /\ LeaderHoldsLock /\ [Next]_vars
        => (TypeOK /\ Replied /\ LeaderHoldsLock)'
  BY NextType, NextLock
<1> QED BY <1>1, <1>2, PTL DEF Spec
-----------------------------------------------------------------------------
(* From here on no client leaves and no lookup fails with an I/O error.     *)
ReliableReads == "cancel" \notin Faults /\ "ioRead" \notin Faults

LEMMA NoOrphanSteps ==
  ASSUME ReliableReads, NoOrphans, NEW r \in Requests
  PROVE  ~ReadError(r) /\ ~Cancel(r) /\ ~RunOrphan(r)
  BY DEF ReliableReads, NoOrphans, ReadError, Cancel, RunOrphan

(* Counting a chunk that is still to be written leaves the file as it is.   *)
LEMMA CountWrite ==
  ASSUME TypeOK, NEW r \in Requests, WrittenSoFar(r), flight[r] = "idle",
         UNCHANGED <<inode, fd, reply>>,
         sent' = [sent EXCEPT ![r] = @ + 1], flight' = [flight EXCEPT ![r] = "busy"]
  PROVE  WrittenSoFar(r)'
<1>1. sent'[r] = sent[r] + 1 /\ flight'[r] = "busy" /\ sent[r] \in Int BY DEF TypeOK
<1>2. ASSUME NEW k \in Chunks
      PROVE  (k < sent[r] \/ k = sent[r]) <=> k < sent'[r]
  BY <1>1 DEF Chunks
<1> QED BY <1>1, <1>2 DEF WrittenSoFar

LEMMA NextInode == Inv /\ ReliableReads /\ [Next]_vars => InodeInv'
<1> SUFFICES ASSUME Inv, ReliableReads, [Next]_vars PROVE InodeInv' OBVIOUS
<1> USE NoneAssumption
    DEF env, metas, bytes, disk, cached, writer, vars, Inv, InodeInv, WrittenSoFar, Begun,
        Leading, DiskOps, Ended, Active, Goto, Finish, Abort, DropWriter
<1>0. CASE UNCHANGED vars BY <1>0
<1>1. ASSUME NEW r \in Requests, Arrive(r) PROVE InodeInv'
  BY <1>1 DEF Arrive, TypeOK, LeaderInv, LeaderKnows, LeaderHoldsLock
<1>2. ASSUME NEW r \in Requests, ReadMeta(r) PROVE InodeInv'
  BY <1>2 DEF ReadMeta, LookupMiss, TypeOK, LeaderInv, LeaderKnows, LeaderHoldsLock
<1>3. ASSUME NEW r \in Requests, OpenData(r) PROVE InodeInv'
  BY <1>3 DEF OpenData, LookupMiss, TypeOK, LeaderInv, LeaderKnows, LeaderHoldsLock
<1>4. ASSUME NEW r \in Requests, AcquireLock(r) PROVE InodeInv'
  BY <1>4 DEF AcquireLock, LockIsFree, TypeOK, LeaderInv, LeaderKnows, LeaderHoldsLock
<1>5. ASSUME NEW r \in Requests, Fetch(r) PROVE InodeInv'
  BY <1>5 DEF Fetch, Answered, TypeOK, LeaderInv, LeaderKnows, LeaderHoldsLock
<1>6. ASSUME NEW r \in Requests, FetchIfChanged(r) PROVE InodeInv'
  BY <1>6 DEF FetchIfChanged, Answered, TypeOK, LeaderInv, LeaderKnows, LeaderHoldsLock
<1>7. ASSUME NEW r \in Requests, BeginWrite(r) PROVE InodeInv'
  <2> DEFINE i == IF tmp = None THEN r ELSE tmp
  <2>1. /\ pc[r] = "create" /\ fd[r] = None /\ sent[r] = 0
        /\ lock = r
    BY <1>7 DEF BeginWrite, TypeOK, LeaderInv, LeaderKnows, LeaderHoldsLock
  <2>2. i \in Requests /\ i # None /\ (data # None => i # data)
    BY <2>1 DEF TypeOK
  <2>3. \A s \in Requests : fd[s] # i
    BY <2>1, <2>2 DEF TypeOK, LeaderHoldsLock
  <2>4. /\ tmp' = i /\ data' = data /\ inode' = [inode EXCEPT ![i] = Empty]
        /\ fd' = [fd EXCEPT ![r] = i] /\ pc' = [pc EXCEPT ![r] = "stream"]
        /\ sent' = sent /\ flight' = flight /\ reply' = reply
    BY <1>7 DEF BeginWrite, CreateTmp
  <2> HIDE DEF i
  <2>5. WrittenSoFar(r)'
    BY <2>1, <2>2, <2>4 DEF TypeOK, Empty, Chunks
  <2>6. \A s \in Requests : s # r /\ fd[s] # None => WrittenSoFar(s)'
    BY <2>3, <2>4 DEF TypeOK
  <2>7. \A s \in Requests : s # r => fd'[s] = fd[s] /\ fd[s] # fd'[r]
    BY <2>3, <2>4 DEF TypeOK
  <2>8. i = r \/ pc[i] \in Begun
    BY <2>2 DEF i
  <2>9. \A s \in Requests : (data' = s \/ tmp' = s => pc'[s] \in Begun)
    BY <2>1, <2>2, <2>4, <2>8 DEF TypeOK
  <2>10. \A s \in Requests : fd'[s] # None => /\ WrittenSoFar(s)' /\ pc'[fd'[s]] \in Begun
                                              /\ fd'[s] = tmp' => pc'[s] \in {"stream", "mvdata"}
    BY <2>1, <2>2, <2>3, <2>4, <2>5, <2>6, <2>7, <2>8 DEF TypeOK
  <2> QED BY <2>1, <2>2, <2>4, <2>7, <2>9, <2>10 DEF TypeOK
<1>8. ASSUME NEW r \in Requests, WriteChunk(r) PROVE InodeInv'
  <2>1. CASE flight[r] = "failed"
    BY <1>8, <2>1 DEF WriteChunk, TypeOK
  <2>2. CASE flight[r] = "idle"
    <3>1. /\ UNCHANGED <<disk, pc, reply, fd>> /\ sent' = [sent EXCEPT ![r] = @ + 1]
          /\ flight' = [flight EXCEPT ![r] = "busy"]
      BY <1>8, <2>2 DEF WriteChunk
    <3>2. fd[r] # None => WrittenSoFar(r)'
      <4>1. fd[r] # None => WrittenSoFar(r) OBVIOUS
      <4> HIDE DEF WrittenSoFar
      <4> QED BY <4>1, <2>2, <3>1, CountWrite DEF Inv
    <3> QED BY <3>1, <3>2 DEF TypeOK
  <2> QED BY <1>8, <2>1, <2>2 DEF WriteChunk
<1>9. ASSUME NEW r \in Requests, LandWrite(r) PROVE InodeInv'
  <2>1. /\ UNCHANGED <<data, tmp, pc, fd, sent, reply>>
        /\ inode' = [inode EXCEPT ![fd[r]][sent[r]] = reply[r]]
        /\ flight[r] = "busy" /\ flight' = [flight EXCEPT ![r] = "idle"]
    BY <1>9 DEF LandWrite
  <2>2. fd[r] # None => WrittenSoFar(r)'
    BY <2>1 DEF TypeOK, Chunks, Contents
  <2>3. \A s \in Requests : s # r /\ fd[s] # None => WrittenSoFar(s)'
    BY <2>1 DEF TypeOK
  <2> QED BY <2>1, <2>2, <2>3 DEF TypeOK
<1>10. ASSUME NEW r \in Requests, EndStream(r) PROVE InodeInv'
  BY <1>10 DEF EndStream, MoreToCome, TypeOK, LeaderInv, LeaderKnows, LeaderHoldsLock
<1>11. ASSUME NEW r \in Requests, RenameData(r) PROVE InodeInv'
  BY <1>11 DEF RenameData, MoveData, TypeOK, LeaderInv, LeaderKnows, LeaderHoldsLock
<1>12. ASSUME NEW r \in Requests, ReadForRefresh(r) PROVE InodeInv'
  BY <1>12 DEF ReadForRefresh, TypeOK, LeaderInv, LeaderKnows, LeaderHoldsLock
<1>13. ASSUME NEW r \in Requests, WriteMeta(r) PROVE InodeInv'
  BY <1>13 DEF WriteMeta, PutMeta, TypeOK, LeaderInv, LeaderKnows, LeaderHoldsLock
<1>14. ASSUME NEW r \in Requests, RenameMeta(r) PROVE InodeInv'
  BY <1>14 DEF RenameMeta, MoveMeta, TypeOK, LeaderInv, LeaderKnows, LeaderHoldsLock
<1>15. ASSUME NEW r \in Requests, WriteError(r) PROVE InodeInv'
  BY <1>15 DEF WriteError, PutMeta, TypeOK, LeaderInv, LeaderKnows, LeaderHoldsLock
<1>16. ASSUME NEW r \in Requests, LoseWrite(r) PROVE InodeInv'
  BY <1>16 DEF LoseWrite, TypeOK, LeaderInv, LeaderKnows, LeaderHoldsLock
<1>17. ASSUME NEW r \in Requests, OriginError(r) PROVE InodeInv'
  BY <1>17 DEF OriginError, TypeOK, LeaderInv, LeaderKnows, LeaderHoldsLock
<1>18. ASSUME NEW i \in Instances, Crash(i) PROVE InodeInv'
  BY <1>18 DEF Crash, TypeOK, LeaderInv, LeaderKnows, LeaderHoldsLock
<1>19. ASSUME Tick PROVE InodeInv'
  BY <1>19 DEF Tick, TypeOK, LeaderInv, LeaderKnows, LeaderHoldsLock
<1>20. ASSUME OriginChanges PROVE InodeInv'
  BY <1>20 DEF OriginChanges, TypeOK, LeaderInv, LeaderKnows, LeaderHoldsLock
<1> QED
  BY <1>0, NoOrphanSteps, <1>1, <1>2, <1>3, <1>4, <1>5, <1>6, <1>7, <1>8, <1>9, <1>10, <1>11, <1>12, <1>13, <1>14, <1>15, <1>16, <1>17, <1>18, <1>19, <1>20
     DEF Next, Serve, Fault

(* A request that does not hold the lock has nothing to know.               *)
LEMMA OthersKnowNothing ==
  ASSUME NoneAssumption, TypeOK, LeaderHoldsLock, NEW r \in Requests, lock = r,
         NEW s \in Requests, s # r, LeaderKnows(s),
         pc'[s] = pc[s], sent'[s] = sent[s], flight'[s] = flight[s]
  PROVE  LeaderKnows(s)'
<1>1. pc[s] \notin Leading BY DEF LeaderHoldsLock
<1> QED BY <1>1 DEF LeaderKnows, Leading, DiskOps, Refreshing, Begun, Ended

(* A write that lands, or a process that dies, leaves an intact file intact.*)
LEMMA LandIntact ==
  ASSUME Inv, NEW r \in Requests, LandWrite(r), meta # None, data # None, Intact(meta, data)
  PROVE  Intact(meta, data)'
<1>1. /\ UNCHANGED <<meta, data, fd, sent, reply>> /\ flight[r] = "busy"
      /\ flight' = [flight EXCEPT ![r] = "idle"]
      /\ inode' = [inode EXCEPT ![fd[r]][sent[r]] = reply[r]]
  BY DEF LandWrite, metas
<1>2. meta.ver \in Versions /\ meta.ver # Absent
  BY MetaFields, VersionsAreNat DEF Inv, TypeOK, Absent
<1>3. CASE fd[r] # data
  BY <1>1, <1>3 DEF Intact, Settled, HoldsOnly, Whole, Inv, TypeOK
<1>4. CASE fd[r] = data
  <2>1. /\ reply[r] = meta.ver /\ sent[r] = meta.len /\ meta.len = Length[meta.ver]
        /\ WrittenSoFar(r)
    BY <1>4 DEF Intact, Inv, InodeInv
  <2>2. \A k \in Chunks : inode'[data][k] = IF k <= sent[r] THEN meta.ver ELSE Absent
    <3>1. inode'[data] = [inode[data] EXCEPT ![sent[r]] = reply[r]]
      BY <1>1, <1>4 DEF Inv, TypeOK
    <3>2. DOMAIN inode[data] = Chunks BY DEF Inv, TypeOK, Contents
    <3>3. \A k \in Chunks : k \in Int BY DEF Chunks
    <3>4. sent[r] \in Int BY DEF Inv, TypeOK
    <3> QED BY <1>1, <1>4, <2>1, <3>1, <3>2, <3>3, <3>4 DEF WrittenSoFar
  <2>3. HoldsOnly(inode'[data], meta.ver) /\ Whole(inode'[data], meta.ver)
    BY <1>2, <2>1, <2>2 DEF HoldsOnly, Whole
  <2> QED BY <1>1, <2>1, <2>3 DEF Intact, HoldsOnly, Whole
<1> QED BY <1>3, <1>4

LEMMA CrashIntact ==
  ASSUME Inv, NEW i \in Instances, Crash(i), meta # None, data # None, Intact(meta, data),
         \A r \in Requests : pc[r] \in Active => fd[r] # data
  PROVE  Intact(meta, data)'
<1>1. /\ UNCHANGED <<meta, data, inode, reply, sent>>
      /\ \A r \in Requests : fd'[r] = data => fd[r] = data
      /\ \A r \in Requests : fd[r] = data => fd'[r] = data
      /\ \A r \in Requests : flight'[r] = "idle" => flight[r] = "idle"
  BY DEF Crash, disk, metas, bytes, Inv, TypeOK
<1>2. Settled(data)' => Settled(data)
  BY <1>1 DEF Settled
<1> QED BY <1>1, <1>2 DEF Intact, HoldsOnly, Whole

LEMMA NextReader == Inv /\ ReliableReads /\ [Next]_vars => ReaderInv'
<1> SUFFICES ASSUME Inv, ReliableReads, [Next]_vars PROVE ReaderInv' OBVIOUS
<1> USE NoneAssumption
    DEF env, metas, bytes, disk, cached, writer, vars, Inv, ReaderInv, HoldsOnly, Stale, Intact, Expired, Serveable,
        Leading, DiskOps, Ended, Active, Begun, Goto, Finish, Abort, DropWriter
<1>0. CASE UNCHANGED vars BY <1>0
<1>1. ASSUME NEW r \in Requests, Arrive(r) PROVE ReaderInv'
  BY <1>1 DEF Arrive, TypeOK, EntryInv, InodeInv, ReaderInv, LeaderInv, LeaderKnows, LeaderHoldsLock
<1>2. ASSUME NEW r \in Requests, ReadMeta(r) PROVE ReaderInv'
  BY <1>2 DEF ReadMeta, LookupMiss, TypeOK, EntryInv, InodeInv, ReaderInv, LeaderInv, LeaderKnows, LeaderHoldsLock
<1>3. ASSUME NEW r \in Requests, OpenData(r) PROVE ReaderInv'
  BY <1>3 DEF OpenData, LookupMiss, TypeOK, EntryInv, InodeInv, ReaderInv, LeaderInv, LeaderKnows, LeaderHoldsLock
<1>4. ASSUME NEW r \in Requests, AcquireLock(r) PROVE ReaderInv'
  BY <1>4 DEF AcquireLock, LockIsFree, TypeOK, EntryInv, InodeInv, ReaderInv, LeaderInv, LeaderKnows, LeaderHoldsLock
<1>5. ASSUME NEW r \in Requests, Fetch(r) PROVE ReaderInv'
  BY <1>5 DEF Fetch, Answered, TypeOK, EntryInv, InodeInv, ReaderInv, LeaderInv, LeaderKnows, LeaderHoldsLock
<1>6. ASSUME NEW r \in Requests, FetchIfChanged(r) PROVE ReaderInv'
  BY <1>6 DEF FetchIfChanged, Answered, TypeOK, EntryInv, InodeInv, ReaderInv, LeaderInv, LeaderKnows, LeaderHoldsLock
<1>7. ASSUME NEW r \in Requests, BeginWrite(r) PROVE ReaderInv'
  BY <1>7 DEF BeginWrite, CreateTmp, TypeOK, EntryInv, InodeInv, ReaderInv, LeaderInv, LeaderKnows, LeaderHoldsLock
<1>8. ASSUME NEW r \in Requests, WriteChunk(r) PROVE ReaderInv'
  BY <1>8 DEF WriteChunk, MoreToCome, TypeOK, EntryInv, InodeInv, ReaderInv, LeaderInv, LeaderKnows, LeaderHoldsLock
<1>9. ASSUME NEW r \in Requests, LandWrite(r) PROVE ReaderInv'
  BY <1>9 DEF LandWrite, TypeOK, EntryInv, InodeInv, ReaderInv, LeaderInv, LeaderKnows, LeaderHoldsLock
<1>10. ASSUME NEW r \in Requests, EndStream(r) PROVE ReaderInv'
  BY <1>10 DEF EndStream, MoreToCome, TypeOK, EntryInv, InodeInv, ReaderInv, LeaderInv, LeaderKnows, LeaderHoldsLock
<1>11. ASSUME NEW r \in Requests, RenameData(r) PROVE ReaderInv'
  BY <1>11 DEF RenameData, MoveData, TypeOK, EntryInv, InodeInv, ReaderInv, LeaderInv, LeaderKnows, LeaderHoldsLock
<1>12. ASSUME NEW r \in Requests, ReadForRefresh(r) PROVE ReaderInv'
  BY <1>12 DEF ReadForRefresh, TypeOK, EntryInv, InodeInv, ReaderInv, LeaderInv, LeaderKnows, LeaderHoldsLock
<1>13. ASSUME NEW r \in Requests, WriteMeta(r) PROVE ReaderInv'
  BY <1>13 DEF WriteMeta, PutMeta, TypeOK, EntryInv, InodeInv, ReaderInv, LeaderInv, LeaderKnows, LeaderHoldsLock
<1>14. ASSUME NEW r \in Requests, RenameMeta(r) PROVE ReaderInv'
  <2>1. meta # None => Expired(meta)
    BY <1>14 DEF RenameMeta, LeaderInv, LeaderKnows, Refreshing, WriterInv
  <2>2. UNCHANGED <<now, seen, view>> BY <1>14 DEF RenameMeta
  <2>3. \A s \in Requests : pc[s] \in {"data1", "data2"} =>
          /\ seen[s] # None
          /\ seen[s] = meta' \/ Expired(seen[s])'
    BY <1>14, <2>1, <2>2 DEF RenameMeta, MoveMeta
  <2> QED
    BY <1>14, <2>2, <2>3 DEF RenameMeta, TypeOK, LeaderInv, LeaderKnows, Refreshing
<1>15. ASSUME NEW r \in Requests, WriteError(r) PROVE ReaderInv'
  BY <1>15 DEF WriteError, PutMeta, TypeOK, EntryInv, InodeInv, ReaderInv, LeaderInv, LeaderKnows, LeaderHoldsLock
<1>16. ASSUME NEW r \in Requests, LoseWrite(r) PROVE ReaderInv'
  BY <1>16 DEF LoseWrite, TypeOK, EntryInv, InodeInv, ReaderInv, LeaderInv, LeaderKnows, LeaderHoldsLock
<1>17. ASSUME NEW r \in Requests, OriginError(r) PROVE ReaderInv'
  BY <1>17 DEF OriginError, TypeOK, EntryInv, InodeInv, ReaderInv, LeaderInv, LeaderKnows, LeaderHoldsLock
<1>18. ASSUME NEW i \in Instances, Crash(i) PROVE ReaderInv'
  BY <1>18 DEF Crash, TypeOK, EntryInv, InodeInv, ReaderInv, LeaderInv, LeaderKnows, LeaderHoldsLock
<1>19. ASSUME Tick PROVE ReaderInv'
  BY <1>19, MetaFields, ClockIsNat DEF Tick, TypeOK
<1>20. ASSUME OriginChanges PROVE ReaderInv'
  BY <1>20, MetaFields, ClockIsNat DEF OriginChanges, TypeOK
<1> QED
  BY <1>0, NoOrphanSteps, <1>1, <1>2, <1>3, <1>4, <1>5, <1>6, <1>7, <1>8, <1>9, <1>10, <1>11, <1>12, <1>13, <1>14, <1>15, <1>16, <1>17, <1>18, <1>19, <1>20
     DEF Next, Serve, Fault

LEMMA NextEntry == Inv /\ ReliableReads /\ [Next]_vars => EntryInv'
<1> SUFFICES ASSUME Inv, ReliableReads, [Next]_vars PROVE EntryInv' OBVIOUS
<1> USE NoneAssumption
    DEF env, metas, bytes, disk, cached, writer, vars, Inv, EntryInv, Intact, Stale, Expired, HoldsOnly, Settled, Whole,
        Leading, DiskOps, Ended, Active, Begun, Goto, Finish, Abort, DropWriter
<1>0. CASE UNCHANGED vars BY <1>0
<1>1. ASSUME NEW r \in Requests, Arrive(r) PROVE EntryInv'
  BY <1>1 DEF Arrive, TypeOK, EntryInv, InodeInv, ReaderInv, LeaderInv, LeaderKnows, LeaderHoldsLock
<1>2. ASSUME NEW r \in Requests, ReadMeta(r) PROVE EntryInv'
  BY <1>2 DEF ReadMeta, LookupMiss, TypeOK, EntryInv, InodeInv, ReaderInv, LeaderInv, LeaderKnows, LeaderHoldsLock
<1>3. ASSUME NEW r \in Requests, OpenData(r) PROVE EntryInv'
  BY <1>3 DEF OpenData, LookupMiss, TypeOK, EntryInv, InodeInv, ReaderInv, LeaderInv, LeaderKnows, LeaderHoldsLock
<1>4. ASSUME NEW r \in Requests, AcquireLock(r) PROVE EntryInv'
  BY <1>4 DEF AcquireLock, LockIsFree, TypeOK, EntryInv, InodeInv, ReaderInv, LeaderInv, LeaderKnows, LeaderHoldsLock
<1>5. ASSUME NEW r \in Requests, Fetch(r) PROVE EntryInv'
  BY <1>5 DEF Fetch, Answered, TypeOK, EntryInv, InodeInv, ReaderInv, LeaderInv, LeaderKnows, LeaderHoldsLock
<1>6. ASSUME NEW r \in Requests, FetchIfChanged(r) PROVE EntryInv'
  BY <1>6 DEF FetchIfChanged, Answered, TypeOK, EntryInv, InodeInv, ReaderInv, LeaderInv, LeaderKnows, LeaderHoldsLock
<1>7. ASSUME NEW r \in Requests, BeginWrite(r) PROVE EntryInv'
  BY <1>7 DEF BeginWrite, CreateTmp, TypeOK, EntryInv, InodeInv, ReaderInv, LeaderInv, LeaderKnows, LeaderHoldsLock
<1>8. ASSUME NEW r \in Requests, WriteChunk(r) PROVE EntryInv'
  BY <1>8 DEF WriteChunk, MoreToCome, TypeOK, EntryInv, InodeInv, ReaderInv, LeaderInv, LeaderKnows, LeaderHoldsLock
<1>9. ASSUME NEW r \in Requests, LandWrite(r) PROVE EntryInv'
  <2>1. UNCHANGED <<meta, data, now, origin>> BY <1>9 DEF LandWrite
  <2>2. meta # None => Stale(meta)' \/ Intact(meta, data)'
    BY <1>9, <2>1, LandIntact DEF Stale, Expired, EntryInv
  <2> QED BY <2>1, <2>2 DEF EntryInv
<1>10. ASSUME NEW r \in Requests, EndStream(r) PROVE EntryInv'
  BY <1>10 DEF EndStream, MoreToCome, TypeOK, EntryInv, InodeInv, ReaderInv, LeaderInv, LeaderKnows, LeaderHoldsLock
<1>11. ASSUME NEW r \in Requests, RenameData(r) PROVE EntryInv'
  <2>1. meta # None => Stale(meta)
    BY <1>11 DEF RenameData, LeaderInv, LeaderKnows, WriterInv
  <2>2. UNCHANGED <<now, origin, meta>> /\ (data # None => data' # None)
    BY <1>11 DEF RenameData, MoveData
  <2> QED BY <2>1, <2>2 DEF EntryInv, Stale, Expired
<1>12. ASSUME NEW r \in Requests, ReadForRefresh(r) PROVE EntryInv'
  BY <1>12 DEF ReadForRefresh, TypeOK, EntryInv, InodeInv, ReaderInv, LeaderInv, LeaderKnows, LeaderHoldsLock
<1>13. ASSUME NEW r \in Requests, WriteMeta(r) PROVE EntryInv'
  BY <1>13 DEF WriteMeta, PutMeta, TypeOK, EntryInv, InodeInv, ReaderInv, LeaderInv, LeaderKnows, LeaderHoldsLock
<1>14. ASSUME NEW r \in Requests, RenameMeta(r) PROVE EntryInv'
  <2>1. UNCHANGED <<now, origin, data, inode, fd, sent, reply, flight>>
    BY <1>14 DEF RenameMeta, MoveMeta
  <2>2. CASE tmpMeta = None
    BY <1>14, <2>1, <2>2 DEF RenameMeta, EntryInv, Intact, Stale, Expired, Settled
  <2>3. CASE tmpMeta # None /\ fd[r] = None
    <3>1. /\ meta # None /\ data # None /\ Intact(meta, data) /\ meta.ver <= origin
          /\ meta' = pending[r] /\ pending[r].ver = meta.ver /\ pending[r].len = meta.len
      BY <1>14, <2>3
         DEF RenameMeta, MoveMeta, LeaderInv, LeaderKnows, Refreshing, EntryInv
    <3> QED BY <2>1, <3>1 DEF EntryInv, Intact, Settled
  <2>4. CASE tmpMeta # None /\ fd[r] # None
    <3>1. /\ meta' = pending[r] /\ data # None /\ data = fd[r]
          /\ reply[r] \in Versions /\ reply[r] <= origin
          /\ pending[r].ver = reply[r] /\ pending[r].len = sent[r]
          /\ sent[r] = Length[reply[r]]
      BY <1>14, <2>4
         DEF RenameMeta, MoveMeta, LeaderInv, LeaderKnows, WriterInv
    <3>2. WrittenSoFar(r) /\ \A q \in Requests : fd[q] = data => q = r
      BY <3>1 DEF InodeInv
    <3>3. reply[r] # Absent BY <3>1, VersionsAreNat DEF Absent
    <3>4. HoldsOnly(inode[data], reply[r])
      BY <3>1, <3>2 DEF HoldsOnly, WrittenSoFar
    <3>5. flight[r] = "idle" => Whole(inode[data], reply[r])
      BY <3>1, <3>2, <3>3 DEF Whole, WrittenSoFar, Chunks, TypeOK
    <3>6. Intact(meta, data)'
      BY <2>1, <3>1, <3>2, <3>4, <3>5 DEF Intact, Settled, HoldsOnly, Whole
    <3> QED BY <2>1, <3>1, <3>6 DEF EntryInv
  <2> QED BY <2>2, <2>3, <2>4
<1>15. ASSUME NEW r \in Requests, WriteError(r) PROVE EntryInv'
  BY <1>15 DEF WriteError, PutMeta, TypeOK, EntryInv, InodeInv, ReaderInv, LeaderInv, LeaderKnows, LeaderHoldsLock
<1>16. ASSUME NEW r \in Requests, LoseWrite(r) PROVE EntryInv'
  BY <1>16 DEF LoseWrite, TypeOK, EntryInv, InodeInv, ReaderInv, LeaderInv, LeaderKnows, LeaderHoldsLock
<1>17. ASSUME NEW r \in Requests, OriginError(r) PROVE EntryInv'
  BY <1>17 DEF OriginError, TypeOK, EntryInv, InodeInv, ReaderInv, LeaderInv, LeaderKnows, LeaderHoldsLock
<1>18. ASSUME NEW i \in Instances, Crash(i) PROVE EntryInv'
  <2>1. UNCHANGED <<meta, data, now, origin>> BY <1>18 DEF Crash
  <2>2. CASE \E r \in Requests : pc[r] \in Active /\ fd[r] = data /\ data # None
    <3>1. PICK r \in Requests : pc[r] \in Active /\ fd[r] = data /\ data # None
      BY <2>2
    <3>2. pc[r] \in {"wrmeta", "mvmeta"}
      BY <3>1 DEF InodeInv, TypeOK, Active, Labels, LeaderInv, LeaderKnows
    <3>3. meta # None => Stale(meta)
      BY <3>1, <3>2 DEF LeaderInv, LeaderKnows, WriterInv
    <3> QED BY <2>1, <3>1, <3>3 DEF EntryInv, Stale, Expired
  <2>3. CASE ~ \E r \in Requests : pc[r] \in Active /\ fd[r] = data /\ data # None
    <3>1. meta # None => Stale(meta)' \/ Intact(meta, data)'
      BY <1>18, <2>1, <2>3, CrashIntact DEF Stale, Expired, EntryInv
    <3> QED BY <2>1, <3>1 DEF EntryInv
  <2> QED BY <2>2, <2>3
<1>19. ASSUME Tick PROVE EntryInv'
  BY <1>19, MetaFields, ClockIsNat DEF Tick, TypeOK
<1>20. ASSUME OriginChanges PROVE EntryInv'
  BY <1>20, MetaFields, ClockIsNat DEF OriginChanges, TypeOK
<1> QED
  BY <1>0, NoOrphanSteps, <1>1, <1>2, <1>3, <1>4, <1>5, <1>6, <1>7, <1>8, <1>9, <1>10, <1>11, <1>12, <1>13, <1>14, <1>15, <1>16, <1>17, <1>18, <1>19, <1>20
     DEF Next, Serve, Fault

LEMMA NextLeader == Inv /\ ReliableReads /\ [Next]_vars => LeaderInv'
<1> SUFFICES ASSUME Inv, ReliableReads, [Next]_vars PROVE LeaderInv' OBVIOUS
<1> USE NoneAssumption
    DEF env, metas, bytes, disk, cached, writer, vars, Inv, LeaderInv, LeaderKnows, Refreshing, WriterInv, Intact, Stale, Expired, HoldsOnly, Settled, Whole,
        Leading, DiskOps, Ended, Active, Begun, Goto, Finish, Abort, DropWriter
<1>0. CASE UNCHANGED vars BY <1>0
<1>1. ASSUME NEW r \in Requests, Arrive(r) PROVE LeaderInv'
  BY <1>1 DEF Arrive, TypeOK, EntryInv, InodeInv, ReaderInv, LeaderInv, LeaderKnows, LeaderHoldsLock
<1>2. ASSUME NEW r \in Requests, ReadMeta(r) PROVE LeaderInv'
  BY <1>2 DEF ReadMeta, LookupMiss, TypeOK, EntryInv, InodeInv, ReaderInv, LeaderInv, LeaderKnows, LeaderHoldsLock
<1>3. ASSUME NEW r \in Requests, OpenData(r) PROVE LeaderInv'
  <2>1. \A s \in Requests : s # r =>
          /\ pc'[s] = pc[s] /\ seen'[s] = seen[s] /\ view'[s] = view[s]
          /\ UNCHANGED <<env, disk, pending, writer>>
    BY <1>3 DEF OpenData, LookupMiss, TypeOK
  <2>2. \A s \in Requests : s # r => LeaderKnows(s)'
    BY <2>1
  <2>3. CASE pc[r] = "data1"
    BY <1>3, <2>2, <2>3 DEF OpenData, LookupMiss, TypeOK
  <2>4. CASE pc[r] = "data2"
    <3>1. seen[r] = meta /\ meta # None /\ data # None
      BY <2>4 DEF ReaderInv, EntryInv
    <3>2. \/ pc'[r] = "hit"
          \/ pc'[r] = "cond" /\ Expired(meta) /\ meta.ver \in Tagged
          \/ pc'[r] = "fetch" /\ Expired(meta) /\ meta.ver \notin Tagged
      <4> HIDE DEF Expired
      <4> QED BY <1>3, <2>4, <3>1 DEF OpenData, Serveable, TypeOK
    <3>3. UNCHANGED <<env, disk, pending, writer, seen>> /\ view'[r] = inode[data]
      BY <1>3, <2>4, <3>1 DEF OpenData, TypeOK
    <3>4. Stale(meta) \/ HoldsOnly(inode[data], meta.ver)
      BY <3>1 DEF EntryInv
    <3>5. LeaderKnows(r)' BY <2>4, <3>1, <3>2, <3>3, <3>4
    <3> QED BY <2>2, <3>5
  <2> QED BY <1>3, <2>3, <2>4 DEF OpenData
<1>4. ASSUME NEW r \in Requests, AcquireLock(r) PROVE LeaderInv'
  BY <1>4 DEF AcquireLock, LockIsFree, TypeOK, EntryInv, InodeInv, ReaderInv, LeaderInv, LeaderKnows, LeaderHoldsLock
<1>5. ASSUME NEW r \in Requests, Fetch(r) PROVE LeaderInv'
  <2>1. lock = r BY <1>5 DEF Fetch, LeaderHoldsLock
  <2>2. \A s \in Requests : s # r => LeaderKnows(s)'
    BY <1>5, <2>1, OthersKnowNothing DEF Fetch, Answered, TypeOK
  <2>9. LeaderKnows(r)'
    BY <1>5, <2>1, VersionsAreNat DEF Fetch, Answered, TypeOK, EntryInv
  <2> QED BY <2>2, <2>9
<1>6. ASSUME NEW r \in Requests, FetchIfChanged(r) PROVE LeaderInv'
  <2>1. lock = r BY <1>6 DEF FetchIfChanged, LeaderHoldsLock
  <2>2. \A s \in Requests : s # r => LeaderKnows(s)'
    BY <1>6, <2>1, OthersKnowNothing DEF FetchIfChanged, Answered, TypeOK
  <2>3. /\ pc[r] = "cond" /\ meta # None /\ seen[r] = meta /\ Expired(meta)
        /\ meta.ver \in Tagged
        /\ meta.ver < origin \/ HoldsOnly(view[r], meta.ver)
        /\ meta.ver <= origin /\ (Stale(meta) \/ Intact(meta, data))
    BY <1>6 DEF FetchIfChanged, EntryInv
  <2>4. meta.ver \in Int /\ origin \in Int /\ origin \in Versions
    BY <2>3, MetaFields, ClockIsNat DEF TypeOK
  <2>5. CASE origin # seen[r].ver
    <3>1. Stale(meta) /\ meta.ver <= origin BY <2>3, <2>4, <2>5
    <3> QED BY <1>6, <2>2, <2>4, <2>5, <3>1 DEF FetchIfChanged, Answered, TypeOK
  <2>6. CASE origin = seen[r].ver
    <3>1. HoldsOnly(view[r], meta.ver) /\ Intact(meta, data)
      BY <2>3, <2>4, <2>6
    <3>2. UNCHANGED <<env, disk, lock, cached, pending, writer>> /\ pc' = [pc EXCEPT ![r] = "rdttl"]
      BY <1>6, <2>6 DEF FetchIfChanged
    <3> QED BY <2>2, <2>3, <3>1, <3>2 DEF TypeOK
  <2> QED BY <2>5, <2>6
<1>7. ASSUME NEW r \in Requests, BeginWrite(r) PROVE LeaderInv'
  <2>1. lock = r BY <1>7 DEF BeginWrite, LeaderHoldsLock
  <2>2. \A s \in Requests : s # r => LeaderKnows(s)'
    BY <1>7, <2>1, OthersKnowNothing DEF BeginWrite, CreateTmp, TypeOK
  <2>9. LeaderKnows(r)'
    BY <1>7, <2>1, LengthBound DEF BeginWrite, CreateTmp, TypeOK, InodeInv
  <2> QED BY <2>2, <2>9
<1>8. ASSUME NEW r \in Requests, WriteChunk(r) PROVE LeaderInv'
  <2>1. lock = r BY <1>8 DEF WriteChunk, LeaderHoldsLock
  <2>2. \A s \in Requests : s # r => LeaderKnows(s)'
    BY <1>8, <2>1, OthersKnowNothing DEF WriteChunk, MoreToCome, TypeOK
  <2>9. LeaderKnows(r)'
    BY <1>8, <2>1, LengthBound DEF WriteChunk, MoreToCome, TypeOK
  <2> QED BY <2>2, <2>9
<1>9. ASSUME NEW r \in Requests, LandWrite(r) PROVE LeaderInv'
  <2>1. /\ UNCHANGED <<env, metas, data, tmp, pc, cached, pending, reply, fd, sent>>
        /\ flight[r] = "busy" /\ flight' = [flight EXCEPT ![r] = "idle"]
    BY <1>9 DEF LandWrite
  <2>2. meta # None /\ Intact(meta, data) => Intact(meta, data)'
    BY <1>9, LandIntact DEF EntryInv
  <2> HIDE DEF Intact
  <2> QED BY <2>1, <2>2 DEF TypeOK
<1>10. ASSUME NEW r \in Requests, EndStream(r) PROVE LeaderInv'
  <2>1. lock = r BY <1>10 DEF EndStream, LeaderHoldsLock
  <2>2. \A s \in Requests : s # r => LeaderKnows(s)'
    BY <1>10, <2>1, OthersKnowNothing DEF EndStream, MoreToCome, TypeOK
  <2>3. WriterInv(r) /\ fd[r] # None /\ fd[r] = tmp /\ sent[r] <= Length[reply[r]]
    BY <1>10 DEF EndStream
  <2>4. sent[r] = Length[reply[r]]
    <3>1. reply[r] \in Versions /\ ~(sent[r] < Length[reply[r]])
      BY <1>10, <2>3 DEF EndStream, MoreToCome
    <3>2. sent[r] \in Int /\ Length[reply[r]] \in Int
      BY <3>1, LengthBound DEF TypeOK
    <3> QED BY <2>3, <3>1, <3>2
  <2>9. LeaderKnows(r)'
    BY <1>10, <2>3, <2>4 DEF EndStream, TypeOK
  <2> QED BY <2>2, <2>9
<1>11. ASSUME NEW r \in Requests, RenameData(r) PROVE LeaderInv'
  <2>1. lock = r BY <1>11 DEF RenameData, LeaderHoldsLock
  <2>2. \A s \in Requests : s # r => LeaderKnows(s)'
    BY <1>11, <2>1, OthersKnowNothing DEF RenameData, MoveData, TypeOK
  <2>3. CASE tmp = None
    BY <1>11, <2>2, <2>3 DEF RenameData, TypeOK
  <2>4. CASE tmp # None
    <3>1. PICK ttl \in TTLs : pending' = [pending EXCEPT ![r] =
            [ver |-> reply[r], len |-> sent[r], exp |-> now + ttl]]
      BY <1>11, <2>4 DEF RenameData
    <3>2. /\ pc' = [pc EXCEPT ![r] = "wrmeta"] /\ data' = tmp
          /\ UNCHANGED <<now, origin, meta, tmpMeta, writer>>
      BY <1>11, <2>4 DEF RenameData, MoveData
    <3>3. /\ WriterInv(r) /\ fd[r] # None /\ fd[r] = tmp
          /\ sent[r] = Length[reply[r]] /\ pc[r] = "mvdata"
      BY <1>11 DEF RenameData
    <3>4. meta # None => now + ttl >= meta.exp
      BY <3>3, MetaFields, ClockIsNat, OriginAssumption DEF TypeOK
    <3>5. pending'[r] # None
      <4>1. [ver |-> reply[r], len |-> sent[r], exp |-> now + ttl] \in Metas
        BY <3>3, CommittedMeta, ClockIsNat DEF TypeOK
      <4> QED BY <3>1, <4>1 DEF TypeOK
    <3>6. LeaderKnows(r)'
      BY <3>1, <3>2, <3>3, <3>4, <3>5 DEF TypeOK
    <3> QED BY <2>2, <3>6
  <2> QED BY <2>3, <2>4
<1>12. ASSUME NEW r \in Requests, ReadForRefresh(r) PROVE LeaderInv'
  <2>1. lock = r BY <1>12 DEF ReadForRefresh, LeaderHoldsLock
  <2>2. \A s \in Requests : s # r => LeaderKnows(s)'
    BY <1>12, <2>1, OthersKnowNothing DEF ReadForRefresh, TypeOK
  <2>3. /\ pc[r] = "rdttl" /\ meta # None /\ Expired(meta) /\ Intact(meta, data)
        /\ seen[r].ver = meta.ver /\ HoldsOnly(view[r], meta.ver) /\ fd[r] = None
    BY <1>12 DEF ReadForRefresh, InodeInv
  <2>4. PICK ttl \in TTLs :
          pending' = [pending EXCEPT ![r] = [meta EXCEPT !.exp = now + ttl]]
    BY <1>12, <2>3 DEF ReadForRefresh
  <2>5. /\ pc' = [pc EXCEPT ![r] = "wrmeta"] /\ UNCHANGED <<env, disk, cached, writer>>
    BY <1>12, <2>3 DEF ReadForRefresh
  <2>6. now + ttl >= meta.exp
    BY <2>3, MetaFields, ClockIsNat, OriginAssumption DEF TypeOK
  <2>7. /\ pending'[r] \in Metas /\ pending'[r] # None
        /\ pending'[r].ver = meta.ver /\ pending'[r].len = meta.len
        /\ pending'[r].exp = now + ttl
    <3>1. [meta EXCEPT !.exp = now + ttl] \in Metas
      BY <2>3, RefreshedMeta, ClockIsNat DEF TypeOK
    <3>2. pending'[r] = [meta EXCEPT !.exp = now + ttl] BY <2>4 DEF TypeOK
    <3> QED BY <2>3, <3>1, <3>2 DEF Metas, TypeOK
  <2> HIDE DEF Intact, HoldsOnly
  <2>8. LeaderKnows(r)'
    <3>1. Intact(meta, data)' BY <2>3, <2>5 DEF Intact, Settled, Whole, HoldsOnly
    <3>2. HoldsOnly(view[r], meta.ver)' BY <2>3, <2>5 DEF HoldsOnly
    <3> QED BY <2>3, <2>5, <2>6, <2>7, <3>1, <3>2 DEF TypeOK
  <2> QED BY <2>2, <2>8
<1>13. ASSUME NEW r \in Requests, WriteMeta(r) PROVE LeaderInv'
  BY <1>13 DEF WriteMeta, PutMeta, TypeOK, EntryInv, InodeInv, ReaderInv, LeaderInv, LeaderKnows, LeaderHoldsLock
<1>14. ASSUME NEW r \in Requests, RenameMeta(r) PROVE LeaderInv'
  BY <1>14 DEF RenameMeta, MoveMeta, TypeOK, EntryInv, InodeInv, ReaderInv, LeaderInv, LeaderKnows, LeaderHoldsLock
<1>15. ASSUME NEW r \in Requests, WriteError(r) PROVE LeaderInv'
  BY <1>15 DEF WriteError, PutMeta, TypeOK, EntryInv, InodeInv, ReaderInv, LeaderInv, LeaderKnows, LeaderHoldsLock
<1>16. ASSUME NEW r \in Requests, LoseWrite(r) PROVE LeaderInv'
  BY <1>16 DEF LoseWrite, TypeOK, EntryInv, InodeInv, ReaderInv, LeaderInv, LeaderKnows, LeaderHoldsLock
<1>17. ASSUME NEW r \in Requests, OriginError(r) PROVE LeaderInv'
  BY <1>17 DEF OriginError, TypeOK, EntryInv, InodeInv, ReaderInv, LeaderInv, LeaderKnows, LeaderHoldsLock
<1>18. ASSUME NEW i \in Instances, Crash(i) PROVE LeaderInv'
  <2>1. UNCHANGED <<env, disk, cached, pending, reply, sent>> BY <1>18 DEF Crash
  <2>2. ASSUME NEW s \in Requests, pc'[s] # "error"
        PROVE  pc'[s] = pc[s] /\ (pc[s] \in Active => fd'[s] = fd[s] /\ flight'[s] = flight[s])
    BY <1>18, <2>2 DEF Crash, TypeOK
  <2>3. ASSUME NEW s \in Requests, pc[s] \notin Begun PROVE flight'[s] = "idle"
    BY <1>18, <2>3 DEF Crash, TypeOK
  <2>4. ASSUME NEW s \in Requests, pc'[s] # "error", Refreshing(s)
        PROVE  Intact(meta, data)'
    <3>1. meta # None /\ Intact(meta, data) /\ lock = s /\ fd[s] = None
      BY <2>4 DEF LeaderHoldsLock, InodeInv
    <3>2. ~ \E r \in Requests : pc[r] \in Active /\ fd[r] = data /\ data # None
      <4> SUFFICES ASSUME NEW r \in Requests, pc[r] \in Active, fd[r] = data, data # None
                   PROVE  FALSE
        OBVIOUS
      <4>1. pc[r] \in Begun /\ pc[r] \in Leading
        BY DEF InodeInv, TypeOK, Labels
      <4> QED BY <3>1, <4>1 DEF LeaderHoldsLock
    <3> HIDE DEF Intact
    <3> QED BY <1>18, <3>1, <3>2, CrashIntact DEF EntryInv
  <2>5. meta' = meta /\ data' = data /\ (meta # None => (Stale(meta) => Stale(meta)'))
    BY <2>1
  <2> HIDE DEF Intact, Stale, HoldsOnly, Expired
  <2>6. \A s \in Requests : pc'[s] \in Leading => LeaderKnows(s)'
    <3> SUFFICES ASSUME NEW s \in Requests, pc'[s] \in Leading PROVE LeaderKnows(s)' OBVIOUS
    <3>1. pc'[s] = pc[s] /\ fd'[s] = fd[s] /\ flight'[s] = flight[s] BY <2>2 DEF Labels
    <3>2. Expired(meta)' = Expired(meta) BY <2>1 DEF Expired
    <3>3. HoldsOnly(view[s], meta.ver)' = HoldsOnly(view[s], meta.ver) BY <2>1 DEF HoldsOnly
    <3> QED BY <2>1, <2>4, <2>5, <3>1, <3>2, <3>3
  <2>7. \A s \in Requests : pc'[s] \notin Leading => LeaderKnows(s)'
    BY <2>1, <2>2, <2>3
  <2> QED BY <2>6, <2>7
<1>19. ASSUME Tick PROVE LeaderInv'
  BY <1>19, MetaFields, ClockIsNat DEF Tick, TypeOK
<1>20. ASSUME OriginChanges PROVE LeaderInv'
  <2>1. origin' = origin + 1 /\ UNCHANGED <<now, disk, pc, cached, pending, writer>>
    BY <1>20 DEF OriginChanges
  <2>2. meta # None /\ Stale(meta) => Stale(meta)'
    BY <2>1, MetaFields, ClockIsNat DEF TypeOK
  <2>3. meta # None => (meta.ver < origin => meta.ver < origin')
    BY <2>1, MetaFields, ClockIsNat DEF TypeOK
  <2>4. \A r \in Requests : reply[r] \in Versions /\ reply[r] <= origin => reply[r] <= origin'
    <3>1. origin \in Int /\ origin' = origin + 1 BY <2>1, ClockIsNat
    <3>2. \A v \in Versions : v \in Int BY VersionsAreNat
    <3> QED BY <3>1, <3>2
  <2>5. Intact(meta, data) => Intact(meta, data)'
    BY <2>1
  <2> HIDE DEF Stale, Intact
  <2> QED BY <2>1, <2>2, <2>3, <2>4, <2>5
<1> QED
  BY <1>0, NoOrphanSteps, <1>1, <1>2, <1>3, <1>4, <1>5, <1>6, <1>7, <1>8, <1>9, <1>10, <1>11, <1>12, <1>13, <1>14, <1>15, <1>16, <1>17, <1>18, <1>19, <1>20
     DEF Next, Serve, Fault
-----------------------------------------------------------------------------
LEMMA InitInv == Init => Inv
  BY InitType, InitLock, NoneAssumption, OriginAssumption, VersionsAreNat
     DEF Init, Inv, NoOrphans, EntryInv, InodeInv, ReaderInv, LeaderInv, LeaderKnows,
         Refreshing, Begun, Ended, Leading, DiskOps

LEMMA NextInv == Inv /\ ReliableReads /\ [Next]_vars => Inv'
<1> SUFFICES ASSUME Inv, ReliableReads, [Next]_vars PROVE Inv' OBVIOUS
<1>1. TypeOK' /\ Replied' /\ LeaderHoldsLock' BY NextType, NextLock DEF Inv
<1>2. NoOrphans'
  <2>1. \A r \in Requests : ~Cancel(r) /\ ~RunOrphan(r)
    BY NoOrphanSteps DEF Inv
  <2> QED
    BY <2>1 DEF Inv, NoOrphans, TypeOK, Next, Serve, Fault, vars, Arrive, ReadMeta, OpenData,
       AcquireLock, Fetch, FetchIfChanged, Answered, BeginWrite, WriteChunk, LandWrite,
       EndStream, RenameData, ReadForRefresh, WriteMeta, RenameMeta, ReadError, WriteError,
       LoseWrite, OriginError, Crash, Tick, OriginChanges
<1> QED BY <1>1, <1>2, NextInode, NextReader, NextEntry, NextLeader DEF Inv

LEMMA AlwaysInv == ASSUME ReliableReads PROVE Spec => []Inv
<1>1. Inv /\ [Next]_vars => Inv' BY NextInv
<1> QED BY <1>1, InitInv, PTL DEF Spec

LEMMA InvEntryIntact == Inv => EntryIntact
  BY DEF Inv, EntryInv, EntryIntact, Fresh, Stale, Intact

(* The entry on disk is coherent whenever it is servable: the bytes of .bin *)
(* are of the version .json describes, complete when written, although the  *)
(* two files are replaced one after the other, by processes that may die    *)
(* in between.                                                              *)
THEOREM CacheCoherent == ASSUME ReliableReads PROVE Spec => []EntryIntact
  BY AlwaysInv, InvEntryIntact, PTL

(* What a HIT or a 304 revalidation serves goes with its headers, although  *)
(* a HIT reads both files without the lock.                                 *)
THEOREM ServedCoherent == ASSUME ReliableReads PROVE Spec => []ServedMatchesHeaders
<1>1. Inv => ServedMatchesHeaders BY DEF Inv, ReaderInv, ServedMatchesHeaders
<1> QED BY <1>1, AlwaysInv, PTL

(* A leader contacts the origin only while no entry is fresh.               *)
THEOREM AskedOnlyWhenStale == ASSUME ReliableReads PROVE Spec => AsksOnlyWhenStale
<1>1. ASSUME Inv, [Next]_vars, NEW r \in Requests, AsksOrigin(r) PROVE ~Fresh
  BY <1>1 DEF Inv, LeaderInv, LeaderKnows, AsksOrigin, Fresh, Stale
<1>2. Inv /\ [Next]_vars => [\A r \in Requests : AsksOrigin(r) => ~Fresh]_vars
  BY <1>1
<1> QED BY <1>2, AlwaysInv, PTL DEF Spec, AsksOnlyWhenStale

(* Only the last step of a commit or a refresh replaces the metadata, and   *)
(* it puts what the leader prepared there.                                  *)
LEMMA MetaReplaced ==
  ASSUME Inv, ReliableReads, [Next]_vars, meta' # meta
  PROVE  \E r \in Requests : pc[r] = "mvmeta" /\ meta' = pending[r]
<1> USE DEF env, metas, bytes, disk, cached, writer, vars, Goto, Finish, Abort, DropWriter
<1>1. ASSUME NEW r \in Requests, ReadMeta(r) \/ OpenData(r) \/ AcquireLock(r) \/ Arrive(r)
      PROVE  meta' = meta
  BY <1>1 DEF Arrive, ReadMeta, OpenData, LookupMiss, AcquireLock
<1>2. ASSUME NEW r \in Requests, Fetch(r) \/ FetchIfChanged(r) \/ BeginWrite(r)
      PROVE  meta' = meta
  BY <1>2 DEF Fetch, FetchIfChanged, Answered, BeginWrite, CreateTmp
<1>3. ASSUME NEW r \in Requests,
             WriteChunk(r) \/ LandWrite(r) \/ EndStream(r) \/ RenameData(r)
      PROVE  meta' = meta
  BY <1>3 DEF WriteChunk, LandWrite, EndStream, RenameData, MoveData
<1>4. ASSUME NEW r \in Requests, ReadForRefresh(r) \/ WriteMeta(r)
      PROVE  meta' = meta
  BY <1>4 DEF ReadForRefresh, WriteMeta, PutMeta
<1>5. ASSUME NEW r \in Requests, WriteError(r) \/ LoseWrite(r) \/ OriginError(r)
      PROVE  meta' = meta
  BY <1>5 DEF WriteError, PutMeta, LoseWrite, OriginError
<1>6. (\E i \in Instances : Crash(i)) \/ Tick \/ OriginChanges => meta' = meta
  BY DEF Crash, Tick, OriginChanges
<1>7. PICK r \in Requests : RenameMeta(r)
  BY <1>1, <1>2, <1>3, <1>4, <1>5, <1>6, NoOrphanSteps DEF Inv, Next, Serve, Fault
<1> QED BY <1>7 DEF RenameMeta, MoveMeta, Inv, LeaderInv, LeaderKnows

(* The published metadata never goes back in version or in expiry.          *)
THEOREM NeverGoesBack == ASSUME ReliableReads PROVE Spec => NeverBackwards
<1>1. ASSUME Inv, [Next]_vars, meta # None, meta' # meta
      PROVE  meta'.ver >= meta.ver /\ meta'.exp >= meta.exp
  <2>1. PICK r \in Requests : pc[r] = "mvmeta" /\ meta' = pending[r]
    BY <1>1, MetaReplaced
  <2>2. pending[r].exp >= meta.exp
    BY <1>1, <2>1 DEF Inv, LeaderInv, LeaderKnows
  <2>3. meta.ver <= pending[r].ver
    <3>1. meta.ver \in Int BY <1>1, MetaFields DEF Inv, TypeOK
    <3>2. CASE fd[r] = None
      BY <1>1, <2>1, <3>1, <3>2 DEF Inv, LeaderInv, LeaderKnows, Refreshing
    <3>3. CASE fd[r] # None
      BY <1>1, <2>1, <3>3 DEF Inv, LeaderInv, LeaderKnows, WriterInv
    <3> QED BY <3>2, <3>3
  <2>4. meta.ver \in Int /\ pending[r].ver \in Int
    <3>1. pending[r] # None BY <1>1, <2>1 DEF Inv, LeaderInv, LeaderKnows
    <3> QED BY <1>1, <3>1, MetaFields DEF Inv, TypeOK
  <2> QED BY <2>1, <2>2, <2>3, <2>4
<1>2. Inv /\ [Next]_vars =>
        [(meta # None /\ meta' # meta) => meta'.ver >= meta.ver /\ meta'.exp >= meta.exp]_vars
  BY <1>1
<1> QED BY <1>2, AlwaysInv, PTL DEF Spec, NeverBackwards

-----------------------------------------------------------------------------
(* Cleaning up.  Without clients that leave, only the holder of the lock    *)
(* touches the temporary files, and it has moved .bin.tmp away before it    *)
(* writes the metadata; lookups may fail here.                              *)
StayingClients == "cancel" \notin Faults

TidyInv ==
  /\ TypeOK /\ Replied /\ NoOrphans /\ LeaderHoldsLock
  /\ \A r \in Requests :
       /\ pc[r] \notin Begun => fd[r] = None
       /\ pc[r] \in {"wrmeta", "mvmeta"} /\ fd[r] # None => tmp = None

LEMMA NoOrphanLeft ==
  ASSUME StayingClients, NoOrphans, NEW r \in Requests
  PROVE  ~Cancel(r) /\ ~RunOrphan(r)
  BY DEF StayingClients, NoOrphans, Cancel, RunOrphan

LEMMA InitTidy == Init => TidyInv
  BY InitType, InitLock DEF Init, TidyInv, NoOrphans, Begun, Ended

LEMMA NextTidy == TidyInv /\ StayingClients /\ [Next]_vars => TidyInv'
<1> SUFFICES ASSUME TidyInv, StayingClients, [Next]_vars PROVE TidyInv' OBVIOUS
<1> DEFINE Tidy == \A r \in Requests :
                     /\ pc[r] \notin Begun => fd[r] = None
                     /\ pc[r] \in {"wrmeta", "mvmeta"} /\ fd[r] # None => tmp = None
<1>0. TypeOK /\ NoOrphans /\ LeaderHoldsLock /\ Tidy /\ \A r \in Requests : ~Cancel(r) /\ ~RunOrphan(r)
  BY NoOrphanLeft DEF TidyInv
<1>1. TypeOK' /\ Replied' /\ LeaderHoldsLock' BY NextType, NextLock DEF TidyInv
<1>2. NoOrphans'
  BY <1>0 DEF NoOrphans, TypeOK, Next, Serve, Fault, vars, Arrive, ReadMeta, OpenData,
     AcquireLock, Fetch, FetchIfChanged, Answered, BeginWrite, WriteChunk, LandWrite,
     EndStream, RenameData, ReadForRefresh, WriteMeta, RenameMeta, ReadError, WriteError,
     LoseWrite, OriginError, Crash, Tick, OriginChanges
<1>3. \A r, s \in Requests : pc[r] \in Leading /\ pc[s] \in Leading => r = s BY <1>0 DEF LeaderHoldsLock
<1>4. Tidy'
  <2> USE NoneAssumption
      DEF env, metas, bytes, disk, cached, writer, vars, TypeOK, Begun, Leading, DiskOps, Ended, Active,
          Goto, Finish, Abort, DropWriter
  <2>0. CASE UNCHANGED vars BY <1>0, <2>0
  <2>1. ASSUME NEW r \in Requests, Arrive(r) PROVE Tidy' BY <1>0, <2>1 DEF Arrive
  <2>2. ASSUME NEW r \in Requests, ReadMeta(r) PROVE Tidy' BY <1>0, <2>2 DEF ReadMeta, LookupMiss
  <2>3. ASSUME NEW r \in Requests, OpenData(r) PROVE Tidy' BY <1>0, <2>3 DEF OpenData, LookupMiss
  <2>4. ASSUME NEW r \in Requests, AcquireLock(r) PROVE Tidy' BY <1>0, <2>4 DEF AcquireLock
  <2>5. ASSUME NEW r \in Requests, Fetch(r) PROVE Tidy' BY <1>0, <2>5 DEF Fetch, Answered
  <2>6. ASSUME NEW r \in Requests, FetchIfChanged(r) PROVE Tidy' BY <1>0, <2>6 DEF FetchIfChanged, Answered
  <2>7. ASSUME NEW r \in Requests, BeginWrite(r) PROVE Tidy' BY <1>0, <1>3, <2>7 DEF BeginWrite, CreateTmp
  <2>8. ASSUME NEW r \in Requests, WriteChunk(r) PROVE Tidy' BY <1>0, <1>3, <2>8 DEF WriteChunk
  <2>9. ASSUME NEW r \in Requests, LandWrite(r) PROVE Tidy' BY <1>0, <2>9 DEF LandWrite
  <2>10. ASSUME NEW r \in Requests, EndStream(r) PROVE Tidy' BY <1>0, <2>10 DEF EndStream
  <2>11. ASSUME NEW r \in Requests, RenameData(r) PROVE Tidy' BY <1>0, <1>3, <2>11 DEF RenameData, MoveData
  <2>12. ASSUME NEW r \in Requests, ReadForRefresh(r) PROVE Tidy' BY <1>0, <2>12 DEF ReadForRefresh
  <2>13. ASSUME NEW r \in Requests, WriteMeta(r) PROVE Tidy' BY <1>0, <2>13 DEF WriteMeta, PutMeta
  <2>14. ASSUME NEW r \in Requests, RenameMeta(r) PROVE Tidy' BY <1>0, <2>14 DEF RenameMeta, MoveMeta
  <2>15. ASSUME NEW r \in Requests, WriteError(r) PROVE Tidy' BY <1>0, <2>15 DEF WriteError, PutMeta
  <2>16. ASSUME NEW r \in Requests, LoseWrite(r) PROVE Tidy' BY <1>0, <2>16 DEF LoseWrite
  <2>17. ASSUME NEW r \in Requests, OriginError(r) PROVE Tidy' BY <1>0, <2>17 DEF OriginError
  <2>18. ASSUME NEW r \in Requests, ReadError(r) PROVE Tidy' BY <1>0, <2>18 DEF ReadError, LookupMiss
  <2>19. ASSUME NEW i \in Instances, Crash(i) PROVE Tidy' BY <1>0, <2>19 DEF Crash
  <2>20. CASE Tick \/ OriginChanges BY <1>0, <2>20 DEF Tick, OriginChanges
  <2> QED
    BY <1>0, <2>0, <2>1, <2>2, <2>3, <2>4, <2>5, <2>6, <2>7, <2>8, <2>9, <2>10, <2>11, <2>12, <2>13, <2>14,
       <2>15, <2>16, <2>17, <2>18, <2>19, <2>20
    DEF Next, Serve, Fault
<1> QED BY <1>1, <1>2, <1>4 DEF TidyInv

(* A writer that loses the lock leaves no temporary file, however it ends.  *)
LEMMA TidyStep ==
  ASSUME TidyInv, StayingClients, [Next]_vars, NEW w \in Requests,
         lock = w, lock' # w, fd[w] # None, ~ \E i \in Instances : Crash(i)
  PROVE  tmp' = None /\ tmpMeta' = None
<1> USE NoneAssumption
    DEF env, metas, bytes, disk, cached, writer, vars, Goto, Finish, Abort, DropWriter
<1>0. pc[w] \in Begun /\ \A r \in Requests : ~Cancel(r) /\ ~RunOrphan(r) /\ (pc[r] \in Leading => r = w)
  BY NoOrphanLeft DEF TidyInv, LeaderHoldsLock
<1>1. ASSUME NEW r \in Requests, Arrive(r) \/ ReadMeta(r) \/ OpenData(r) \/ AcquireLock(r) PROVE FALSE
  BY <1>0, <1>1 DEF Arrive, ReadMeta, OpenData, AcquireLock, LookupMiss, LockIsFree, Begun, Ended, Leading
<1>2. ASSUME NEW r \in Requests, Fetch(r) \/ FetchIfChanged(r) \/ BeginWrite(r) PROVE FALSE
  BY <1>2 DEF Fetch, FetchIfChanged, Answered, BeginWrite
<1>3. ASSUME NEW r \in Requests, WriteChunk(r) \/ LandWrite(r) \/ EndStream(r) PROVE tmp' = None /\ tmpMeta' = None
  BY <1>3 DEF WriteChunk, LandWrite, EndStream
<1>4. ASSUME NEW r \in Requests, RenameData(r) \/ ReadForRefresh(r) \/ WriteMeta(r)
      PROVE  tmp' = None /\ tmpMeta' = None
  BY <1>4 DEF RenameData, ReadForRefresh, WriteMeta
<1>5. ASSUME NEW r \in Requests, RenameMeta(r) PROVE tmp' = None /\ tmpMeta' = None
  BY <1>0, <1>5 DEF RenameMeta, MoveMeta, TidyInv, Leading, DiskOps
<1>6. ASSUME NEW r \in Requests, WriteError(r) \/ OriginError(r) PROVE tmp' = None /\ tmpMeta' = None
  BY <1>6 DEF WriteError, OriginError
<1>7. ASSUME NEW r \in Requests, ReadError(r) \/ LoseWrite(r) PROVE FALSE
  BY <1>7 DEF ReadError, LookupMiss, LoseWrite
<1>8. CASE Tick \/ OriginChanges \/ UNCHANGED vars BY <1>8 DEF Tick, OriginChanges
<1> QED BY <1>0, <1>1, <1>2, <1>3, <1>4, <1>5, <1>6, <1>7, <1>8 DEF Next, Serve, Fault

(* Whatever fails, short of the process itself, a download that began to    *)
(* write leaves neither .json.tmp nor .bin.tmp to the next leader.          *)
THEOREM LeavesNoTemporaries == ASSUME StayingClients PROVE Spec => CleansUp
<1>1. TidyInv /\ [Next]_vars => TidyInv' BY NextTidy
<1>2. TidyInv /\ [Next]_vars =>
        [\A r \in Requests : (lock = r /\ lock' # r /\ fd[r] # None)
           => \/ tmp' = None /\ tmpMeta' = None
              \/ \E i \in Instances : Crash(i)]_vars
  BY TidyStep
<1> QED BY <1>1, <1>2, InitTidy, PTL DEF Spec, CleansUp

=============================================================================
