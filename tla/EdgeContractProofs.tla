------------------------- MODULE EdgeContractProofs -------------------------
(* EdgeCache implements CacheContract, for every number of requests,       *)
(* processes, versions and chunks, under the hypotheses of its invariant.  *)
EXTENDS EdgeCacheProofs

Same(s)  == pc'[s] = pc[s] /\ seen'[s] = seen[s] /\ view'[s] = view[s] /\ reply'[s] = reply[s]
Going(s) == pc[s] \notin Ended /\ pc'[s] \notin Ended
Still    == now' = now /\ meta' = meta

(* What a step does to the requests it does not end.                       *)
LEMMA KeptAnswer ==
  ASSUME NEW s \in Requests, Same(s) \/ Going(s)
  PROVE  AnswerOf(s)' = AnswerOf(s)
<1>1. CASE Same(s) BY <1>1 DEF Same, AnswerOf, HoldsOnly
<1>2. CASE Going(s) BY <1>2 DEF Going, AnswerOf, Ended
<1> QED BY <1>1, <1>2

LEMMA WaitingAnswer ==
  ASSUME NEW s \in Requests, pc[s] \notin Ended
  PROVE  AnswerOf(s) = Contract!Waiting
  BY DEF AnswerOf, Ended, Contract!Waiting

LEMMA ServedFromCache ==
  ASSUME NEW s \in Requests, NEW v, pc'[s] \in {"hit", "revalidated"},
         HoldsOnly(view[s], seen[s].ver)', seen'[s].ver = v
  PROVE  AnswerOf(s)' = Contract!Served(v)
  BY DEF AnswerOf, Contract!Served, Ended

LEMMA ServedFromOrigin ==
  ASSUME NEW s \in Requests, NEW v, pc'[s] = "streamed", reply'[s] = v
  PROVE  AnswerOf(s)' = Contract!Served(v)
  BY DEF AnswerOf, Contract!Served, Ended

LEMMA StutterStep ==
  ASSUME Still, \A s \in Requests : Same(s) \/ Going(s)
  PROVE  UNCHANGED Contract!vars
<1>1. \A s \in Requests : AnswerOf(s)' = AnswerOf(s) BY KeptAnswer
<1> QED BY <1>1 DEF Still, Contract!vars

LEMMA FailStep ==
  ASSUME Still, NEW S \in SUBSET Requests,
         \A s \in S : pc[s] \notin Ended /\ pc'[s] = "error",
         \A s \in Requests \ S : Same(s) \/ Going(s)
  PROVE  Contract!Fail(S)
<1>1. \A s \in Requests \ S : AnswerOf(s)' = AnswerOf(s) BY KeptAnswer
<1>2. \A s \in S : AnswerOf(s) = Contract!Waiting BY WaitingAnswer
<1>3. \A s \in S : AnswerOf(s)' = Contract!Failed BY DEF AnswerOf, Contract!Failed, Ended
<1> QED BY <1>1, <1>2, <1>3 DEF Still, Contract!Fail

(* The step of one request that goes on, or that fails.                    *)
LEMMA OneGoesOn ==
  ASSUME Still, NEW r \in Requests, Going(r), \A s \in Requests \ {r} : Same(s)
  PROVE  UNCHANGED Contract!vars
  BY StutterStep

LEMMA OneFails ==
  ASSUME Still, NEW r \in Requests, pc[r] \notin Ended, pc'[r] = "error",
         \A s \in Requests \ {r} : Same(s)
  PROVE  \E S \in SUBSET Requests : Contract!Fail(S)
<1>1. {r} \in SUBSET Requests /\ \A s \in {r} : s = r OBVIOUS
<1>2. Contract!Fail({r}) BY <1>1, FailStep
<1> QED BY <1>1, <1>2

-----------------------------------------------------------------------------
(* A HIT reads both files without the lock, and yet what it answers is the *)
(* entry of the step that ends it.                                         *)
LEMMA HitStep ==
  ASSUME Inv, Inv', NEW r \in Requests, OpenData(r), pc'[r] = "hit"
  PROVE  Contract!Hit(r)
<1>1. /\ pc[r] \in {"data1", "data2"} /\ Serveable(r) /\ Finish(r, "hit") /\ Still
      /\ UNCHANGED <<seen, reply>> /\ \E v \in Contents : view' = [view EXCEPT ![r] = v]
  BY DEF OpenData, LookupMiss, Finish, Goto, Inv, TypeOK, env, disk, metas, writer, Still
<1>2. seen[r] = meta /\ meta # None /\ now < meta.exp
  <2>1. seen[r] # None /\ (seen[r] = meta \/ Expired(seen[r])) BY <1>1 DEF Inv, ReaderInv
  <2>2. seen[r] = meta /\ meta # None BY <1>1, <2>1 DEF Serveable
  <2>3. now \in Int /\ meta.exp \in Int BY <2>2, MetaFields, ClockIsNat DEF Inv, TypeOK
  <2> QED BY <1>1, <2>2, <2>3 DEF Serveable, Expired
<1>3. pc'[r] = "hit" /\ \A s \in Requests \ {r} : Same(s)
  BY <1>1 DEF Finish, Goto, Same, Inv, TypeOK
<1>4. \A s \in Requests \ {r} : AnswerOf(s)' = AnswerOf(s) BY <1>3, KeptAnswer
<1>5. AnswerOf(r) = Contract!Waiting BY <1>1, WaitingAnswer DEF Ended
<1>6. AnswerOf(r)' = Contract!Served(meta.ver)
  <2>1. HoldsOnly(view[r], seen[r].ver)' BY <1>3 DEF Inv, ReaderInv
  <2> QED BY <1>1, <1>2, <1>3, <2>1, ServedFromCache
<1>7. Contract!Answer(r, Contract!Served(meta.ver)) BY <1>4, <1>5, <1>6 DEF Contract!Answer
<1> DEFINE e == [ver |-> meta.ver, exp |-> meta.exp]
<1>8. e \in {[ver |-> m.ver, exp |-> m.exp] : m \in {meta} \ {None}} BY <1>2
<1>9. now < e.exp /\ e.ver = meta.ver BY <1>2
<1>10. UNCHANGED <<now, {[ver |-> m.ver, exp |-> m.exp] : m \in {meta} \ {None}}>>
  BY <1>1 DEF Still
<1> QED BY <1>7, <1>8, <1>9, <1>10 DEF Contract!Hit

(* The rename of .json is the step that replaces the entry: until then it  *)
(* is not valid, although .bin may be another one already.                 *)
LEMMA RenewStep ==
  ASSUME Inv, Inv', NEW r \in Requests, RenameMeta(r), tmpMeta # None
  PROVE  Contract!Renew(r)
<1>1. /\ pc[r] = "mvmeta" /\ meta' = pending[r] /\ pending[r] # None
      /\ pc' = [pc EXCEPT ![r] = IF fd[r] = None THEN "revalidated" ELSE "streamed"]
      /\ UNCHANGED <<now, seen, view, reply>>
  BY DEF RenameMeta, MoveMeta, Finish, Abort, Goto, Inv, LeaderInv, LeaderKnows, env, cached, writer
<1>2. meta # None => /\ now >= meta.exp /\ meta.ver <= pending[r].ver
                     /\ meta.exp <= pending[r].exp
  <2>1. meta # None => meta.ver \in Int /\ meta.exp \in Int /\ pending[r].exp \in Int
    BY <1>1, MetaFields DEF Inv, TypeOK
  <2>2. CASE fd[r] = None
    BY <1>1, <2>1, <2>2 DEF Inv, LeaderInv, LeaderKnows, Refreshing, Expired
  <2>3. CASE fd[r] # None
    BY <1>1, <2>1, <2>3 DEF Inv, LeaderInv, LeaderKnows, WriterInv, Stale, Expired
  <2> QED BY <2>2, <2>3
<1>3. pc'[r] = (IF fd[r] = None THEN "revalidated" ELSE "streamed")
      /\ \A s \in Requests \ {r} : Same(s)
  BY <1>1 DEF Same, Inv, TypeOK
<1>4. \A s \in Requests \ {r} : AnswerOf(s)' = AnswerOf(s) BY <1>3, KeptAnswer
<1>5. AnswerOf(r) = Contract!Waiting BY <1>1, WaitingAnswer DEF Ended
<1>6. AnswerOf(r)' = Contract!Served(pending[r].ver)
  <2>1. CASE fd[r] = None
    <3>1. seen[r].ver = pending[r].ver /\ HoldsOnly(view[r], seen[r].ver)
      BY <1>1, <2>1 DEF Inv, LeaderInv, LeaderKnows, Refreshing
    <3>2. HoldsOnly(view[r], seen[r].ver)' BY <1>1, <3>1 DEF HoldsOnly
    <3> QED BY <1>1, <1>3, <2>1, <3>1, <3>2, ServedFromCache
  <2>2. CASE fd[r] # None
    <3>1. reply[r] = pending[r].ver BY <1>1, <2>2 DEF Inv, LeaderInv, LeaderKnows
    <3> QED BY <1>1, <1>3, <2>2, <3>1, ServedFromOrigin
  <2> QED BY <2>1, <2>2
<1> DEFINE Entry == {[ver |-> m.ver, exp |-> m.exp] : m \in {meta} \ {None}}
           e     == [ver |-> pending[r].ver, exp |-> pending[r].exp]
<1>7. Entry' = {e} BY <1>1
<1>8. \A old \in Entry : meta # None /\ old.ver = meta.ver /\ old.exp = meta.exp OBVIOUS
<1>9. ~Contract!Valid
  <2>1. meta # None => now \in Int /\ meta.exp \in Int
    BY MetaFields, ClockIsNat DEF Inv, TypeOK
  <2> QED BY <1>2, <2>1 DEF Contract!Valid
<1>10. \A old \in Entry : old.ver <= e.ver /\ old.exp <= e.exp BY <1>2, <1>8
<1>11. Contract!Answer(r, Contract!Served(e.ver)) BY <1>4, <1>5, <1>6 DEF Contract!Answer
<1> HIDE DEF e
<1>12. e \in Entry' BY <1>7
<1> QED BY <1>1, <1>7, <1>9, <1>10, <1>11, <1>12 DEF Contract!Renew

-----------------------------------------------------------------------------
(* Every other step of a request is invisible to the contract, or fails it.*)
Ok(r) == \/ UNCHANGED Contract!vars
         \/ \E S \in SUBSET Requests : Contract!Fail(S)

LEMMA AbortStep ==
  ASSUME TypeOK, NEW r \in Requests, pc[r] \notin Ended, Finish(r, "error"),
         UNCHANGED <<now, meta, cached, reply>>
  PROVE  Ok(r)
<1>1. pc'[r] = "error" /\ \A s \in Requests \ {r} : Same(s)
  BY DEF Finish, Goto, TypeOK, Same, cached
<1> QED BY <1>1, OneFails DEF Ok, Still

(* A step of one request to the label l.                                   *)
LEMMA MoveStep ==
  ASSUME TypeOK, NEW r \in Requests, NEW l, l \notin Ended, pc[r] \notin Ended, Goto(r, l),
         UNCHANGED <<now, meta>>,
         \A s \in Requests \ {r} : seen'[s] = seen[s] /\ view'[s] = view[s] /\ reply'[s] = reply[s]
  PROVE  Ok(r)
<1>1. pc'[r] = l /\ \A s \in Requests \ {r} : pc'[s] = pc[s] BY DEF Goto, TypeOK
<1> QED BY <1>1, OneGoesOn DEF Ok, Still, Going, Same

LEMMA LookupStep ==
  ASSUME TypeOK, NEW r \in Requests,
         Arrive(r) \/ ReadMeta(r) \/ (OpenData(r) /\ pc'[r] # "hit") \/ AcquireLock(r)
  PROVE  Ok(r)
<1> USE DEF env, metas, bytes, disk, cached, writer
<1>1. PICK l \in {"meta1", "data1", "data2", "lock", "fetch", "cond", "meta2"} :
        Goto(r, l) /\ pc[r] \notin Ended
  BY DEF Arrive, ReadMeta, OpenData, LookupMiss, Finish, AcquireLock, Ended, Goto, TypeOK
<1>2. /\ UNCHANGED <<now, meta, reply>>
      /\ \A s \in Requests \ {r} : seen'[s] = seen[s] /\ view'[s] = view[s]
  BY DEF Arrive, ReadMeta, OpenData, LookupMiss, AcquireLock, TypeOK
<1>3. l \notin Ended BY DEF Ended
<1> QED BY <1>1, <1>2, <1>3, MoveStep

LEMMA FetchStep ==
  ASSUME TypeOK, NEW r \in Requests,
         Fetch(r) \/ FetchIfChanged(r) \/ BeginWrite(r) \/ EndStream(r) \/ WriteMeta(r)
  PROVE  Ok(r)
<1> USE DEF env, metas, bytes, disk, cached, writer
<1>1. PICK l \in {"create", "rdttl", "stream", "mvdata", "mvmeta"} :
        Goto(r, l) /\ pc[r] \notin Ended
  BY DEF Fetch, FetchIfChanged, Answered, BeginWrite, EndStream, WriteMeta, Ended
<1>2. /\ UNCHANGED <<now, meta, seen, view>>
      /\ \A s \in Requests \ {r} : reply'[s] = reply[s]
  BY DEF Fetch, FetchIfChanged, Answered, BeginWrite, CreateTmp, EndStream, WriteMeta, PutMeta, TypeOK
<1>3. l \notin Ended BY DEF Ended
<1> QED BY <1>1, <1>2, <1>3, MoveStep

LEMMA CommitStep ==
  ASSUME TypeOK, NEW r \in Requests,
         WriteChunk(r) \/ LandWrite(r) \/ RenameData(r) \/ ReadForRefresh(r)
           \/ (RenameMeta(r) /\ tmpMeta = None)
  PROVE  Ok(r)
<1> USE DEF env, metas, bytes, disk, cached, writer
<1>1. UNCHANGED <<now, meta, seen, view, reply>>
  BY DEF WriteChunk, LandWrite, RenameData, MoveData, ReadForRefresh, RenameMeta, Abort, DropWriter
<1>2. CASE UNCHANGED pc
  <2>1. \A s \in Requests : Same(s) BY <1>1, <1>2 DEF Same
  <2> QED BY <1>1, <2>1, StutterStep DEF Ok, Still
<1>3. CASE Goto(r, "wrmeta") /\ pc[r] \notin Ended
  BY <1>1, <1>3, MoveStep DEF Ended
<1>4. CASE Finish(r, "error") /\ pc[r] \notin Ended
  BY <1>1, <1>4, AbortStep
<1> QED
  BY <1>2, <1>3, <1>4
     DEF WriteChunk, LandWrite, RenameData, ReadForRefresh, RenameMeta, Abort, Ended

LEMMA FaultStep ==
  ASSUME TypeOK, NEW r \in Requests, WriteError(r) \/ LoseWrite(r) \/ OriginError(r)
  PROVE  Ok(r)
<1> USE DEF env, metas, bytes, disk, cached, writer
<1>1. UNCHANGED <<now, meta, seen, view, reply>>
  BY DEF WriteError, LoseWrite, OriginError, Abort, DropWriter, PutMeta
<1>2. CASE UNCHANGED pc
  <2>1. \A s \in Requests : Same(s) BY <1>1, <1>2 DEF Same
  <2> QED BY <1>1, <2>1, StutterStep DEF Ok, Still
<1>3. CASE Finish(r, "error") /\ pc[r] \notin Ended
  BY <1>1, <1>3, AbortStep
<1> QED BY <1>2, <1>3 DEF WriteError, LoseWrite, OriginError, Abort, Ended, DiskOps

LEMMA CrashStep ==
  ASSUME NEW i \in Instances, Crash(i)
  PROVE  \E S \in SUBSET Requests : Contract!Fail(S)
<1> DEFINE S == {r \in Requests : Home[r] = i /\ pc[r] \in Active}
<1>1. \A s \in S : pc[s] \notin Ended /\ pc'[s] = "error" BY DEF Crash, Active
<1>2. Still /\ \A s \in Requests \ S : Same(s)
  BY DEF Crash, Still, Same, env, disk, metas, cached
<1>3. Contract!Fail(S) BY <1>1, <1>2, FailStep
<1> QED BY <1>3

-----------------------------------------------------------------------------
LEMMA ContractInit == Init => Contract!Init
<1> SUFFICES ASSUME Init PROVE Contract!Init OBVIOUS
<1>1. \A r \in Requests : AnswerOf(r) = Contract!Waiting BY WaitingAnswer DEF Init, Ended
<1> QED BY <1>1 DEF Init, Contract!Init

LEMMA ContractNext == Inv /\ Inv' /\ ReliableReads /\ [Next]_vars => [Contract!Next]_Contract!vars
<1> SUFFICES ASSUME Inv, Inv', ReliableReads, [Next]_vars
             PROVE  [Contract!Next]_Contract!vars
  OBVIOUS
<1>0. TypeOK BY DEF Inv
<1>1. CASE UNCHANGED vars
  <2>1. Still /\ \A s \in Requests : Same(s)
    BY <1>1 DEF vars, env, disk, metas, cached, writer, Still, Same
  <2> QED BY <2>1, StutterStep
<1>2. ASSUME NEW r \in Requests, Arrive(r) \/ Serve(r) \/ Fault(r)
      PROVE  [Contract!Next]_Contract!vars
  <2>1. CASE Ok(r) BY <2>1 DEF Ok, Contract!Next
  <2>2. CASE OpenData(r) /\ pc'[r] = "hit" BY <2>2, HitStep DEF Contract!Next
  <2>3. CASE RenameMeta(r) /\ tmpMeta # None BY <2>3, RenewStep DEF Contract!Next
  <2>4. ~ReadError(r) /\ ~Cancel(r) /\ ~RunOrphan(r) BY NoOrphanSteps DEF Inv
  <2> QED
    BY <1>0, <1>2, <2>1, <2>2, <2>3, <2>4, LookupStep, FetchStep, CommitStep, FaultStep
       DEF Serve, Fault
<1>3. ASSUME NEW i \in Instances, Crash(i) PROVE [Contract!Next]_Contract!vars
  BY <1>3, CrashStep DEF Contract!Next
<1>4. CASE Tick
  <2>1. now' = now + 1 /\ meta' = meta /\ \A s \in Requests : Same(s)
    BY <1>4 DEF Tick, Same, disk, metas, cached, writer
  <2>2. \A s \in Requests : AnswerOf(s)' = AnswerOf(s) BY <2>1, KeptAnswer
  <2> QED BY <2>1, <2>2 DEF Contract!Next, Contract!Pass
<1>5. CASE OriginChanges
  <2>1. Still /\ \A s \in Requests : Same(s)
    BY <1>5 DEF OriginChanges, Same, Still, disk, metas, cached, writer
  <2> QED BY <2>1, StutterStep
<1> QED BY <1>1, <1>2, <1>3, <1>4, <1>5 DEF Next

(* The edge's cache keeps its contract: to its requests it is one entry,   *)
(* read in one step and replaced in one step, only once it has expired, by *)
(* a version no older; files, locks and dying processes do not show.       *)
THEOREM ContractKept == ASSUME ReliableReads PROVE Spec => KeepsContract
<1>1. Inv /\ Inv' /\ [Next]_vars => [Contract!Next]_Contract!vars BY ContractNext
<1> QED BY <1>1, ContractInit, AlwaysInv, PTL DEF Spec, KeepsContract, Contract!Spec

=============================================================================
