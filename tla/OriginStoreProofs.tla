-------------------------- MODULE OriginStoreProofs --------------------------
(* Theorems about OriginStore, for every number of uploads, downloads,      *)
(* listings and failures.                                                   *)
EXTENDS OriginStore, TLAPS

(* Hypotheses of the theorems: no file is called meta.json; a storage call  *)
(* that fails has no effect; what the storage has can be read.              *)
PlainNames    == MetaNamed = {}
NothingIsLost == "lost" \notin Faults
ReadsSucceed  == "read" \notin Faults

OwnLate(u) == {call \in late : call[1][1] = u}

(* An upload on its way to 201 has what it put, and no call of its own can  *)
(* still take it away.                                                      *)
Going == {"idle", "verify", "rejected", "content", "sidecar", "index", "created"}

Progress(u) ==
  /\ pc[u] \in Going => OwnLate(u) = {}
  /\ pc[u] \in {"sidecar", "index", "created"} => held[<<u, "content">>] = "body"
  /\ pc[u] \in {"index", "created"} => held[<<u, "sidecar">>] = "metadata"
  /\ pc[u] = "created" => held[<<u, "index">>] = "metadata"

ProgressInv == TypeOK /\ \A u \in Uploads : Progress(u)

(* A download may find the index entry of u, or will.                       *)
Indexing(u)   == {call \in OwnLate(u) : call[1] = IndexKey(u) /\ call[2] # "nothing"}
Referenced(u) == held[IndexKey(u)] # "nothing" \/ Indexing(u) # {}

IndexLeads(u) ==
  /\ OwnLate(u) # {} => pc[u] = "abandoned"
  /\ \A c1, c2 \in OwnLate(u) : c1 = c2
  /\ Referenced(u) => /\ pc[u] \in {"created", "abandoned"}
                      /\ held[<<u, "content">>] = "body"
                      /\ OwnLate(u) = Indexing(u)

IndexInv == ProgressInv /\ \A u \in Uploads : IndexLeads(u)

DownloadInv(d) ==
  /\ dpc[d] = "copy" => Referenced(Target[d])
  /\ dpc[d] \notin {"short", "wrong"}

(* Which objects an upload cannot have, unless two calls failed.            *)
Undoing == {"rmContent", "rmSidecar", "rmIndex", "failed"}

Absent(u) ==
  /\ pc[u] \in Removals \cup {"failed"} => failures >= 1
  /\ failures <= 1 =>
       /\ pc[u] \in {"idle", "verify", "content", "rmSidecar", "rmIndex", "failed"} =>
            held[<<u, "content">>] = "nothing"
       /\ pc[u] \in {"idle", "verify", "content", "sidecar"} \cup Undoing =>
            held[<<u, "sidecar">>] = "nothing"
       /\ pc[u] \in {"idle", "verify"} \cup Puts \cup Removals \cup {"failed"} =>
            held[<<u, "index">>] = "nothing"

(* A file due is one acknowledged, and is found or still to be read.        *)
ListInv(l) ==
  /\ lpc[l] \in {"list", "read", "listed"} =>
       \A u \in due[l] : pc[u] = "created" /\ Owner[u] = Lister[l]
  /\ lpc[l] = "read" => due[l] \subseteq items[l] \cup todo[l]
  /\ lpc[l] = "listed" => due[l] \subseteq items[l]

-----------------------------------------------------------------------------
(* What a call touches, and who is touched by a step.                       *)

LEMMA CallType ==
  ASSUME TypeOK, NEW u \in Uploads, pc[u] \in Calling
  PROVE  Call(u) \in Keys \X Objects /\ Call(u)[1][1] = u
  BY DEF Call, Calling, Puts, Removals, Keys, Parts, Objects, ContentKey, SidecarKey, IndexKey

LEMMA InitType == Init => TypeOK
  BY FaultsAssumption
     DEF Init, TypeOK, Objects, UploadLabels, DownloadLabels, ListingLabels

LEMMA ApplyType ==
  ASSUME TypeOK, NEW call \in Keys \X Objects, Apply(call)
  PROVE  held' \in [Keys -> Objects]
  BY DEF TypeOK, Apply

LEMMA AttemptType ==
  ASSUME TypeOK, NEW u \in Uploads, pc[u] \in Calling,
         NEW next \in UploadLabels, NEW otherwise \in UploadLabels,
         Attempt(u, next, otherwise)
  PROVE  TypeOK'
<1>1. Call(u) \in Keys \X Objects BY CallType
<1>2. held' \in [Keys -> Objects] BY <1>1, ApplyType DEF Attempt, TypeOK
<1>3. late' \subseteq Keys \X Objects BY <1>1 DEF Attempt, TypeOK
<1>4. pc' \in [Uploads -> UploadLabels] BY DEF Attempt, TypeOK, Goto
<1>5. failures' \in 0 .. MaxFailures BY FaultsAssumption DEF Attempt, TypeOK
<1> QED BY <1>2, <1>3, <1>4, <1>5 DEF Attempt, TypeOK

LEMMA NextType == TypeOK /\ [Next]_vars => TypeOK'
<1> SUFFICES ASSUME TypeOK, [Next]_vars PROVE TypeOK' OBVIOUS
<1> USE DEF UploadLabels, DownloadLabels, ListingLabels, Calling, Puts, Removals
<1>0. CASE UNCHANGED vars BY <1>0 DEF TypeOK, vars
<1>1. ASSUME NEW u \in Uploads, Receive(u) \/ Verify(u) PROVE TypeOK'
  BY <1>1 DEF Receive, Verify, Goto, TypeOK
<1>2. ASSUME NEW u \in Uploads, PutContent(u) \/ PutSidecar(u) \/ PutIndex(u) PROVE TypeOK'
  BY <1>2, AttemptType DEF PutContent, PutSidecar, PutIndex
<1>3. ASSUME NEW u \in Uploads,
             RemoveOwnSidecar(u) \/ RemoveContent(u) \/ RemoveSidecar(u) \/ RemoveIndex(u)
      PROVE  TypeOK'
  BY <1>3, AttemptType DEF RemoveOwnSidecar, RemoveContent, RemoveSidecar, RemoveIndex
<1>4. ASSUME NEW u \in Uploads, Leave(u) PROVE TypeOK'
  <2>1. late' \subseteq Keys \X Objects BY <1>4, CallType DEF Leave, TypeOK
  <2> QED BY <1>4, <2>1 DEF Leave, Goto, TypeOK
<1>5. ASSUME NEW d \in Downloads, Download(d) PROVE TypeOK'
  BY <1>5 DEF Download, Request, LoadMetadata, Copy, Respond, TypeOK
<1>6. ASSUME NEW l \in Listings, List(l) PROVE TypeOK'
  <2>1. CASE Ask(l) BY <2>1 DEF Ask, TypeOK
  <2>2. CASE ListObjects(l) BY <2>2 DEF ListObjects, Listed, TypeOK
  <2>3. CASE ReadSidecar(l)
    <3>1. todo' \in [Listings -> SUBSET Uploads] BY <2>3 DEF ReadSidecar, TypeOK
    <3>2. items' \in [Listings -> SUBSET Uploads] BY <2>3 DEF ReadSidecar, TypeOK
    <3>3. lpc' \in [Listings -> ListingLabels] BY <2>3 DEF ReadSidecar, TypeOK
    <3> QED BY <2>3, <3>1, <3>2, <3>3 DEF ReadSidecar, TypeOK
  <2> QED BY <1>6, <2>1, <2>2, <2>3 DEF List
<1>7. CASE LandLate BY <1>7, ApplyType DEF LandLate, TypeOK
<1>8. CASE Crash
  <2>1. late' \subseteq Keys \X Objects BY <1>8, CallType DEF Crash, TypeOK
  <2> QED BY <1>8, <2>1 DEF Crash, TypeOK
<1> QED
  BY <1>0, <1>1, <1>2, <1>3, <1>4, <1>5, <1>6, <1>7, <1>8 DEF Next, Upload

THEOREM TypeCorrect == Spec => []TypeOK
  BY InitType, NextType, PTL DEF Spec

(* A step that leaves the upload u and all its objects as they are.         *)
Untouched(u) ==
  /\ pc'[u] = pc[u]
  /\ \A part \in Parts : held'[<<u, part>>] = held[<<u, part>>]
  /\ OwnLate(u)' = OwnLate(u)

LEMMA AttemptElsewhere ==
  ASSUME TypeOK, NEW u \in Uploads, NEW v \in Uploads, u # v, pc[v] \in Calling,
         NEW next, NEW otherwise, Attempt(v, next, otherwise)
  PROVE  Untouched(u)
<1>1. Call(v) \in Keys \X Objects /\ Call(v)[1][1] = v BY CallType
<1>2. \A part \in Parts : held'[<<u, part>>] = held[<<u, part>>]
  BY <1>1 DEF Attempt, Apply, TypeOK, Keys
<1>3. OwnLate(u)' = OwnLate(u) BY <1>1 DEF Attempt, OwnLate
<1>4. pc'[u] = pc[u] BY DEF Attempt, Goto, TypeOK
<1> QED BY <1>2, <1>3, <1>4 DEF Untouched

LEMMA UploadElsewhere ==
  ASSUME TypeOK, NEW u \in Uploads, NEW v \in Uploads, u # v, Upload(v)
  PROVE  Untouched(u)
<1> USE DEF Calling, Puts, Removals
<1>1. CASE Receive(v) \/ Verify(v)
  BY <1>1 DEF Receive, Verify, Goto, TypeOK, Untouched, OwnLate
<1>2. CASE PutContent(v) \/ PutSidecar(v) \/ PutIndex(v)
  BY <1>2, AttemptElsewhere DEF PutContent, PutSidecar, PutIndex
<1>3. CASE RemoveOwnSidecar(v) \/ RemoveContent(v) \/ RemoveSidecar(v) \/ RemoveIndex(v)
  BY <1>3, AttemptElsewhere DEF RemoveOwnSidecar, RemoveContent, RemoveSidecar, RemoveIndex
<1>4. CASE Leave(v)
  <2>1. Call(v)[1][1] = v BY <1>4, CallType DEF Leave
  <2>2. OwnLate(u)' = OwnLate(u) BY <1>4, <2>1 DEF Leave, OwnLate
  <2> QED BY <1>4, <2>2 DEF Leave, Goto, TypeOK, Untouched
<1> QED BY <1>1, <1>2, <1>3, <1>4 DEF Upload

LEMMA ReaderElsewhere ==
  ASSUME NEW u \in Uploads,
         UNCHANGED vars \/ (\E d \in Downloads : Download(d)) \/ (\E l \in Listings : List(l))
  PROVE  Untouched(u) /\ UNCHANGED <<held, late, pc, failures>>
<1>1. UNCHANGED <<held, late, pc, failures>>
  BY DEF vars, Download, Request, LoadMetadata, Copy, Respond,
         List, Ask, ListObjects, ReadSidecar
<1> QED BY <1>1 DEF Untouched, OwnLate

(* The steps there are, from where an upload stands.                        *)
LandsOwn(u) ==
  \E call \in OwnLate(u) :
    /\ Apply(call) /\ late' = late \ {call}
    /\ UNCHANGED <<pc, dpc, lpc, todo, items, due, failures>>

LEMMA StepsOf ==
  ASSUME TypeOK, [Next]_vars, NEW u \in Uploads
  PROVE  Untouched(u) \/ Upload(u) \/ LandsOwn(u) \/ Crash
<1>1. ASSUME NEW v \in Uploads, Upload(v) PROVE Untouched(u) \/ Upload(u)
  BY <1>1, UploadElsewhere
<1>2. CASE LandLate
  <2> PICK call \in late : /\ Apply(call) /\ late' = late \ {call}
                           /\ UNCHANGED <<pc, dpc, lpc, todo, items, due, failures>>
    BY <1>2 DEF LandLate
  <2>1. call \in Keys \X Objects BY DEF TypeOK
  <2>2. CASE call[1][1] = u BY <2>2 DEF LandsOwn, OwnLate
  <2>3. CASE call[1][1] # u
    <3>1. \A part \in Parts : held'[<<u, part>>] = held[<<u, part>>]
      BY <2>1, <2>3 DEF Apply, TypeOK, Keys
    <3>2. OwnLate(u)' = OwnLate(u) BY <2>3 DEF OwnLate
    <3> QED BY <3>1, <3>2 DEF Untouched
  <2> QED BY <2>2, <2>3
<1> QED BY <1>1, <1>2, ReaderElsewhere DEF Next

LEMMA CrashOwn ==
  ASSUME TypeOK, Crash, NEW u \in Uploads
  PROVE  /\ UNCHANGED <<held, failures>>
         /\ OwnLate(u) \subseteq OwnLate(u)'
         /\ OwnLate(u)' \subseteq OwnLate(u) \cup {Call(u)}
         /\ pc[u] \notin Calling => OwnLate(u)' = OwnLate(u)
         /\ pc'[u] = IF pc[u] \in Calling \cup {"verify"} THEN "abandoned" ELSE pc[u]
<1>1. PICK landing \in SUBSET {v \in Uploads : pc[v] \in Calling} :
        late' = late \cup {Call(v) : v \in landing}
  BY DEF Crash
<1>2. \A v \in landing : v \in Uploads /\ pc[v] \in Calling /\ Call(v)[1][1] = v
  BY <1>1, CallType
<1>3. OwnLate(u) \subseteq OwnLate(u)' BY <1>1 DEF OwnLate
<1>4. ASSUME NEW call \in OwnLate(u)', call \notin OwnLate(u)
      PROVE  pc[u] \in Calling /\ call = Call(u)
  <2>1. PICK v \in landing : call = Call(v) BY <1>1, <1>4 DEF OwnLate
  <2> QED BY <1>2, <1>4, <2>1 DEF OwnLate
<1>5. pc'[u] = IF pc[u] \in Calling \cup {"verify"} THEN "abandoned" ELSE pc[u]
  BY DEF Crash
<1> QED BY <1>3, <1>4, <1>5 DEF Crash

-----------------------------------------------------------------------------
(* What an upload has put stays, with every fault there is.                 *)

LEMMA InitProgress == Init => ProgressInv
  BY InitType DEF Init, ProgressInv, Progress, OwnLate

LEMMA ProgressStep ==
  ASSUME PlainNames, TypeOK, [Next]_vars, NEW u \in Uploads, Progress(u)
  PROVE  Progress(u)'
<1> USE DEF Calling, Puts, Removals, Going
<1> DEFINE key(part) == <<u, part>>
<1>0. \A part \in Parts : key(part) \in Keys BY DEF Keys
<1>1. CASE Untouched(u) BY <1>1 DEF Untouched, Progress, Parts
<1>2. CASE Receive(u) \/ Verify(u)
  BY <1>2 DEF Receive, Verify, Goto, TypeOK, Progress, OwnLate
<1>3. CASE PutContent(u) \/ PutSidecar(u) \/ PutIndex(u)
  <2>1. ContentKey(u) = key("content") BY DEF ContentKey, PlainNames
  <2>2. CASE PutContent(u)
    BY <1>0, <2>1, <2>2
       DEF PutContent, Attempt, Call, Apply, Goto, TypeOK, Progress, OwnLate, Parts
  <2>3. CASE PutSidecar(u)
    BY <1>0, <2>3
       DEF PutSidecar, Attempt, Call, SidecarKey, Apply, Goto, TypeOK, Progress, OwnLate, Parts
  <2>4. CASE PutIndex(u)
    BY <1>0, <2>4
       DEF PutIndex, Attempt, Call, IndexKey, Apply, Goto, TypeOK, Progress, OwnLate, Parts
  <2> QED BY <1>3, <2>2, <2>3, <2>4
<1>4. CASE RemoveOwnSidecar(u) \/ RemoveContent(u) \/ RemoveSidecar(u) \/ RemoveIndex(u) \/ Leave(u)
  <2>1. pc'[u] \notin Going
    BY <1>4 DEF RemoveOwnSidecar, RemoveContent, RemoveSidecar, RemoveIndex, Leave,
                Attempt, Goto, TypeOK
  <2> QED BY <2>1 DEF Progress
<1>5. CASE LandsOwn(u)
  BY <1>5 DEF LandsOwn, Progress
<1>6. CASE Crash
  BY <1>6, CrashOwn DEF Progress
<1> QED BY <1>1, <1>2, <1>3, <1>4, <1>5, <1>6, StepsOf DEF Upload

LEMMA NextProgress ==
  ASSUME PlainNames PROVE ProgressInv /\ [Next]_vars => ProgressInv'
  BY PlainNames, NextType, ProgressStep DEF ProgressInv

LEMMA ProgressStored ==
  ASSUME PlainNames PROVE ProgressInv => AcknowledgedIsStored
  BY PlainNames
     DEF ProgressInv, Progress, AcknowledgedIsStored, Stored, PlainNames,
         ContentKey, SidecarKey, IndexKey

(* AcknowledgedIsStored: no failed call, late effect, clean-up, departed    *)
(* client or restart takes an object from a file that was answered 201.     *)
THEOREM Acknowledged == ASSUME PlainNames PROVE Spec => []AcknowledgedIsStored
<1>1. ProgressInv /\ [Next]_vars => ProgressInv' BY PlainNames, NextProgress
<1>2. ProgressInv => AcknowledgedIsStored BY PlainNames, ProgressStored
<1> QED BY InitProgress, <1>1, <1>2, PTL DEF Spec

(* FoundOnceCreated: only a file without an index entry is reported         *)
(* missing, and an acknowledged one has it.                                 *)
THEOREM Found == ASSUME PlainNames, ReadsSucceed PROVE Spec => FoundOnceCreated
<1> DEFINE Step == \A d \in Downloads : pc[Target[d]] = "created" /\ dpc'[d] = "notFound"
                                          => dpc[d] = "notFound"
<1>1. ASSUME ProgressInv, Next PROVE Step
  <2> SUFFICES ASSUME NEW d \in Downloads, pc[Target[d]] = "created",
                      dpc'[d] = "notFound", dpc[d] # "notFound"
               PROVE  FALSE
    OBVIOUS
  <2>1. held[IndexKey(Target[d])] # "nothing"
    BY <1>1, ProgressStored, PlainNames, RequestsAssumption DEF AcknowledgedIsStored, Stored
  <2>2. PICK e \in Downloads : LoadMetadata(e) \/ Copy(e) \/ Request(e)
    BY <1>1 DEF ProgressInv, TypeOK, Next, Upload, Receive, Verify, PutContent, PutSidecar, PutIndex,
                RemoveOwnSidecar, RemoveContent, RemoveSidecar, RemoveIndex, Attempt, Leave,
                Download, List, Ask, ListObjects, ReadSidecar, LandLate, Crash
  <2>3. e = d BY <1>1, <2>2 DEF LoadMetadata, Copy, Request, Respond, ProgressInv, TypeOK
  <2> QED BY <1>1, <2>1, <2>2, <2>3
          DEF LoadMetadata, Copy, Request, Respond, ReadsSucceed, ProgressInv, TypeOK
<1>2. ProgressInv /\ [Next]_vars => ProgressInv' BY PlainNames, NextProgress
<1>3. ProgressInv /\ [Next]_vars => [Step]_vars BY <1>1
<1> QED BY InitProgress, <1>2, <1>3, PTL DEF Spec, FoundOnceCreated

-----------------------------------------------------------------------------
(* An index entry that exists or is about to leads to content that stays.   *)

LEMMA InitIndex == Init => IndexInv /\ \A d \in Downloads : DownloadInv(d)
  BY InitProgress
     DEF Init, IndexInv, IndexLeads, DownloadInv, OwnLate, Referenced, Indexing,
         IndexKey, Keys, Parts

(* A call of u that succeeds, or fails without effect.                      *)
LEMMA AttemptOwn ==
  ASSUME NothingIsLost, TypeOK, NEW u \in Uploads, pc[u] \in Calling,
         NEW next, NEW otherwise, Attempt(u, next, otherwise)
  PROVE  /\ UNCHANGED <<late, dpc>>
         /\ \/ pc'[u] = next /\ Apply(Call(u)) /\ UNCHANGED failures
            \/ /\ pc'[u] = otherwise /\ UNCHANGED held
               /\ failures' = failures + 1
  BY DEF Attempt, Goto, TypeOK, NothingIsLost

LEMMA IndexStep ==
  ASSUME PlainNames, NothingIsLost, TypeOK, [Next]_vars, NEW u \in Uploads,
         Progress(u), IndexLeads(u)
  PROVE  IndexLeads(u)'
<1> USE DEF Calling, Puts, Removals, Going
<1> DEFINE content == <<u, "content">>
<1>0. content \in Keys /\ IndexKey(u) \in Keys /\ IndexKey(u) = <<u, "index">>
  BY DEF Keys, Parts, IndexKey
<1>3. CASE Untouched(u)
  BY <1>0, <1>3 DEF Untouched, IndexLeads, Referenced, Indexing, Parts
<1>4. CASE Receive(u) \/ Verify(u)
  BY <1>4 DEF Receive, Verify, Goto, TypeOK, IndexLeads, Referenced, OwnLate, Indexing
<1>5. CASE PutContent(u) \/ PutSidecar(u) \/ PutIndex(u) \/ RemoveOwnSidecar(u)
           \/ RemoveContent(u) \/ RemoveSidecar(u) \/ RemoveIndex(u)
  <2>1. OwnLate(u) = {} /\ ~ Referenced(u) BY <1>5 DEF IndexLeads, PutContent, PutSidecar,
          PutIndex, RemoveOwnSidecar, RemoveContent, RemoveSidecar, RemoveIndex
  <2>2. late' = late
    BY <1>5, AttemptOwn
       DEF PutContent, PutSidecar, PutIndex,
           RemoveOwnSidecar, RemoveContent, RemoveSidecar, RemoveIndex
  <2>3. OwnLate(u)' = {} BY <2>1, <2>2 DEF OwnLate
  <2>4. CASE PutIndex(u)
    <3>1. held[content] = "body" BY <2>4 DEF PutIndex, Progress
    <3>2. CASE pc'[u] = "created" /\ Apply(Call(u))
      <4>1. Call(u)[1] # content BY <1>0, <2>4 DEF PutIndex, Call
      <4>2. held'[content] = "body" BY <1>0, <3>1, <3>2, <4>1 DEF Apply, TypeOK
      <4> QED BY <2>3, <3>2, <4>2 DEF IndexLeads, Indexing
    <3>3. CASE held' = held
      BY <2>1, <2>3, <3>3 DEF IndexLeads, Referenced, Indexing, IndexKey
    <3> QED BY <2>4, <3>2, <3>3, AttemptOwn DEF PutIndex
  <2>5. CASE ~ PutIndex(u)
    <3>1. held'[IndexKey(u)] = "nothing"
      <4>1. CASE UNCHANGED held BY <2>1, <4>1 DEF Referenced
      <4>2. CASE Apply(Call(u))
        <5>1. Call(u)[1] # IndexKey(u) \/ Call(u)[2] = "nothing"
          BY <1>5, <2>5
             DEF PutContent, PutSidecar, PutIndex, RemoveOwnSidecar, RemoveContent, RemoveSidecar,
                 RemoveIndex, Call, ContentKey, SidecarKey, IndexKey, PlainNames
        <5> QED BY <1>0, <2>1, <4>2, <5>1 DEF Apply, Referenced, TypeOK
      <4> QED
        BY <1>5, <4>1, <4>2, AttemptOwn
           DEF PutContent, PutSidecar, PutIndex,
               RemoveOwnSidecar, RemoveContent, RemoveSidecar, RemoveIndex
    <3> QED BY <2>3, <3>1 DEF IndexLeads, Referenced, Indexing, IndexKey
  <2> QED BY <2>4, <2>5
<1>6. ASSUME OwnLate(u)' \subseteq OwnLate(u) \cup {Call(u)}, UNCHANGED held,
             pc[u] \in Calling, pc'[u] = "abandoned"
      PROVE  IndexLeads(u)'
  <2>1. OwnLate(u) = {} /\ ~ Referenced(u) BY <1>6 DEF IndexLeads
  <2>2. Call(u)[1] = IndexKey(u) /\ Call(u)[2] # "nothing" => held[content] = "body"
    BY <1>6 DEF Call, IndexKey, SidecarKey, ContentKey, PlainNames, Progress
  <2> QED BY <1>6, <2>1, <2>2 DEF IndexLeads, Referenced, IndexKey, Indexing
<1>7. CASE Leave(u)
  <2>1. OwnLate(u)' \subseteq OwnLate(u) \cup {Call(u)} BY <1>7 DEF Leave, OwnLate
  <2> QED BY <1>6, <1>7, <2>1 DEF Leave, Goto, TypeOK
<1>8. CASE LandsOwn(u)
  <2> PICK call \in OwnLate(u) : Apply(call) /\ late' = late \ {call} /\ pc' = pc
    BY <1>8 DEF LandsOwn
  <2>1. OwnLate(u) = {call} /\ OwnLate(u)' = {} /\ pc[u] = "abandoned"
    BY DEF IndexLeads, OwnLate
  <2>2. call \in Keys \X Objects BY DEF OwnLate, TypeOK
  <2>3. CASE Referenced(u)
    <3>1. call[1] = IndexKey(u) /\ held[content] = "body"
      BY <2>1, <2>3 DEF IndexLeads, Indexing
    <3>2. held'[content] = "body" BY <1>0, <3>1 DEF Apply, TypeOK
    <3> QED BY <2>1, <3>2 DEF IndexLeads, Indexing
  <2>4. CASE ~ Referenced(u)
    <3>1. call[1] # IndexKey(u) \/ call[2] = "nothing" BY <2>4 DEF Referenced, Indexing
    <3>2. held'[IndexKey(u)] = "nothing"
      BY <1>0, <2>2, <2>4, <3>1 DEF Apply, Referenced, TypeOK
    <3> QED BY <2>1, <3>2 DEF IndexLeads, Referenced, Indexing, IndexKey
  <2> QED BY <2>3, <2>4
<1>9. CASE Crash
  <2>1. CASE pc[u] \in Calling BY <1>6, <1>9, <2>1, CrashOwn
  <2>2. CASE pc[u] \notin Calling
    BY <1>9, <2>2, CrashOwn DEF IndexLeads, Referenced, IndexKey, Indexing
  <2> QED BY <2>1, <2>2
<1> QED BY <1>3, <1>4, <1>5, <1>7, <1>8, <1>9, StepsOf DEF Upload

LEMMA NextIndex ==
  ASSUME PlainNames, NothingIsLost PROVE IndexInv /\ [Next]_vars => IndexInv'
  BY PlainNames, NothingIsLost, NextProgress, IndexStep DEF IndexInv, ProgressInv

(* A file referenced stays so.                                              *)
LEMMA StaysReferenced ==
  ASSUME PlainNames, NothingIsLost, TypeOK, [Next]_vars, NEW u \in Uploads,
         IndexLeads(u), Referenced(u)
  PROVE  Referenced(u)'
<1>0. IndexKey(u) \in Keys /\ IndexKey(u) = <<u, "index">> BY DEF Keys, Parts, IndexKey
<1>1. pc[u] \in {"created", "abandoned"} /\ OwnLate(u) = Indexing(u) BY DEF IndexLeads
<1>2. CASE Untouched(u) BY <1>0, <1>2 DEF Untouched, Referenced, Indexing, Parts
<1>3. ~ Upload(u)
  BY <1>1 DEF Upload, Receive, Verify, PutContent, PutSidecar, PutIndex, RemoveOwnSidecar,
              RemoveContent, RemoveSidecar, RemoveIndex, Leave, Calling, Puts, Removals
<1>4. CASE LandsOwn(u)
  <2> PICK call \in OwnLate(u) : Apply(call) BY <1>4 DEF LandsOwn
  <2>1. call[1] = IndexKey(u) /\ call[2] # "nothing" BY <1>1 DEF Indexing
  <2> QED BY <1>0, <2>1 DEF Apply, Referenced, TypeOK
<1>5. CASE Crash BY <1>5, CrashOwn DEF Referenced, Indexing, IndexKey
<1> QED BY <1>2, <1>3, <1>4, <1>5, StepsOf

LEMMA DownloadStep ==
  ASSUME PlainNames, NothingIsLost, ReadsSucceed, IndexInv, [Next]_vars,
         NEW d \in Downloads, DownloadInv(d)
  PROVE  DownloadInv(d)'
<1> DEFINE u == Target[d]
<1>1. u \in Uploads /\ TypeOK /\ IndexLeads(u)
  BY RequestsAssumption DEF IndexInv, ProgressInv
<1>2. Referenced(u) => Referenced(u)' BY <1>1, PlainNames, NothingIsLost, StaysReferenced
<1>3. CASE dpc'[d] = dpc[d] BY <1>2, <1>3 DEF DownloadInv
<1>4. CASE Download(d)
  <2>1. CASE Request(d) BY <1>1, <2>1 DEF Request, Respond, TypeOK, DownloadInv
  <2>2. CASE LoadMetadata(d)
    <3>1. dpc'[d] = "copy" => Referenced(u)
      BY <1>1, <2>2 DEF LoadMetadata, Respond, TypeOK, Referenced
    <3> QED BY <1>1, <1>2, <2>2, <3>1 DEF LoadMetadata, Respond, TypeOK, DownloadInv
  <2>3. CASE Copy(d)
    <3>1. held[ContentKey(u)] = "body"
      BY <1>1, <2>3 DEF Copy, DownloadInv, IndexLeads, ContentKey, PlainNames
    <3> QED BY <1>1, <2>3, <3>1 DEF Copy, Respond, TypeOK, DownloadInv, ReadsSucceed
  <2> QED BY <1>4, <2>1, <2>2, <2>3 DEF Download
<1>5. ASSUME NEW e \in Downloads, e # d, Download(e) PROVE dpc'[d] = dpc[d]
  BY <1>1, <1>5 DEF Download, Request, LoadMetadata, Copy, Respond, TypeOK
<1>6. ASSUME NEW v \in Uploads, Upload(v) PROVE dpc'[d] = dpc[d]
  BY <1>6 DEF Upload, Receive, Verify, PutContent, PutSidecar, PutIndex, RemoveOwnSidecar,
              RemoveContent, RemoveSidecar, RemoveIndex, Attempt, Leave
<1>7. CASE (\E l \in Listings : List(l)) \/ LandLate \/ UNCHANGED vars
  BY <1>3, <1>7 DEF List, Ask, ListObjects, ReadSidecar, LandLate, vars
<1>8. CASE Crash BY <1>3, <1>8 DEF Crash, DownloadInv
<1> QED BY <1>3, <1>4, <1>5, <1>6, <1>7, <1>8 DEF Next

(* DownloadIsWhole: as long as a failed call has no effect, every index     *)
(* entry found leads to content that is there and stays, so a 200 carries   *)
(* the file, whatever clean-up, departed client or restart is under way.    *)
THEOREM Whole ==
  ASSUME PlainNames, NothingIsLost, ReadsSucceed PROVE Spec => []DownloadIsWhole
<1> DEFINE Inv == IndexInv /\ \A d \in Downloads : DownloadInv(d)
<1>1. Init => Inv BY InitIndex
<1>2. Inv /\ [Next]_vars => Inv'
  BY PlainNames, NothingIsLost, ReadsSucceed, NextIndex, DownloadStep
<1>3. Inv => DownloadIsWhole BY DEF DownloadInv, DownloadIsWhole
<1> QED BY <1>1, <1>2, <1>3, PTL DEF Spec

-----------------------------------------------------------------------------
(* Clean-up after one failed call.                                          *)

UndoInv == IndexInv /\ \A u \in Uploads : Absent(u)

LEMMA InitUndo == Init => UndoInv
  BY InitIndex DEF Init, UndoInv, Absent, Keys, Parts, Puts, Removals, Undoing

LEMMA AbsentStep ==
  ASSUME PlainNames, NothingIsLost, TypeOK, TypeOK', [Next]_vars, NEW u \in Uploads,
         IndexLeads(u), Absent(u)
  PROVE  Absent(u)'
<1> USE DEF Calling, Puts, Removals, Undoing
<1>0. /\ <<u, "content">> \in Keys /\ <<u, "sidecar">> \in Keys /\ <<u, "index">> \in Keys
      /\ ContentKey(u) = <<u, "content">>
      /\ SidecarKey(u) = <<u, "sidecar">> /\ IndexKey(u) = <<u, "index">>
      /\ failures \in Nat /\ failures' \in Nat
  BY DEF Keys, Parts, ContentKey, SidecarKey, IndexKey, PlainNames, TypeOK
<1>1. failures <= failures'
  BY <1>0 DEF Next, Upload, Receive, Verify, PutContent, PutSidecar, PutIndex, RemoveOwnSidecar,
         RemoveContent, RemoveSidecar, RemoveIndex, Attempt, Leave,
         Download, Request, LoadMetadata, Copy, Respond,
         List, Ask, ListObjects, ReadSidecar, LandLate, Crash, vars
<1>2. CASE Untouched(u) BY <1>0, <1>1, <1>2 DEF Untouched, Absent, Parts
<1>3. CASE Receive(u) \/ Verify(u) BY <1>3 DEF Receive, Verify, Goto, TypeOK, Absent
<1>4. CASE PutContent(u)
  BY <1>0, <1>4, AttemptOwn DEF PutContent, Call, Apply, TypeOK, Absent
<1>5. CASE PutSidecar(u)
  BY <1>0, <1>5, AttemptOwn DEF PutSidecar, Call, Apply, TypeOK, Absent
<1>6. CASE PutIndex(u)
  BY <1>0, <1>6, AttemptOwn DEF PutIndex, Call, Apply, TypeOK, Absent
<1>7. CASE RemoveOwnSidecar(u)
  BY <1>0, <1>7, AttemptOwn DEF RemoveOwnSidecar, Call, Apply, TypeOK, Absent
<1>8. CASE RemoveContent(u)
  BY <1>0, <1>8, AttemptOwn DEF RemoveContent, Call, Apply, TypeOK, Absent
<1>9. CASE RemoveSidecar(u)
  BY <1>0, <1>9, AttemptOwn DEF RemoveSidecar, Call, Apply, TypeOK, Absent
<1>10. CASE RemoveIndex(u)
  BY <1>0, <1>10, AttemptOwn DEF RemoveIndex, Call, Apply, TypeOK, Absent
<1>11. CASE Leave(u) BY <1>11 DEF Leave, Goto, TypeOK, Absent
<1>12. CASE LandsOwn(u) BY <1>12 DEF LandsOwn, IndexLeads, Absent
<1>13. CASE Crash BY <1>0, <1>13, CrashOwn DEF Absent
<1> QED
  BY <1>2, <1>3, <1>4, <1>5, <1>6, <1>7, <1>8, <1>9, <1>10, <1>11, <1>12, <1>13, StepsOf
     DEF Upload

(* RolledBack: an upload answered 500 after a single failed call has left   *)
(* no object.                                                               *)
THEOREM Undone == ASSUME PlainNames, NothingIsLost PROVE Spec => []RolledBack
<1>1. UndoInv /\ [Next]_vars => UndoInv'
  BY PlainNames, NothingIsLost, NextIndex, AbsentStep DEF UndoInv, IndexInv, ProgressInv
<1>2. UndoInv => RolledBack BY DEF UndoInv, Absent, RolledBack, Parts, Undoing, Removals
<1> QED BY InitUndo, <1>1, <1>2, PTL DEF Spec

-----------------------------------------------------------------------------
(* Listings.                                                                *)

ListedInv == ProgressInv /\ \A l \in Listings : ListInv(l)

LEMMA StaysCreated ==
  ASSUME TypeOK, [Next]_vars, NEW u \in Uploads, pc[u] = "created" PROVE pc'[u] = "created"
<1>1. ~ Upload(u)
  BY DEF Upload, Receive, Verify, PutContent, PutSidecar, PutIndex, RemoveOwnSidecar,
         RemoveContent, RemoveSidecar, RemoveIndex, Leave, Calling, Puts, Removals
<1> QED BY <1>1, StepsOf, CrashOwn DEF Untouched, LandsOwn, Calling, Puts, Removals

LEMMA ListStep ==
  ASSUME PlainNames, ProgressInv, [Next]_vars, NEW l \in Listings, ListInv(l)
  PROVE  ListInv(l)'
<1>1. TypeOK /\ (\A u \in Uploads : pc[u] = "created" => held[SidecarKey(u)] = "metadata")
  BY DEF ProgressInv, Progress, SidecarKey
<1>2. \A u \in Uploads : pc[u] = "created" => pc'[u] = "created" BY <1>1, StaysCreated
<1>3. due[l] \subseteq Uploads BY <1>1 DEF TypeOK
<1>4. CASE lpc'[l] = lpc[l] /\ UNCHANGED <<due[l], items[l], todo[l]>>
  BY <1>2, <1>3, <1>4 DEF ListInv
<1>5. CASE Ask(l) BY <1>1, <1>5 DEF Ask, TypeOK, ListInv
<1>6. CASE ListObjects(l)
  <2>1. lpc'[l] = "read" => due[l] \subseteq todo'[l]
    BY <1>1, <1>3, <1>6 DEF ListObjects, Listed, TypeOK, ListInv
  <2> QED BY <1>1, <1>2, <1>3, <1>6, <2>1 DEF ListObjects, TypeOK, ListInv
<1>7. CASE ReadSidecar(l)
  <2>1. CASE todo[l] = {} /\ lpc' = [lpc EXCEPT ![l] = "listed"] /\ UNCHANGED <<todo, items>>
    BY <1>1, <1>7, <2>1 DEF ReadSidecar, TypeOK, ListInv
  <2>2. ASSUME NEW u \in todo[l], todo' = [todo EXCEPT ![l] = @ \ {u}],
               items' = [items EXCEPT ![l] = @ \cup {u}], UNCHANGED lpc
        PROVE  ListInv(l)'
    <3>1. todo'[l] = todo[l] \ {u} /\ items'[l] = items[l] \cup {u}
      BY <1>1, <2>2 DEF TypeOK
    <3> QED BY <1>1, <1>7, <2>2, <3>1 DEF ReadSidecar, TypeOK, ListInv
  <2>3. CASE lpc' = [lpc EXCEPT ![l] = "failed"] BY <1>1, <2>3 DEF TypeOK, ListInv
  <2> QED BY <1>7, <2>1, <2>2, <2>3 DEF ReadSidecar
<1>8. ASSUME NEW k \in Listings, k # l, List(k)
      PROVE  lpc'[l] = lpc[l] /\ UNCHANGED <<due[l], items[l], todo[l]>>
  BY <1>1, <1>8 DEF List, Ask, ListObjects, ReadSidecar, TypeOK
<1>9. ASSUME \/ \E v \in Uploads : Upload(v)
             \/ \E d \in Downloads : Download(d)
             \/ LandLate \/ UNCHANGED vars
      PROVE  UNCHANGED <<lpc, due, items, todo>>
  BY <1>9 DEF Upload, Receive, Verify, PutContent, PutSidecar, PutIndex, RemoveOwnSidecar,
              RemoveContent, RemoveSidecar, RemoveIndex, Attempt, Leave, LandLate, vars,
              Download, Request, LoadMetadata, Copy, Respond
<1>10. CASE Crash BY <1>1, <1>2, <1>3, <1>10 DEF Crash, ListInv
<1> QED BY <1>4, <1>5, <1>6, <1>7, <1>8, <1>9, <1>10 DEF Next, List

(* ListingIsComplete: a listing answered 200 has every file acknowledged    *)
(* before it began, with every fault there is.                              *)
THEOREM Complete == ASSUME PlainNames PROVE Spec => []ListingIsComplete
<1>1. Init => ListedInv BY InitProgress DEF Init, ListedInv, ListInv
<1>2. ListedInv /\ [Next]_vars => ListedInv'
  BY PlainNames, NextProgress, ListStep DEF ListedInv
<1>3. ListedInv => ListingIsComplete BY DEF ListedInv, ListInv, ListingIsComplete
<1> QED BY <1>1, <1>2, <1>3, PTL DEF Spec

=============================================================================
