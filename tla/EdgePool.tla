------------------------------ MODULE EdgePool ------------------------------
(***************************************************************************)
(* EdgeCache on the pool of threads on which tokio runs blocking           *)
(* operations, of which a process has a limited number.  An operation on   *)
(* files has a thread for one step.  flock has one from its call until the *)
(* lock is granted: whoever waits for the lock holds a thread that the     *)
(* leader may need.                                                        *)
(***************************************************************************)
EXTENDS EdgeCache, FiniteSets

CONSTANT Threads   \* of each process; 512 unless main sets another number

VARIABLE waiting   \* requests whose flock has a thread

Room(i) == Cardinality({r \in waiting : Home[r] = i}) < Threads

(* spawn_blocking of acquire_lock: its closure gets a thread.              *)
StartFlock(r) ==
  /\ pc[r] = "lock" /\ r \notin waiting /\ Room(Home[r])
  /\ waiting' = waiting \cup {r}
  /\ UNCHANGED vars

Granted(r) == r \in waiting /\ AcquireLock(r) /\ waiting' = waiting \ {r}

(* Every other operation on files, the background write among them.        *)
OnThread(r) ==
  /\ Room(Home[r])
  /\ \/ ReadMeta(r) \/ OpenData(r) \/ BeginWrite(r) \/ LandWrite(r)
     \/ RenameData(r) \/ ReadForRefresh(r) \/ WriteMeta(r) \/ RenameMeta(r)
  /\ UNCHANGED waiting

(* Exchanges with the origin and the client, on the threads of the runtime.*)
OffThread(r) ==
  /\ Fetch(r) \/ FetchIfChanged(r) \/ WriteChunk(r) \/ EndStream(r)
  /\ UNCHANGED waiting

PoolServe(r) == StartFlock(r) \/ Granted(r) \/ OnThread(r) \/ OffThread(r)

PoolInit == Init /\ waiting = {}
PoolNext == \E r \in Requests : (Arrive(r) /\ UNCHANGED waiting) \/ PoolServe(r)

PoolSpec == /\ PoolInit /\ [][PoolNext]_<<vars, waiting>>
            /\ \A r \in Requests : WF_<<vars, waiting>>(PoolServe(r))

-----------------------------------------------------------------------------
(* README.md:3 of edge-cache-service: parallel requests of a file lead to  *)
(* one request to the origin.  Stated of its beginning: once requests have *)
(* come for a file that is not cached, one of them asks the origin.        *)
ParallelRequestsAsk ==
  (\E r \in Requests : pc[r] = "lock") ~> (\E r \in Requests : pc[r] \in Ended \cup {"create", "stream"})

=============================================================================
