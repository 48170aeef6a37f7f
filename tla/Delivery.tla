------------------------------ MODULE Delivery ------------------------------
(***************************************************************************)
(* The way of a file from its upload to its readers: origin-service, the   *)
(* edges that cache it, each on a disk of its own, and the gateway in      *)
(* front of them.                                                          *)
(*                                                                         *)
(* Each service is here as what it does for the others.  The origin finds  *)
(* a file from the put of its index on and acknowledges it afterwards, as  *)
(* OriginStore shows; content and tag of a file never change.  An edge has *)
(* one entry and one leader per file and renews the entry in one step, as  *)
(* EdgeCache shows of clients that stay and lookups that do not fail; the  *)
(* last write of a body may land after that, or be lost.  What is between  *)
(* them is modelled as it is: routes, tags, lifetimes, a 404 for whatever  *)
(* the storage cannot read, and bodies that end too early.                 *)
(***************************************************************************)
EXTENDS Naturals

CONSTANTS
  Files,      \* each uploaded once
  Legacy,     \* files from before checksums, there at the start
  Edges,      \* the backends of the gateway
  Downloads,  \* GET /download/{file_id} requests at the gateway
  Target,     \* the file a download asks for
  MaxAge,     \* cacheMaxAge of the origin, in seconds
  MaxTime,    \* bound of the clock
  Faults,     \* what the environment may do wrong
  None

FaultKinds == {"down", "read", "break", "cut", "lose", "crash"}

ASSUME FilesAssumption  == Legacy \subseteq Files /\ Target \in [Downloads -> Files]
ASSUME BoundsAssumption == MaxAge \in Nat /\ MaxTime \in Nat /\ Faults \subseteq FaultKinds
ASSUME NoneAssumption   == None \notin Downloads \cup Files \cup Edges

-----------------------------------------------------------------------------
(* Tags.  A checksum is sent as it is, the tag of an old file is weak and  *)
(* quoted.                                                                 *)

Tag(f) == [weak |-> f \in Legacy, quoted |-> f \in Legacy, value |-> f]

(* parseETag: a tag without quotes has no value.                           *)
ParseETag(tag) == IF tag.quoted THEN tag.value ELSE None

(* matchETag; the mutant wants a value to compare.                         *)
Mutant_MatchETagNonEmpty(sent, own) ==
  \/ ParseETag(sent) # None /\ ParseETag(sent) = ParseETag(own)
  \/ sent.weak /\ own.weak
MatchETag(sent, own) ==
  \/ ParseETag(sent) = ParseETag(own)
  \/ sent.weak /\ own.weak

-----------------------------------------------------------------------------

Entries == [tag : {Tag(f) : f \in Files}, body : {"whole", "cut"}, exp : Nat]
Active  == {"lookup", "lock", "recheck", "ask", "body"}
Leading == {"recheck", "ask", "body"}
Ended   == {"served", "notFound", "failed"}

VARIABLES
  clock,
  route,    \* the edge the gateway's hash gives each file
  indexed,  \* files whose index the origin has put
  created,  \* files whose upload was answered 201
  entry,    \* the entries of each edge, in sets of at most one
  disk,     \* the last write to each .bin: in flight, landed or lost
  leader,   \* who has the lock of each file on each edge
  pc,       \* where each download is
  via,      \* the edge a download was routed to
  got,      \* the content a download has mapped, or has read
  stored,   \* history: how many bodies of each file edges have cached
  cut,      \* history: files of which the origin has sent a part as the whole
  due,      \* history: downloads of files acknowledged before
  misread,  \* history: downloads for which the storage could not be read
  early     \* history: downloads that mapped a file before its last write

origin  == <<indexed, created>>
edges   == <<entry, disk, leader>>
answers == <<pc, via, got>>
history == <<stored, cut, due, misread, early>>
vars    == <<clock, route, origin, edges, answers, history>>

TypeOK ==
  /\ clock \in 0 .. MaxTime
  /\ route \in [Files -> Edges]
  /\ indexed \subseteq Files /\ created \subseteq Files
  /\ entry \in [Edges -> [Files -> SUBSET Entries]]
  /\ \A e \in Edges, f \in Files : \A x, y \in entry[e][f] : x = y
  /\ disk \in [Edges -> [Files -> {"flight", "landed", "lost"}]]
  /\ leader \in [Edges -> [Files -> Downloads \cup {None}]]
  /\ pc \in [Downloads -> Active \cup Ended \cup {"idle"}]
  /\ via \in [Downloads -> Edges \cup {None}]
  /\ got \in [Downloads -> {"nothing", "whole", "cut", "short"}]
  /\ stored \in [Files -> Nat] /\ cut \subseteq Files
  /\ due \subseteq Downloads /\ misread \subseteq Downloads /\ early \subseteq Downloads

Init ==
  /\ clock = 0
  /\ route \in [Files -> Edges]
  /\ indexed = Legacy /\ created = Legacy
  /\ entry = [e \in Edges |-> [f \in Files |-> {}]]
  /\ disk = [e \in Edges |-> [f \in Files |-> "landed"]]
  /\ leader = [e \in Edges |-> [f \in Files |-> None]]
  /\ pc = [d \in Downloads |-> "idle"] /\ via = [d \in Downloads |-> None]
  /\ got = [d \in Downloads |-> "nothing"]
  /\ stored = [f \in Files |-> 0] /\ cut = {}
  /\ due = {} /\ misread = {} /\ early = {}

-----------------------------------------------------------------------------
(* The origin: an upload can be found once its index is put, and is then   *)
(* answered 201.                                                           *)

PutIndex(f) ==
  /\ f \notin indexed /\ indexed' = indexed \cup {f}
  /\ UNCHANGED <<clock, route, created, edges, answers, history>>

(* The mutant does not wait for the index.                                 *)
Mutant_AcknowledgeEarly(f) ==
  /\ f \notin created /\ created' = created \cup {f}
  /\ UNCHANGED <<clock, route, indexed, edges, answers, history>>
Acknowledge(f) ==
  /\ f \in indexed \ created /\ created' = created \cup {f}
  /\ UNCHANGED <<clock, route, indexed, edges, answers, history>>

-----------------------------------------------------------------------------
(* A download, at the edge its file is routed to.                          *)

Cached(d)  == entry[via[d]][Target[d]]
Expired(x) == clock >= x.exp
Fresh(d)   == \E x \in Cached(d) : ~Expired(x)

Goto(d, step) == pc' = [pc EXCEPT ![d] = step]
Unlock(d)     == leader' = [leader EXCEPT ![via[d]][Target[d]] = None]

(* A lookup maps the .bin as long as it is at that moment.                 *)
Written(d) == disk[via[d]][Target[d]]
Map(d, x)  ==
  /\ got' = [got EXCEPT ![d] = IF Written(d) = "landed" THEN x.body ELSE "short"]
  /\ early' = IF Written(d) = "flight" THEN early \cup {d} ELSE early

(* The gateway proxies by the hash of the file id.                         *)
Route(d) ==
  /\ pc[d] = "idle" /\ Goto(d, "lookup")
  /\ via' = [via EXCEPT ![d] = route[Target[d]]]
  /\ due' = IF Target[d] \in created THEN due \cup {d} ELSE due
  /\ UNCHANGED <<clock, route, origin, edges, got, stored, cut, misread, early>>

Hit(d) == \E x \in Cached(d) :
  /\ ~Expired(x) /\ Map(d, x) /\ Goto(d, "served")
  /\ UNCHANGED <<clock, route, origin, entry, disk, via, stored, cut, due, misread>>

Lookup(d) ==
  /\ pc[d] = "lookup"
  /\ \/ Hit(d) /\ UNCHANGED leader
     \/ ~Fresh(d) /\ Goto(d, "lock")
        /\ UNCHANGED <<clock, route, origin, edges, via, got, history>>

Lead(d) ==
  /\ pc[d] = "lock" /\ leader[via[d]][Target[d]] = None /\ Goto(d, "recheck")
  /\ leader' = [leader EXCEPT ![via[d]][Target[d]] = d]
  /\ UNCHANGED <<clock, route, origin, entry, disk, via, got, history>>

(* The lookup under the lock, which keeps what it has mapped of an expired *)
(* copy.  The mutant goes by the lookup before it.                         *)
Mutant_RecheckNot(d) ==
  /\ pc[d] = "recheck" /\ Goto(d, "ask")
  /\ UNCHANGED <<clock, route, origin, edges, via, got, history>>
Recheck(d) ==
  /\ pc[d] = "recheck"
  /\ \/ Hit(d) /\ Unlock(d)
     \/ /\ ~Fresh(d) /\ Goto(d, "ask")
        /\ \/ Cached(d) = {} /\ UNCHANGED <<got, early>>
           \/ \E x \in Cached(d) : Map(d, x)
        /\ UNCHANGED <<clock, route, origin, edges, via, stored, cut, due, misread>>

(* What the edge has of the file from now on; the mutant adds to it.       *)
Mutant_StoreAdds(d, body) ==
  entry' = [entry EXCEPT ![via[d]][Target[d]] = @ \cup
             {[tag |-> Tag(Target[d]), body |-> body, exp |-> clock + MaxAge]}]
Store(d, body) ==
  entry' = [entry EXCEPT ![via[d]][Target[d]] =
             {[tag |-> Tag(Target[d]), body |-> body, exp |-> clock + MaxAge]}]

NotFound(d) ==
  /\ pc[d] = "ask" /\ Target[d] \notin indexed /\ Goto(d, "notFound") /\ Unlock(d)
  /\ UNCHANGED <<clock, route, origin, entry, disk, via, got, history>>

Matches(d) == \E x \in Cached(d) : MatchETag(x.tag, Tag(Target[d]))

(* A 304, on which the edge serves what it has mapped.                     *)
NotModified(d) ==
  /\ pc[d] = "ask" /\ Target[d] \in indexed /\ Matches(d)
  /\ \E x \in Cached(d) : Store(d, x.body)
  /\ Goto(d, "served") /\ Unlock(d)
  /\ UNCHANGED <<clock, route, origin, disk, via, got, history>>

(* A 200, whose body the edge begins to read.                              *)
Modified(d) ==
  /\ pc[d] = "ask" /\ Target[d] \in indexed /\ ~Matches(d) /\ Goto(d, "body")
  /\ UNCHANGED <<clock, route, origin, edges, via, got, history>>

(* The end of the body, all of which the client has got: the edge commits  *)
(* what it has read, without waiting for the last of its writes.           *)
Commit(d, body) ==
  /\ pc[d] = "body" /\ Store(d, body) /\ Goto(d, "served") /\ Unlock(d)
  /\ got' = [got EXCEPT ![d] = body]
  /\ disk' = [disk EXCEPT ![via[d]][Target[d]] = "flight"]
  /\ stored' = [stored EXCEPT ![Target[d]] = @ + 1]
  /\ UNCHANGED <<clock, route, origin, via, due, misread, early>>

EndBody(d) == Commit(d, "whole") /\ UNCHANGED cut

LandWrite(e, f) ==
  /\ disk[e][f] = "flight" /\ disk' = [disk EXCEPT ![e][f] = "landed"]
  /\ UNCHANGED <<clock, route, origin, entry, leader, answers, history>>

-----------------------------------------------------------------------------
(* Faults.                                                                 *)

(* The origin cannot be reached, or the edge cannot write.                 *)
Down(d) ==
  /\ "down" \in Faults /\ pc[d] = "ask" /\ Goto(d, "failed") /\ Unlock(d)
  /\ UNCHANGED <<clock, route, origin, entry, disk, via, got, history>>

(* The storage fails under the index of the file: for the origin there is  *)
(* no such file.                                                           *)
Misread(d) ==
  /\ "read" \in Faults /\ pc[d] = "ask" /\ Goto(d, "notFound") /\ Unlock(d)
  /\ misread' = misread \cup {d}
  /\ UNCHANGED <<clock, route, origin, entry, disk, via, got, stored, cut, due, early>>

(* The connection ends before the body does.  The mutant takes an error of *)
(* the body for its end.                                                   *)
Mutant_BreakCommits(d) ==
  "break" \in Faults /\ Commit(d, "cut") /\ UNCHANGED cut
Break(d) ==
  /\ "break" \in Faults /\ pc[d] = "body" /\ Goto(d, "failed") /\ Unlock(d)
  /\ UNCHANGED <<clock, route, origin, entry, disk, via, got, history>>

(* The storage fails under io.Copy, and the origin ends the body there.    *)
Cut(d) == /\ "cut" \in Faults /\ Commit(d, "cut")
          /\ cut' = cut \cup {Target[d]}

(* The last write of a body fails after the commit.                        *)
LoseWrite(e, f) ==
  /\ "lose" \in Faults
  /\ disk[e][f] = "flight" /\ disk' = [disk EXCEPT ![e][f] = "lost"]
  /\ UNCHANGED <<clock, route, origin, entry, leader, answers, history>>

(* An edge dies with its requests and its writes in flight, and restarts   *)
(* on its disk.                                                            *)
Crash(e) ==
  /\ "crash" \in Faults
  /\ pc' = [d \in Downloads |->
              IF via[d] = e /\ pc[d] \in Active THEN "failed" ELSE pc[d]]
  /\ leader' = [leader EXCEPT ![e] = [f \in Files |-> None]]
  /\ disk' = [disk EXCEPT ![e] = [f \in Files |->
                IF disk[e][f] = "flight" THEN "lost" ELSE disk[e][f]]]
  /\ UNCHANGED <<clock, route, origin, entry, via, got, history>>

Tick ==
  /\ clock < MaxTime /\ clock' = clock + 1
  /\ UNCHANGED <<route, origin, edges, answers, history>>

Download(d) ==
  \/ Route(d) \/ Lookup(d) \/ Lead(d) \/ Recheck(d)
  \/ NotFound(d) \/ NotModified(d) \/ Modified(d) \/ EndBody(d)
  \/ Down(d) \/ Misread(d) \/ Break(d) \/ Cut(d)

Next ==
  \/ \E f \in Files : PutIndex(f) \/ Acknowledge(f)
  \/ \E d \in Downloads : Download(d)
  \/ \E e \in Edges, f \in Files : LandWrite(e, f) \/ LoseWrite(e, f)
  \/ \E e \in Edges : Crash(e)
  \/ Tick

Spec == Init /\ [][Next]_vars

-----------------------------------------------------------------------------
(* edge-gateway/README.md:3: the same file always goes to the same edge,   *)
(* which rules out duplicates in the caches.  All edges together cache the *)
(* body of a file once: waiters find what their leader has cached, and an  *)
(* expired copy is renewed by a 304 although checksums are compared        *)
(* without their values.                                                   *)
OneBody == \A f \in Files : stored[f] <= 1

(* A download that is answered with content has all of it, but for three   *)
(* causes.  The origin itself has sent a part as the whole (io.Copy fails  *)
(* after the 200).  The edge has lost the last write of the file, because  *)
(* it failed or the process died: commit (writer.rs:61) does not wait for  *)
(* it.  The download has mapped the file before that write was there.  The *)
(* first two stay in the cache, since every 304 renews what it finds; no   *)
(* broken transfer, other edge, restart or renewal adds to them.           *)
Excused(d) ==
  \/ Target[d] \in cut
  \/ Written(d) = "lost"
  \/ d \in early
ServedIsFile == \A d \in Downloads : pc[d] = "served" => got[d] = "whole" \/ Excused(d)

(* Who downloads a file after its upload was answered 201 is told that     *)
(* there is none only when the storage has failed under that very request  *)
(* (file_repository.go:43).  No edge remembers a 404, neither one of a     *)
(* download before the upload nor one of a failing storage.                *)
FoundOnceAcknowledged == \A d \in due \ misread : pc[d] # "notFound"

(* Every edge keeps, for every file, the contract that EdgeCache is shown  *)
(* to implement, with other edges, the gateway and the origin around it.   *)
AnswersAt(e, f) == [d \in Downloads |->
  IF via[d] # e \/ Target[d] # f \/ pc[d] \notin Ended THEN [kind |-> "waiting", ver |-> 0]
  ELSE IF pc[d] = "served" THEN [kind |-> "served", ver |-> 1]
                           ELSE [kind |-> "failed", ver |-> 0]]

Cache(e, f) == INSTANCE CacheContract WITH
  Requests <- Downloads,
  entry    <- {[ver |-> 1, exp |-> x.exp] : x \in entry[e][f]},
  answer   <- AnswersAt(e, f)

EdgesKeepContract ==
  /\ \A e \in Edges, f \in Files : Cache(e, f)!Init
  /\ [][\A e \in Edges, f \in Files : [Cache(e, f)!Next]_(Cache(e, f)!vars)]_vars

=============================================================================
