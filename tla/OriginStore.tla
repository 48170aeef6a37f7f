----------------------------- MODULE OriginStore -----------------------------
(***************************************************************************)
(* origin-service and the objects it keeps in MinIO: POST /files, GET      *)
(* /files/{id} and GET /users/me/files.                                    *)
(*                                                                         *)
(* A file is three objects: its content, a sidecar meta.json next to it,   *)
(* which listings read, and an index entry, which downloads read.  Nothing *)
(* is locked: each request is a sequence of calls of the storage, and a    *)
(* step is one call with what the handler does until the next.  A call may *)
(* fail without effect (refused) or leave the caller without its answer,   *)
(* its effect coming at any later time or never (lost).  A client that     *)
(* leaves cancels the context all calls of its request use, those of the   *)
(* clean-up included.                                                      *)
(*                                                                         *)
(* generateFileID draws 16 random bytes: an upload stands for its file id. *)
(***************************************************************************)
EXTENDS Integers

CONSTANTS
  Uploads,      \* POST /files requests, each of its own file id
  Downloads,    \* GET /files/{id} requests
  Listings,     \* GET /users/me/files requests
  Users,
  Owner,        \* the user an upload's token belongs to
  Target,       \* the file id a download asks for
  Conditional,  \* downloads that send the file's tag in If-None-Match
  Lister,       \* the user a listing's token belongs to
  MetaNamed,    \* uploads of a file whose name is meta.json
  Faults,       \* what the environment may do wrong
  MaxFailures   \* bound: storage calls of uploads that fail

FaultKinds == {"refused", "lost", "cancel", "crash", "read"}

ASSUME RequestsAssumption == /\ Owner \in [Uploads -> Users]
                             /\ Target \in [Downloads -> Uploads]
                             /\ Conditional \subseteq Downloads
                             /\ Lister \in [Listings -> Users]
                             /\ MetaNamed \subseteq Uploads
ASSUME FaultsAssumption   == Faults \subseteq FaultKinds /\ MaxFailures \in Nat

Parts   == {"content", "sidecar", "index"}
Keys    == Uploads \X Parts
Objects == {"nothing", "body", "metadata"}   \* what the storage has under a key

(* Two names for one object, if the file is called meta.json.              *)
ContentKey(u) == <<u, IF u \in MetaNamed THEN "sidecar" ELSE "content">>
SidecarKey(u) == <<u, "sidecar">>
IndexKey(u)   == <<u, "index">>

VARIABLES
  held,      \* object under each key
  late,      \* calls given up by their caller that may still take effect
  pc,        \* where each upload is
  dpc,       \* where each download is
  lpc,       \* where each listing is
  todo,      \* files whose sidecar a listing has still to read
  items,     \* files a listing has found
  due,       \* history: files acknowledged before the listing began
  failures   \* storage calls of uploads that failed

vars == <<held, late, pc, dpc, lpc, todo, items, due, failures>>

Puts     == {"content", "sidecar", "index"}
Removals == {"rmOwnSidecar", "rmContent", "rmSidecar", "rmIndex"}
Calling  == Puts \cup Removals
UploadLabels   == {"idle", "verify", "created", "rejected", "failed", "abandoned"} \cup Calling
DownloadLabels == {"idle", "index", "copy", "notModified", "whole", "wrong", "short",
                   "notFound", "broken"}
ListingLabels  == {"idle", "list", "read", "listed", "failed", "broken"}

TypeOK ==
  /\ held \in [Keys -> Objects]
  /\ late \subseteq Keys \X Objects
  /\ pc \in [Uploads -> UploadLabels]
  /\ dpc \in [Downloads -> DownloadLabels]
  /\ lpc \in [Listings -> ListingLabels]
  /\ todo \in [Listings -> SUBSET Uploads]
  /\ items \in [Listings -> SUBSET Uploads]
  /\ due \in [Listings -> SUBSET Uploads]
  /\ failures \in 0 .. MaxFailures

Init ==
  /\ held = [k \in Keys |-> "nothing"] /\ late = {}
  /\ pc = [u \in Uploads |-> "idle"]
  /\ dpc = [d \in Downloads |-> "idle"]
  /\ lpc = [l \in Listings |-> "idle"]
  /\ todo = [l \in Listings |-> {}] /\ items = [l \in Listings |-> {}]
  /\ due = [l \in Listings |-> {}]
  /\ failures = 0

-----------------------------------------------------------------------------
(* Calls of the storage by an upload.                                      *)

Goto(u, label) == pc' = [pc EXCEPT ![u] = label]

(* The call an upload is making: a key and what it is to hold.             *)
Call(u) ==
  CASE pc[u] = "content" -> <<ContentKey(u), "body">>
    [] pc[u] = "sidecar" -> <<SidecarKey(u), "metadata">>
    [] pc[u] = "index" -> <<IndexKey(u), "metadata">>
    [] pc[u] = "rmContent" -> <<ContentKey(u), "nothing">>
    [] pc[u] \in {"rmOwnSidecar", "rmSidecar"} -> <<SidecarKey(u), "nothing">>
    [] pc[u] = "rmIndex" -> <<IndexKey(u), "nothing">>

Apply(call) == held' = [held EXCEPT ![call[1]] = call[2]]

(* The call succeeds and the upload goes on at next, or it fails.          *)
Attempt(u, next, otherwise) ==
  /\ \/ Apply(Call(u)) /\ Goto(u, next) /\ UNCHANGED <<late, failures>>
     \/ /\ failures < MaxFailures /\ failures' = failures + 1
        /\ Goto(u, otherwise) /\ UNCHANGED held
        /\ \/ "refused" \in Faults /\ UNCHANGED late
           \/ "lost" \in Faults /\ late' = late \cup {Call(u)}
  /\ UNCHANGED <<dpc, lpc, todo, items, due>>

LandLate ==
  \E call \in late :
    /\ Apply(call) /\ late' = late \ {call}
    /\ UNCHANGED <<pc, dpc, lpc, todo, items, due, failures>>

-----------------------------------------------------------------------------
(* POST /files.                                                            *)

Receive(u) ==
  /\ pc[u] = "idle" /\ Goto(u, "verify")
  /\ UNCHANGED <<held, late, dpc, lpc, todo, items, due, failures>>

(* 400, 401 or 413, or on to the storage.                                  *)
Verify(u) ==
  /\ pc[u] = "verify" /\ (Goto(u, "rejected") \/ Goto(u, "content"))
  /\ UNCHANGED <<held, late, dpc, lpc, todo, items, due, failures>>

(* The mutant saves the metadata of a content it could not put.            *)
Mutant_PutContentGoesOn(u) == pc[u] = "content" /\ Attempt(u, "sidecar", "sidecar")
PutContent(u) == pc[u] = "content" /\ Attempt(u, "sidecar", "failed")

(* saveMetadata; a put that fails is undone, blindly, by UploadFile.  The  *)
(* mutants of the sidecar forget the index or leave the content.           *)
Mutant_PutSidecarOnly(u)   == pc[u] = "sidecar" /\ Attempt(u, "created", "rmContent")
Mutant_PutSidecarKeeps(u)  == pc[u] = "sidecar" /\ Attempt(u, "index", "rmSidecar")
PutSidecar(u) == pc[u] = "sidecar" /\ Attempt(u, "index", "rmContent")

(* The mutant reports success whatever became of the call.                 *)
Mutant_PutIndexIgnored(u) == pc[u] = "index" /\ Attempt(u, "created", "created")
PutIndex(u) == pc[u] = "index" /\ Attempt(u, "created", "rmOwnSidecar")

(* saveMetadata's own clean-up, then UploadFile's; results are ignored.    *)
RemoveOwnSidecar(u) == pc[u] = "rmOwnSidecar" /\ Attempt(u, "rmContent", "rmContent")
RemoveContent(u)    == pc[u] = "rmContent" /\ Attempt(u, "rmSidecar", "rmSidecar")
RemoveSidecar(u)    == pc[u] = "rmSidecar" /\ Attempt(u, "rmIndex", "rmIndex")
RemoveIndex(u)      == pc[u] = "rmIndex" /\ Attempt(u, "failed", "failed")

(* The client leaves: the call in flight may take effect or not, and every *)
(* later one fails at once.                                                *)
Leave(u) ==
  /\ "cancel" \in Faults
  /\ pc[u] \in Calling
  /\ late' \in {late, late \cup {Call(u)}}
  /\ Goto(u, "abandoned")
  /\ UNCHANGED <<held, dpc, lpc, todo, items, due, failures>>

-----------------------------------------------------------------------------
(* GET /files/{id}.                                                        *)

Respond(d, label) ==
  /\ dpc' = [dpc EXCEPT ![d] = label]
  /\ UNCHANGED <<held, late, pc, lpc, todo, items, due, failures>>

Request(d) == dpc[d] = "idle" /\ Respond(d, "index")

(* loadMetadata, whose every error GetFile reports as file not found, and  *)
(* the comparison of the tags.                                             *)
LoadMetadata(d) ==
  /\ dpc[d] = "index"
  /\ \/ /\ held[IndexKey(Target[d])] = "nothing" \/ "read" \in Faults
        /\ Respond(d, "notFound")
     \/ /\ held[IndexKey(Target[d])] # "nothing"
        /\ Respond(d, IF d \in Conditional THEN "notModified" ELSE "copy")

(* The object is first touched here, when the status and the headers have  *)
(* been sent; the response of a failed copy ends like any other.           *)
Copy(d) ==
  LET object == held[ContentKey(Target[d])]
  IN  /\ dpc[d] = "copy"
      /\ \/ object = "body" /\ Respond(d, "whole")
         \/ object = "metadata" /\ Respond(d, "wrong")
         \/ /\ object = "nothing" \/ "read" \in Faults
            /\ Respond(d, "short")

-----------------------------------------------------------------------------
(* GET /users/me/files, on a context of its own.                           *)

Ask(l) ==
  /\ lpc[l] = "idle"
  /\ lpc' = [lpc EXCEPT ![l] = "list"]
  /\ due' = [due EXCEPT ![l] = {u \in Uploads : pc[u] = "created" /\ Owner[u] = Lister[l]}]
  /\ UNCHANGED <<held, late, pc, dpc, todo, items, failures>>

(* ListObjects under the user's prefix (one page), of which only sidecars  *)
(* are read; the mutant reads all of them.                                 *)
Mutant_ListedAll(l) == {k \in Keys : Owner[k[1]] = Lister[l] /\ held[k] # "nothing"}
Listed(l) == {u \in Uploads : Owner[u] = Lister[l] /\ held[SidecarKey(u)] # "nothing"}

ListObjects(l) ==
  /\ lpc[l] = "list"
  /\ \/ /\ todo' = [todo EXCEPT ![l] = Listed(l)]
        /\ lpc' = [lpc EXCEPT ![l] = "read"]
     \/ /\ "read" \in Faults
        /\ lpc' = [lpc EXCEPT ![l] = "failed"] /\ UNCHANGED todo
  /\ UNCHANGED <<held, late, pc, dpc, items, due, failures>>

(* One sidecar that has gone, or is not metadata, fails the whole listing; *)
(* the mutant returns what it has found so far.                            *)
Mutant_ReadSidecarStops(l) ==
  /\ lpc[l] = "read"
  /\ \/ todo[l] = {} /\ UNCHANGED <<todo, items>>
        /\ lpc' = [lpc EXCEPT ![l] = "listed"]
     \/ \E u \in todo[l] :
          /\ todo' = [todo EXCEPT ![l] = @ \ {u}]
          /\ IF held[SidecarKey(u)] = "metadata"
             THEN items' = [items EXCEPT ![l] = @ \cup {u}] /\ UNCHANGED lpc
             ELSE lpc' = [lpc EXCEPT ![l] = "listed"] /\ UNCHANGED items
  /\ UNCHANGED <<held, late, pc, dpc, due, failures>>

ReadSidecar(l) ==
  /\ lpc[l] = "read"
  /\ \/ /\ todo[l] = {}
        /\ lpc' = [lpc EXCEPT ![l] = "listed"] /\ UNCHANGED <<todo, items>>
     \/ \E u \in todo[l] :
          /\ todo' = [todo EXCEPT ![l] = @ \ {u}]
          /\ \/ /\ held[SidecarKey(u)] = "metadata"
                /\ items' = [items EXCEPT ![l] = @ \cup {u}] /\ UNCHANGED lpc
             \/ /\ held[SidecarKey(u)] # "metadata" \/ "read" \in Faults
                /\ lpc' = [lpc EXCEPT ![l] = "failed"] /\ UNCHANGED items
  /\ UNCHANGED <<held, late, pc, dpc, due, failures>>

-----------------------------------------------------------------------------
(* The process dies and starts again, with the objects as they are.        *)
Crash ==
  /\ "crash" \in Faults
  /\ \E landing \in SUBSET {u \in Uploads : pc[u] \in Calling} :
       late' = late \cup {Call(u) : u \in landing}
  /\ pc' = [u \in Uploads |-> IF pc[u] \in Calling \cup {"verify"} THEN "abandoned" ELSE pc[u]]
  /\ dpc' = [d \in Downloads |-> IF dpc[d] \in {"index", "copy"} THEN "broken" ELSE dpc[d]]
  /\ lpc' = [l \in Listings |-> IF lpc[l] \in {"list", "read"} THEN "broken" ELSE lpc[l]]
  /\ UNCHANGED <<held, todo, items, due, failures>>

Upload(u) ==
  \/ Receive(u) \/ Verify(u)
  \/ PutContent(u) \/ PutSidecar(u) \/ PutIndex(u)
  \/ RemoveOwnSidecar(u) \/ RemoveContent(u) \/ RemoveSidecar(u) \/ RemoveIndex(u)
  \/ Leave(u)
Download(d) == Request(d) \/ LoadMetadata(d) \/ Copy(d)
List(l)     == Ask(l) \/ ListObjects(l) \/ ReadSidecar(l)

Next ==
  \/ \E u \in Uploads : Upload(u)
  \/ \E d \in Downloads : Download(d)
  \/ \E l \in Listings : List(l)
  \/ LandLate \/ Crash

Spec == Init /\ [][Next]_vars

-----------------------------------------------------------------------------
(* Properties.                                                             *)

Stored(u)  == /\ held[ContentKey(u)] = "body"
              /\ held[SidecarKey(u)] = "metadata"
              /\ held[IndexKey(u)] = "metadata"

(* A file whose upload was answered 201 has all its objects, and no late   *)
(* effect, clean-up or restart takes one away.                             *)
AcknowledgedIsStored == \A u \in Uploads : pc[u] = "created" => Stored(u)

(* A 200 carries the file: no reader finds an index entry that leads to    *)
(* no content, although the index is an object of its own and content may  *)
(* be removed while it is being looked up.                                 *)
DownloadIsWhole == \A d \in Downloads : dpc[d] \notin {"short", "wrong"}

(* An acknowledged file is never reported missing.                         *)
FoundOnceCreated ==
  [][\A d \in Downloads : pc[Target[d]] = "created" /\ dpc'[d] = "notFound"
                            => dpc[d] = "notFound"]_vars

(* A listing that succeeds has every file acknowledged before it began,    *)
(* whatever other uploads of the user do meanwhile.                        *)
ListingIsComplete == \A l \in Listings : lpc[l] = "listed" => due[l] \subseteq items[l]

(* One failing call is undone completely: an upload answered 500 leaves    *)
(* no object, if its clean-up did not fail as well.                        *)
RolledBack ==
  failures <= 1 => \A u \in Uploads : pc[u] = "failed" =>
    \A part \in Parts : held[<<u, part>>] = "nothing"

=============================================================================
