--------------------------- MODULE DeliveryProofs ---------------------------
(***************************************************************************)
(* Delivery for any number of files, edges and downloads, any lifetime and *)
(* every fault: each file is cached once, served whole but for the causes  *)
(* that Excused names, and found once it was acknowledged while the storage*)
(* can be read, and each edge keeps the contract of the cache.             *)
(***************************************************************************)
EXTENDS Delivery, TLAPS

-----------------------------------------------------------------------------
(* The invariant.                                                          *)

(* A download is at the edge of its file, and leads only with its lock.    *)
PlaceInv ==
  \A d \in Downloads :
    /\ pc[d] # "idle" => via[d] = route[Target[d]]
    /\ pc[d] \in Leading => leader[via[d]][Target[d]] = d

(* A copy has the tag of its file and, unless the origin has cut the file, *)
(* all of its body.                                                        *)
CopyInv ==
  \A e \in Edges, f \in Files : \A x \in entry[e][f] :
    x.tag = Tag(f) /\ (x.body = "whole" \/ f \in cut)

(* Only what is cached has a last write that is in flight or lost.         *)
DiskInv ==
  \A e \in Edges, f \in Files : entry[e][f] = {} => disk[e][f] = "landed"

(* Who asks the origin about a copy has mapped it.                         *)
MappedInv ==
  \A d \in Downloads :
    pc[d] = "ask" /\ Cached(d) # {} => got[d] = "whole" \/ Excused(d)

(* Who reads a body has no copy: with one, the tags would have matched.    *)
BodyInv ==
  \A d \in Downloads : pc[d] = "body" => entry[via[d]][Target[d]] = {}

(* What was stored is still there.                                         *)
StoredInv ==
  \A f \in Files : stored[f] <= 1 /\ (entry[route[f]][f] = {} => stored[f] = 0)

(* What was acknowledged can be found.                                     *)
DueInv == created \subseteq indexed /\ \A d \in due : Target[d] \in created

DeliveryInv ==
  /\ TypeOK /\ PlaceInv /\ CopyInv /\ DiskInv /\ MappedInv /\ BodyInv /\ StoredInv
  /\ DueInv
  /\ ServedIsFile /\ FoundOnceAcknowledged

-----------------------------------------------------------------------------

(* The invariant holds at the start.                                       *)
LEMMA InitInv == Init => DeliveryInv
BY FilesAssumption, BoundsAssumption, NoneAssumption, SMTT(30)
DEF Init, DeliveryInv, TypeOK, PlaceInv, CopyInv, DiskInv, MappedInv, BodyInv, StoredInv, DueInv, ServedIsFile,
    FoundOnceAcknowledged, Leading, Active, Ended

(* Where a download is.                                                    *)
LEMMA Place ==
  ASSUME TypeOK, PlaceInv, NEW d \in Downloads, pc[d] # "idle"
  PROVE  via[d] \in Edges /\ Target[d] \in Files /\ via[d] = route[Target[d]]
BY FilesAssumption DEF TypeOK, PlaceInv

(* Giving a lock back keeps the type of the locks.                         *)
LEMMA UnlockType ==
  ASSUME TypeOK, PlaceInv, NEW d \in Downloads, pc[d] # "idle", Unlock(d)
  PROVE  leader' \in [Edges -> [Files -> Downloads \cup {None}]]
<1> leader \in [Edges -> [Files -> Downloads \cup {None}]] BY DEF TypeOK
<1> QED BY Place DEF Unlock

(* What a step that stores a body leaves alone.                            *)
LEMMA StoreType ==
  ASSUME TypeOK, PlaceInv, NEW d \in Downloads, pc[d] # "idle",
         NEW body \in {"whole", "cut"}, Store(d, body)
  PROVE  /\ entry' \in [Edges -> [Files -> SUBSET Entries]]
         /\ \A e \in Edges, f \in Files : \A x, y \in entry'[e][f] : x = y
         /\ \A e \in Edges, f \in Files :
              entry'[e][f] = IF e = via[d] /\ f = Target[d]
                             THEN {[tag |-> Tag(f), body |-> body, exp |-> clock + MaxAge]}
                             ELSE entry[e][f]
<1> DEFINE new == [tag |-> Tag(Target[d]), body |-> body, exp |-> clock + MaxAge]
<1>1. via[d] \in Edges /\ Target[d] \in Files BY Place
<1>2. new \in Entries BY <1>1, BoundsAssumption DEF TypeOK, Entries
<1>3. entry' = [entry EXCEPT ![via[d]][Target[d]] = {new}] BY DEF Store
<1>4. entry \in [Edges -> [Files -> SUBSET Entries]] BY DEF TypeOK
<1>5. {new} \in SUBSET Entries BY <1>2
<1> HIDE DEF new
<1>6. entry' \in [Edges -> [Files -> SUBSET Entries]] BY <1>1, <1>3, <1>4, <1>5
<1>7. \A e \in Edges, f \in Files :
        entry'[e][f] = IF e = via[d] /\ f = Target[d] THEN {new} ELSE entry[e][f]
  BY <1>1, <1>3, <1>4
<1>8. \A e \in Edges, f \in Files : \A x, y \in entry'[e][f] : x = y
  <2>1. \A e \in Edges, f \in Files : \A x, y \in entry[e][f] : x = y BY DEF TypeOK
  <2> QED BY <1>7, <2>1
<1> QED BY <1>6, <1>7, <1>8 DEF new

(* What a lookup maps is content.                                          *)
LEMMA MapType ==
  ASSUME TypeOK, PlaceInv, NEW d \in Downloads, pc[d] # "idle", NEW x \in Cached(d), Map(d, x)
  PROVE  got' \in [Downloads -> {"nothing", "whole", "cut", "short"}] /\ early' \subseteq Downloads
<1>1. x \in Entries BY Place DEF TypeOK, Cached
<1>2. x.body \in {"whole", "cut"} BY <1>1 DEF Entries
<1> QED BY <1>2 DEF TypeOK, Map

(* Every step keeps the types; a store makes the entry a singleton.        *)
LEMMA TypeStep == TypeOK /\ PlaceInv /\ [Next]_vars => TypeOK'
<1> SUFFICES ASSUME TypeOK, PlaceInv, [Next]_vars PROVE TypeOK' OBVIOUS
<1> USE FilesAssumption, BoundsAssumption, NoneAssumption
<1> USE DEF Active, Leading, Ended, Goto, Unlock, Cached
<1>1. ASSUME NEW f \in Files, PutIndex(f) \/ Acknowledge(f) PROVE TypeOK'
  BY <1>1 DEF TypeOK, PutIndex, Acknowledge, edges, answers, history
<1>2. ASSUME NEW d \in Downloads, Route(d) PROVE TypeOK'
  BY <1>2 DEF TypeOK, Route, origin, edges
<1>3. ASSUME NEW d \in Downloads, Hit(d), leader' = leader \/ Unlock(d), pc[d] # "idle" PROVE TypeOK'
  <2>1. PICK x \in Cached(d) : Map(d, x) BY <1>3 DEF Hit
  <2>2. got' \in [Downloads -> {"nothing", "whole", "cut", "short"}] /\ early' \subseteq Downloads
    BY <1>3, <2>1, MapType
  <2>3. leader' \in [Edges -> [Files -> Downloads \cup {None}]] BY <1>3, UnlockType DEF TypeOK
  <2>4. pc' \in [Downloads -> Active \cup Ended \cup {"idle"}] BY <1>3 DEF Hit, TypeOK
  <2>5. UNCHANGED <<clock, route, origin, entry, disk, via, stored, cut, due, misread>>
    BY <1>3 DEF Hit
  <2> QED BY <2>2, <2>3, <2>4, <2>5 DEF TypeOK, origin
<1>4. ASSUME NEW d \in Downloads, Lookup(d) PROVE TypeOK'
  BY <1>3, <1>4 DEF TypeOK, Lookup, origin, edges, history
<1>5. ASSUME NEW d \in Downloads, Lead(d) PROVE TypeOK'
  BY <1>5 DEF TypeOK, PlaceInv, Lead, origin, history
<1>6. ASSUME NEW d \in Downloads, Recheck(d) PROVE TypeOK'
  <2>1. CASE Hit(d) /\ Unlock(d) BY <1>3, <1>6, <2>1 DEF Recheck
  <2>2. CASE ~(Hit(d) /\ Unlock(d))
    <3>1. /\ Goto(d, "ask")
          /\ UNCHANGED <<clock, route, origin, edges, via, stored, cut, due, misread>>
      BY <1>6, <2>2 DEF Recheck
    <3>2. got' \in [Downloads -> {"nothing", "whole", "cut", "short"}] /\ early' \subseteq Downloads
      <4>1. CASE UNCHANGED <<got, early>> BY <4>1 DEF TypeOK
      <4>2. CASE \E x \in Cached(d) : Map(d, x) BY <1>6, <4>2, MapType DEF Recheck
      <4> QED BY <1>6, <2>2, <4>1, <4>2 DEF Recheck
    <3> QED BY <3>1, <3>2 DEF TypeOK, origin, edges
  <2> QED BY <2>1, <2>2
<1>7. ASSUME NEW d \in Downloads, NotFound(d) \/ Misread(d) \/ Down(d) \/ Break(d) PROVE TypeOK'
  <2>1. pc[d] # "idle" /\ Unlock(d) BY <1>7 DEF NotFound, Misread, Down, Break
  <2> QED BY <1>7, <2>1, UnlockType DEF TypeOK, NotFound, Misread, Down, Break, origin, history
<1>8. ASSUME NEW d \in Downloads, Modified(d) PROVE TypeOK'
  BY <1>8 DEF TypeOK, Modified, origin, edges, history
<1>9. ASSUME NEW d \in Downloads, NotModified(d) PROVE TypeOK'
  <2>1. PICK x \in Cached(d) : Store(d, x.body) BY <1>9 DEF NotModified
  <2>2. pc[d] # "idle" /\ Unlock(d) BY <1>9 DEF NotModified
  <2>3. x.body \in {"whole", "cut"} BY <2>2, Place DEF TypeOK, Entries
  <2>4. /\ entry' \in [Edges -> [Files -> SUBSET Entries]]
        /\ \A e \in Edges, f \in Files : \A a, b \in entry'[e][f] : a = b
    BY <2>1, <2>2, <2>3, StoreType
  <2>5. leader' \in [Edges -> [Files -> Downloads \cup {None}]] BY <2>2, UnlockType
  <2>6. UNCHANGED <<clock, route, origin, disk, via, got, history>> /\ Goto(d, "served")
    BY <1>9 DEF NotModified
  <2> QED BY <2>4, <2>5, <2>6 DEF TypeOK, origin, history
<1>10. ASSUME NEW d \in Downloads, EndBody(d) \/ Cut(d) PROVE TypeOK'
  <2>1. PICK body \in {"whole", "cut"} : Commit(d, body) BY <1>10 DEF EndBody, Cut
  <2>2. pc[d] # "idle" /\ Unlock(d) /\ Store(d, body) BY <2>1 DEF Commit
  <2>3. Target[d] \in Files BY FilesAssumption
  <2>4. /\ entry' \in [Edges -> [Files -> SUBSET Entries]]
        /\ \A e \in Edges, f \in Files : \A a, b \in entry'[e][f] : a = b
    BY <2>2, StoreType
  <2>5. leader' \in [Edges -> [Files -> Downloads \cup {None}]] BY <2>2, UnlockType
  <2>6. cut' \subseteq Files BY <1>10, <2>3 DEF EndBody, Cut, TypeOK
  <2>7. stored' \in [Files -> Nat] BY <2>1, <2>3 DEF Commit, TypeOK
  <2>8. /\ UNCHANGED <<clock, route, origin, via, due, misread, early>> /\ Goto(d, "served")
        /\ got' = [got EXCEPT ![d] = body]
    BY <2>1 DEF Commit
  <2>9. disk' \in [Edges -> [Files -> {"flight", "landed", "lost"}]]
    BY <2>1, <2>2, <2>3, Place DEF Commit, TypeOK
  <2> QED BY <2>4, <2>5, <2>6, <2>7, <2>8, <2>9 DEF TypeOK, origin
<1>11. ASSUME NEW e \in Edges, Crash(e) PROVE TypeOK'
  BY <1>11 DEF TypeOK, Crash, origin, history
<1>12. ASSUME Tick PROVE TypeOK'
  BY <1>12 DEF TypeOK, Tick, origin, edges, answers, history
<1>13. ASSUME UNCHANGED vars PROVE TypeOK'
  BY <1>13 DEF TypeOK, vars, origin, edges, answers, history
<1>14. ASSUME NEW e \in Edges, NEW f \in Files, LandWrite(e, f) \/ LoseWrite(e, f) PROVE TypeOK'
  <2>1. PICK to \in {"landed", "lost"} : disk' = [disk EXCEPT ![e][f] = to]
    BY <1>14 DEF LandWrite, LoseWrite
  <2>2. disk' \in [Edges -> [Files -> {"flight", "landed", "lost"}]] BY <2>1 DEF TypeOK
  <2>3. UNCHANGED <<clock, route, origin, entry, leader, answers, history>>
    BY <1>14 DEF LandWrite, LoseWrite
  <2> QED BY <2>2, <2>3 DEF TypeOK, origin, answers, history
<1> QED
  BY <1>1, <1>2, <1>4, <1>5, <1>6, <1>7, <1>8, <1>9, <1>10, <1>11, <1>12, <1>13, <1>14
  DEF Next, Download

-----------------------------------------------------------------------------
(* Locks.                                                                  *)

(* A download takes a step at its place, and keeps its lock or leaves it.  *)
LEMMA PlaceMove ==
  ASSUME TypeOK, PlaceInv, NEW d \in Downloads, NEW s, pc[d] # "idle", Goto(d, s),
         UNCHANGED <<route, via>>,
         \/ leader' = leader /\ (s \in Leading => pc[d] \in Leading)
         \/ Unlock(d) /\ pc[d] \in Leading /\ s \notin Leading
  PROVE  PlaceInv'
<1>1. ASSUME NEW o \in Downloads
      PROVE  pc'[o] = IF o = d THEN s ELSE pc[o]
  BY <1>1 DEF Goto, TypeOK
<1>2. ASSUME NEW o \in Downloads, pc'[o] # "idle" PROVE via'[o] = route'[Target[o]]
  BY <1>1, <1>2 DEF PlaceInv
<1>3. ASSUME NEW o \in Downloads, pc'[o] \in Leading PROVE leader'[via'[o]][Target[o]] = o
  <2>1. CASE leader' = leader
    <3>1. pc[o] \in Leading BY <1>1, <1>3, <2>1 DEF Leading
    <3> QED BY <3>1, <2>1 DEF PlaceInv
  <2>2. CASE Unlock(d) /\ pc[d] \in Leading /\ s \notin Leading
    <3>1. o # d /\ pc[o] \in Leading BY <1>1, <1>3, <2>2
    <3>2. /\ leader[via[o]][Target[o]] = o /\ leader[via[d]][Target[d]] = d
      BY <3>1, <2>2 DEF PlaceInv
    <3>3. /\ via[o] \in Edges /\ Target[o] \in Files /\ via[d] \in Edges /\ Target[d] \in Files
      BY <3>1, <2>2, Place DEF Leading
    <3>4. leader \in [Edges -> [Files -> Downloads \cup {None}]] BY DEF TypeOK
    <3> QED BY <2>2, <3>1, <3>2, <3>3, <3>4 DEF Unlock
  <2> QED BY <2>1, <2>2, <1>1, <1>3
<1> QED BY <1>2, <1>3 DEF PlaceInv

(* Every step keeps downloads in place, and leaders under their locks.     *)
LEMMA PlaceStep == TypeOK /\ PlaceInv /\ [Next]_vars => PlaceInv'
<1> SUFFICES ASSUME TypeOK, PlaceInv, [Next]_vars PROVE PlaceInv' OBVIOUS
<1>1. ASSUME NEW f \in Files, PutIndex(f) \/ Acknowledge(f) PROVE PlaceInv'
  BY <1>1 DEF PlaceInv, PutIndex, Acknowledge, edges, answers
<1>2. ASSUME NEW d \in Downloads, Route(d) PROVE PlaceInv'
  BY <1>2 DEF TypeOK, PlaceInv, Route, Goto, Leading, edges
<1>3. ASSUME NEW d \in Downloads, Lookup(d) \/ Modified(d) PROVE PlaceInv'
  BY <1>3, PlaceMove DEF Lookup, Hit, Modified, Leading, edges
<1>4. ASSUME NEW d \in Downloads, Lead(d) PROVE PlaceInv'
  <2>1. via[d] \in Edges /\ Target[d] \in Files /\ via[d] = route[Target[d]]
    BY <1>4, Place DEF Lead
  <2>2. leader[via[d]][Target[d]] = None /\ None \notin Downloads BY <1>4, NoneAssumption DEF Lead
  <2>3. leader' = [leader EXCEPT ![via[d]][Target[d]] = d] /\ UNCHANGED <<route, via>>
    BY <1>4 DEF Lead
  <2>4. ASSUME NEW o \in Downloads PROVE pc'[o] = IF o = d THEN "recheck" ELSE pc[o]
    BY <1>4 DEF Lead, Goto, TypeOK
  <2>5. leader \in [Edges -> [Files -> Downloads \cup {None}]] BY DEF TypeOK
  <2>6. ASSUME NEW o \in Downloads, pc'[o] \in Leading PROVE leader'[via'[o]][Target[o]] = o
    <3>1. CASE o = d BY <3>1, <2>1, <2>3, <2>5
    <3>2. CASE o # d
      <4>1. pc[o] \in Leading BY <3>2, <2>4, <2>6
      <4>2. leader[via[o]][Target[o]] = o BY <4>1 DEF PlaceInv
      <4>3. via[o] \in Edges /\ Target[o] \in Files BY <4>1, Place DEF Leading
      <4> QED BY <4>2, <4>3, <2>1, <2>2, <2>3, <2>5
    <3> QED BY <3>1, <3>2
  <2>7. \A o \in Downloads : pc'[o] # "idle" => via'[o] = route'[Target[o]]
    BY <2>1, <2>3, <2>4 DEF PlaceInv
  <2> QED BY <2>6, <2>7 DEF PlaceInv
<1>5. ASSUME NEW d \in Downloads, Recheck(d) PROVE PlaceInv'
  BY <1>5, PlaceMove DEF Recheck, Hit, Leading, edges
<1>6. ASSUME NEW d \in Downloads, NotFound(d) \/ Misread(d) \/ Down(d) \/ Break(d) PROVE PlaceInv'
  BY <1>6, PlaceMove DEF NotFound, Misread, Down, Break, Leading
<1>7. ASSUME NEW d \in Downloads, NotModified(d) PROVE PlaceInv'
  BY <1>7, PlaceMove DEF NotModified, Leading
<1>8. ASSUME NEW d \in Downloads, EndBody(d) \/ Cut(d) PROVE PlaceInv'
  BY <1>8, PlaceMove DEF EndBody, Cut, Commit, Leading
<1>9. ASSUME NEW e \in Edges, Crash(e) PROVE PlaceInv'
  <2>1. \A d \in Downloads : pc'[d] = IF via[d] = e /\ pc[d] \in Active THEN "failed" ELSE pc[d]
    BY <1>9 DEF Crash
  <2>2. \A d \in Downloads : pc'[d] # "idle" => pc[d] # "idle"
    BY <2>1 DEF Active
  <2>3. \A d \in Downloads : pc'[d] \in Leading => pc[d] \in Leading /\ via[d] # e
    BY <2>1 DEF Active, Leading
  <2>4. \A d \in Downloads : via[d] # e => leader'[via[d]] = leader[via[d]] \/ via[d] \notin Edges
    BY <1>9 DEF Crash, TypeOK
  <2>5. \A d \in Downloads : pc[d] \in Leading => via[d] \in Edges
    BY Place DEF Leading
  <2>6. UNCHANGED <<route, via>> BY <1>9 DEF Crash
  <2> QED BY <2>2, <2>3, <2>4, <2>5, <2>6 DEF PlaceInv
<1>10. ASSUME Tick \/ UNCHANGED vars PROVE PlaceInv'
  BY <1>10 DEF PlaceInv, Tick, vars, edges, answers
<1>11. ASSUME NEW e \in Edges, NEW f \in Files, LandWrite(e, f) \/ LoseWrite(e, f) PROVE PlaceInv'
  BY <1>11 DEF PlaceInv, LandWrite, LoseWrite, answers
<1> QED
  BY <1>1, <1>2, <1>3, <1>4, <1>5, <1>6, <1>7, <1>8, <1>9, <1>10, <1>11 DEF Next, Download

-----------------------------------------------------------------------------
(* Copies.                                                                 *)

(* Only these steps change an entry: a 304 and the end of a body.          *)
Stores(d, body) ==
  /\ pc[d] \in {"ask", "body"} /\ Store(d, body) /\ Goto(d, "served")
  /\ UNCHANGED <<clock, route, origin, via, due, misread, early>>
  /\ \/ /\ pc[d] = "ask" /\ \E x \in Cached(d) : x.body = body
        /\ UNCHANGED <<disk, got, stored, cut>>
     \/ /\ pc[d] = "body" /\ stored' = [stored EXCEPT ![Target[d]] = @ + 1]
        /\ disk' = [disk EXCEPT ![via[d]][Target[d]] = "flight"]
        /\ got' = [got EXCEPT ![d] = body]
        /\ \/ body = "whole" /\ cut' = cut
           \/ body = "cut" /\ cut' = cut \cup {Target[d]}

(* Others leave the entries; a write that is lost stays lost.              *)
Settles ==
  /\ UNCHANGED <<route, entry, stored, cut>> /\ early \subseteq early'
  /\ \A e \in Edges, f \in Files : disk[e][f] # "flight" => disk'[e][f] = disk[e][f]

(* A download has mapped a copy.                                           *)
Maps(d) ==
  /\ pc[d] # "idle" /\ UNCHANGED disk
  /\ \E x \in Cached(d) : got'[d] = IF Written(d) = "landed" THEN x.body ELSE "short"
  /\ Written(d) = "flight" => d \in early'

(* What they do to downloads: who begins to read a body had no matching    *)
(* copy, and who is served, or asks about a copy, has mapped it.           *)
Moves ==
  \A d \in Downloads :
    /\ pc'[d] = "body" =>
         UNCHANGED <<via[d]>> /\ (pc[d] = "body" \/ (pc[d] = "ask" /\ ~Matches(d)))
    /\ pc'[d] = "served" =>
         UNCHANGED <<via[d]>> /\ ((pc[d] = "served" /\ got'[d] = got[d]) \/ Maps(d))
    /\ pc'[d] = "ask" =>
         /\ pc[d] # "idle" /\ UNCHANGED <<via[d]>>
         /\ (pc[d] = "ask" /\ got'[d] = got[d]) \/ Cached(d) = {} \/ Maps(d)
Keeps == Settles /\ Moves

(* A 304 and the end of a body, cut or not, are the steps that store.      *)
LEMMA StoreActions ==
  ASSUME TypeOK, PlaceInv, NEW d \in Downloads, NotModified(d) \/ EndBody(d) \/ Cut(d)
  PROVE  \E body \in {"whole", "cut"} : Stores(d, body)
<1>1. CASE NotModified(d)
  <2>1. PICK x \in Cached(d) : Store(d, x.body) BY <1>1 DEF NotModified
  <2>2. x \in Entries BY <1>1, Place DEF NotModified, Cached, TypeOK
  <2>3. x.body \in {"whole", "cut"} BY <2>2 DEF Entries
  <2> QED BY <1>1, <2>1, <2>3 DEF NotModified, Stores, history
<1>2. CASE EndBody(d)
  <2>1. Stores(d, "whole") BY <1>2 DEF EndBody, Commit, Stores
  <2> QED BY <2>1
<1>3. CASE Cut(d)
  <2>1. Stores(d, "cut") BY <1>3 DEF Cut, Commit, Stores
  <2> QED BY <2>1
<1> QED BY <1>1, <1>2, <1>3

(* One download moves, and is not served, asks nothing and reads nothing.  *)
LEMMA MovesOne ==
  ASSUME TypeOK, NEW d \in Downloads, NEW s, Goto(d, s), UNCHANGED <<got>>,
         \A o \in Downloads \ {d} : UNCHANGED <<via[o]>>, s \notin {"served", "ask", "body"}
  PROVE  Moves
BY DEF Goto, TypeOK, Moves

(* One download looks a copy up, and maps it or goes on without one.       *)
LEMMA MovesMap ==
  ASSUME TypeOK, NEW d \in Downloads, NEW s \in {"served", "ask"}, pc[d] # "idle",
         Goto(d, s), UNCHANGED <<via, disk>>,
         \/ \E x \in Cached(d) : Map(d, x)
         \/ s = "ask" /\ Cached(d) = {} /\ UNCHANGED <<got, early>>
  PROVE  Moves /\ early \subseteq early'
<1>1. \A o \in Downloads : pc'[o] = IF o = d THEN s ELSE pc[o] BY DEF Goto, TypeOK
<1>2. \A o \in Downloads \ {d} : got'[o] = got[o] BY DEF Map, TypeOK
<1>3. (\E x \in Cached(d) : Map(d, x)) => Maps(d) BY DEF Map, Maps, TypeOK
<1>4. early \subseteq early' BY DEF Map
<1> QED BY <1>1, <1>2, <1>3, <1>4 DEF Moves

(* What a step does to the entries, bodies and answers.                    *)
LEMMA Effects ==
  ASSUME TypeOK, PlaceInv, [Next]_vars
  PROVE  Keeps \/ \E d \in Downloads, body \in {"whole", "cut"} : Stores(d, body)
<1>1. ASSUME NEW f \in Files, PutIndex(f) \/ Acknowledge(f) PROVE Keeps
  BY <1>1 DEF Keeps, Settles, Moves, PutIndex, Acknowledge, edges, answers, history
<1>2. ASSUME NEW d \in Downloads, Route(d) PROVE Keeps
  <2>1. Goto(d, "lookup") /\ UNCHANGED <<got>> /\ \A o \in Downloads \ {d} : UNCHANGED <<via[o]>>
    BY <1>2 DEF TypeOK, Route
  <2>2. Moves BY <2>1, MovesOne
  <2> QED BY <1>2, <2>2 DEF Keeps, Settles, Route, edges
<1>3. ASSUME NEW d \in Downloads, Lookup(d) \/ Recheck(d) PROVE Keeps
  <2>1. UNCHANGED <<route, entry, disk, via, stored, cut>> /\ pc[d] # "idle"
    BY <1>3 DEF Lookup, Recheck, Hit, edges, history
  <2>2. CASE Goto(d, "lock") /\ UNCHANGED <<got, early>>
    <3>1. Moves BY <2>1, <2>2, MovesOne
    <3> QED BY <2>1, <2>2, <3>1 DEF Keeps, Settles
  <2>3. ASSUME NEW s \in {"served", "ask"}, Goto(d, s),
               \/ \E x \in Cached(d) : Map(d, x)
               \/ s = "ask" /\ Cached(d) = {} /\ UNCHANGED <<got, early>>
        PROVE  Keeps
    <3>1. Moves /\ early \subseteq early' BY <2>1, <2>3, MovesMap
    <3> QED BY <2>1, <3>1 DEF Keeps, Settles
  <2> QED BY <1>3, <2>2, <2>3 DEF Lookup, Recheck, Hit, history
<1>4. ASSUME NEW d \in Downloads, Lead(d) \/ NotFound(d) \/ Misread(d) \/ Down(d) \/ Break(d)
      PROVE  Keeps
  <2>1. PICK s \in {"recheck", "notFound", "failed"} : Goto(d, s)
    BY <1>4 DEF Lead, NotFound, Misread, Down, Break
  <2>2. UNCHANGED <<route, entry, disk, via, got, stored, cut, early>>
    BY <1>4 DEF Lead, NotFound, Misread, Down, Break, history
  <2>3. Moves BY <2>1, <2>2, MovesOne
  <2> QED BY <2>2, <2>3 DEF Keeps, Settles
<1>5. ASSUME NEW d \in Downloads, Modified(d) PROVE Keeps
  BY <1>5 DEF TypeOK, Goto, Keeps, Settles, Moves, Modified, edges, history
<1>6. ASSUME NEW d \in Downloads, NotModified(d) \/ EndBody(d) \/ Cut(d)
      PROVE  \E body \in {"whole", "cut"} : Stores(d, body)
  BY <1>6, StoreActions
<1>7. ASSUME NEW e \in Edges, Crash(e) PROVE Keeps
  <2>1. UNCHANGED <<route, entry, via, got, stored, cut, early>> BY <1>7 DEF Crash, history
  <2>2. \A d \in Downloads : pc'[d] = pc[d] \/ pc'[d] = "failed" BY <1>7 DEF Crash
  <2>3. Moves BY <2>1, <2>2 DEF Moves
  <2>4. \A x \in Edges, f \in Files : disk[x][f] # "flight" => disk'[x][f] = disk[x][f]
    BY <1>7 DEF TypeOK, Crash
  <2> QED BY <2>1, <2>3, <2>4 DEF Keeps, Settles
<1>8. ASSUME Tick \/ UNCHANGED vars PROVE Keeps
  BY <1>8 DEF Keeps, Settles, Moves, Tick, vars, edges, answers, history
<1>9. ASSUME NEW e \in Edges, NEW f \in Files, LandWrite(e, f) \/ LoseWrite(e, f) PROVE Keeps
  <2>1. /\ UNCHANGED <<route, entry, pc, via, got, stored, cut, early>> /\ disk[e][f] = "flight"
        /\ \E to \in {"landed", "lost"} : disk' = [disk EXCEPT ![e][f] = to]
    BY <1>9 DEF LandWrite, LoseWrite, answers, history
  <2>2. \A x \in Edges, g \in Files : disk[x][g] # "flight" => disk'[x][g] = disk[x][g]
    BY <2>1 DEF TypeOK
  <2> QED BY <2>1, <2>2 DEF Keeps, Settles, Moves
<1> QED
  BY <1>1, <1>2, <1>3, <1>4, <1>5, <1>6, <1>7, <1>8, <1>9 DEF Next, Download

(* A tag matches itself, with or without a value.                          *)
LEMMA OwnTag == \A f : MatchETag(Tag(f), Tag(f))
BY DEF MatchETag

(* What a store changes, and where.                                        *)
LEMMA StoresWhere ==
  ASSUME TypeOK, PlaceInv, NEW d \in Downloads, NEW body \in {"whole", "cut"}, Stores(d, body)
  PROVE  /\ pc[d] \in Leading /\ via[d] \in Edges /\ Target[d] \in Files
         /\ via[d] = route[Target[d]] /\ UNCHANGED <<route, via>>
         /\ \A o \in Downloads : pc'[o] = IF o = d THEN "served" ELSE pc[o]
         /\ \A e \in Edges, f \in Files :
              entry'[e][f] = IF e = via[d] /\ f = Target[d]
                             THEN {[tag |-> Tag(f), body |-> body, exp |-> clock + MaxAge]}
                             ELSE entry[e][f]
<1>1. pc[d] \in Leading /\ pc[d] # "idle" BY DEF Stores, Leading
<1>2. Store(d, body) /\ Goto(d, "served") BY DEF Stores
<1>3. UNCHANGED <<route, via>> BY DEF Stores
<1>4. \A o \in Downloads : pc'[o] = IF o = d THEN "served" ELSE pc[o]
  BY <1>2 DEF Goto, TypeOK
<1> QED BY <1>1, <1>2, <1>3, <1>4, Place, StoreType

(* Copies keep the tag of their file and, unless it is cut, are of all of  *)
(* its body; what has no copy has no write in flight.                      *)
LEMMA CopyStep ==
  ASSUME TypeOK, PlaceInv, CopyInv, DiskInv, [Next]_vars
  PROVE  CopyInv' /\ DiskInv'
<1>1. CASE Keeps
  <2>1. CopyInv' BY <1>1 DEF CopyInv, Keeps, Settles
  <2>2. DiskInv' BY <1>1 DEF DiskInv, Keeps, Settles
  <2> QED BY <2>1, <2>2
<1>2. ASSUME NEW d \in Downloads, NEW body \in {"whole", "cut"}, Stores(d, body)
      PROVE  CopyInv' /\ DiskInv'
  <2>1. cut \subseteq cut' BY <1>2 DEF Stores
  <2>2. body = "whole" \/ Target[d] \in cut'
    <3>1. CASE pc[d] = "ask"
      BY <3>1, <1>2, StoresWhere DEF Stores, Cached, CopyInv
    <3>2. CASE pc[d] = "body" BY <3>2, <1>2 DEF Stores
    <3> QED BY <3>1, <3>2, <1>2 DEF Stores
  <2>3. \A e \in Edges, f \in Files :
          entry'[e][f] = IF e = via[d] /\ f = Target[d]
                         THEN {[tag |-> Tag(f), body |-> body, exp |-> clock + MaxAge]}
                         ELSE entry[e][f]
    BY <1>2, StoresWhere
  <2>4. ASSUME NEW e \in Edges, NEW f \in Files, NEW x \in entry'[e][f]
        PROVE  x.tag = Tag(f) /\ (x.body = "whole" \/ f \in cut')
    <3>1. CASE e = via[d] /\ f = Target[d]
      <4>1. entry'[e][f] = {[tag |-> Tag(f), body |-> body, exp |-> clock + MaxAge]}
        BY <3>1, <2>3
      <4>2. x.tag = Tag(f) /\ x.body = body BY <4>1
      <4> QED BY <4>2, <3>1, <2>2
    <3>2. CASE ~(e = via[d] /\ f = Target[d])
      <4>1. x \in entry[e][f] BY <2>4, <3>2, <2>3
      <4> QED BY <4>1, <2>1 DEF CopyInv
    <3> QED BY <3>1, <3>2
  <2>5. ASSUME NEW e \in Edges, NEW f \in Files, entry'[e][f] = {} PROVE disk'[e][f] = "landed"
    <3>1. ~(e = via[d] /\ f = Target[d]) /\ entry[e][f] = {} BY <2>3, <2>5
    <3>2. disk'[e][f] = disk[e][f] BY <1>2, <3>1 DEF Stores, TypeOK
    <3> QED BY <3>1, <3>2 DEF DiskInv
  <2> QED BY <2>4, <2>5 DEF CopyInv, DiskInv
<1> QED BY <1>1, <1>2, Effects

(* What is mapped and what is served is whole, or has its excuse for good: *)
(* a body is committed only where nothing was lost.                        *)
LEMMA ServedStep ==
  ASSUME TypeOK, PlaceInv, CopyInv, DiskInv, MappedInv, BodyInv, ServedIsFile, [Next]_vars
  PROVE  MappedInv' /\ ServedIsFile'
<1> DEFINE Fine(d) == got[d] = "whole" \/ Excused(d)
<1>1. CASE Keeps
  <2>1. ASSUME NEW d \in Downloads, pc[d] # "idle", UNCHANGED <<via[d]>>, Excused(d)
        PROVE  Excused(d)'
    <3>1. via[d] \in Edges /\ Target[d] \in Files BY <2>1, Place
    <3>2. Written(d) = "lost" => Written(d)' = "lost"
      BY <1>1, <2>1, <3>1 DEF Keeps, Settles, Written
    <3> QED BY <1>1, <2>1, <3>2 DEF Keeps, Settles, Excused
  <2>2. ASSUME NEW d \in Downloads, UNCHANGED <<via[d]>>, Maps(d) PROVE Fine(d)'
    <3>1. via[d] \in Edges /\ Target[d] \in Files BY <2>2, Place DEF Maps
    <3>2. PICK x \in Cached(d) : got'[d] = IF Written(d) = "landed" THEN x.body ELSE "short"
      BY <2>2 DEF Maps
    <3>3. x.body = "whole" \/ Target[d] \in cut BY <3>1, <3>2 DEF CopyInv, Cached
    <3>4. Written(d) \in {"flight", "landed", "lost"} BY <3>1 DEF TypeOK, Written
    <3>5. Written(d)' = Written(d) BY <2>2 DEF Maps, Written
    <3> QED BY <1>1, <2>2, <3>2, <3>3, <3>4, <3>5 DEF Maps, Excused, Keeps, Settles
  <2>3. ASSUME NEW d \in Downloads, pc'[d] = "served" PROVE Fine(d)'
    <3>1. UNCHANGED <<via[d]>> /\ ((pc[d] = "served" /\ got'[d] = got[d]) \/ Maps(d))
      BY <1>1, <2>3 DEF Keeps, Moves
    <3>2. CASE pc[d] = "served" /\ got'[d] = got[d] BY <2>1, <3>1, <3>2 DEF ServedIsFile
    <3> QED BY <2>2, <3>1, <3>2
  <2>4. ASSUME NEW d \in Downloads, pc'[d] = "ask", Cached(d)' # {} PROVE Fine(d)'
    <3>1. /\ pc[d] # "idle" /\ UNCHANGED <<via[d]>>
          /\ (pc[d] = "ask" /\ got'[d] = got[d]) \/ Cached(d) = {} \/ Maps(d)
      BY <1>1, <2>4 DEF Keeps, Moves
    <3>2. Cached(d) # {} BY <1>1, <2>4, <3>1 DEF Keeps, Settles, Cached
    <3>3. CASE pc[d] = "ask" /\ got'[d] = got[d] BY <2>1, <3>1, <3>2, <3>3 DEF MappedInv
    <3> QED BY <2>2, <3>1, <3>2, <3>3
  <2> QED BY <2>3, <2>4 DEF MappedInv, ServedIsFile
<1>2. ASSUME NEW d \in Downloads, NEW body \in {"whole", "cut"}, Stores(d, body)
      PROVE  MappedInv' /\ ServedIsFile'
  <2>1. /\ UNCHANGED <<via, early>> /\ cut \subseteq cut'
        /\ \A o \in Downloads : pc'[o] = IF o = d THEN "served" ELSE pc[o]
    BY <1>2, StoresWhere DEF Stores
  <2>2. ASSUME NEW o \in Downloads, pc[o] # "idle", o # d, Fine(o) PROVE Fine(o)'
    <3>1. via[o] \in Edges /\ Target[o] \in Files BY <2>2, Place
    <3>2. got'[o] = got[o] BY <1>2, <2>2 DEF Stores, TypeOK
    <3>3. Written(o) = "lost" => Written(o)' = "lost"
      <4>1. CASE pc[d] = "ask" BY <1>2, <4>1, <2>1 DEF Stores, Written
      <4>2. CASE pc[d] = "body"
        <5>1. disk[via[d]][Target[d]] = "landed"
          BY <1>2, <4>2, StoresWhere DEF BodyInv, DiskInv
        <5>2. Written(o) = "lost" => ~(via[o] = via[d] /\ Target[o] = Target[d])
          BY <5>1 DEF Written
        <5>3. disk' = [disk EXCEPT ![via[d]][Target[d]] = "flight"] BY <1>2, <4>2 DEF Stores
        <5>4. disk \in [Edges -> [Files -> {"flight", "landed", "lost"}]] BY DEF TypeOK
        <5>5. via' = via BY <2>1
        <5>6. via[d] \in Edges /\ Target[d] \in Files BY <1>2, StoresWhere
        <5> QED BY <5>2, <5>3, <5>4, <5>5, <5>6, <3>1 DEF Written
      <4> QED BY <1>2, <4>1, <4>2 DEF Stores
    <3> QED BY <2>1, <2>2, <3>2, <3>3 DEF Excused
  <2>3. Fine(d)'
    <3>1. CASE pc[d] = "ask"
      <4>1. Cached(d) # {} /\ UNCHANGED <<disk, got, cut>> BY <1>2, <3>1 DEF Stores
      <4>2. Fine(d) BY <3>1, <4>1 DEF MappedInv
      <4> QED BY <4>1, <4>2, <2>1 DEF Excused, Written
    <3>2. CASE pc[d] = "body"
      BY <1>2, <3>2 DEF Stores, Excused, TypeOK
    <3> QED BY <1>2, <3>1, <3>2 DEF Stores
  <2>4. ServedIsFile' BY <2>1, <2>2, <2>3 DEF ServedIsFile
  <2>5. ASSUME NEW o \in Downloads, pc'[o] = "ask", Cached(o)' # {} PROVE Fine(o)'
    <3>1. o # d /\ pc[o] = "ask" BY <2>1, <2>5
    <3>2. leader[via[o]][Target[o]] = o /\ leader[via[d]][Target[d]] = d
      BY <3>1, <1>2, StoresWhere DEF PlaceInv, Leading
    <3>3. via[o] \in Edges /\ Target[o] \in Files BY <3>1, Place
    <3>4. ~(via[o] = via[d] /\ Target[o] = Target[d]) BY <3>1, <3>2
    <3>5. entry'[via[o]][Target[o]] = entry[via[o]][Target[o]]
      <4>1. \A e \in Edges, f \in Files :
              entry'[e][f] = IF e = via[d] /\ f = Target[d]
                             THEN {[tag |-> Tag(f), body |-> body, exp |-> clock + MaxAge]}
                             ELSE entry[e][f]
        BY <1>2, StoresWhere
      <4> QED BY <3>3, <3>4, <4>1
    <3>6. Cached(o) # {} BY <2>1, <2>5, <3>5 DEF Cached
    <3> QED BY <2>2, <3>1, <3>6 DEF MappedInv
  <2> QED BY <2>4, <2>5 DEF MappedInv
<1> QED BY <1>1, <1>2, Effects

(* A body is read, and stored, only where there is no copy.                *)
LEMMA BodyStep ==
  ASSUME TypeOK, PlaceInv, CopyInv, BodyInv, StoredInv, [Next]_vars
  PROVE  BodyInv' /\ StoredInv'
<1>1. CASE Keeps
  <2>1. ASSUME NEW d \in Downloads, pc[d] = "ask", ~Matches(d)
        PROVE  entry[via[d]][Target[d]] = {}
    BY <2>1, Place, OwnTag DEF Matches, Cached, CopyInv
  <2>2. BodyInv' BY <1>1, <2>1 DEF BodyInv, Keeps, Settles, Moves
  <2>3. StoredInv' BY <1>1 DEF StoredInv, Keeps, Settles
  <2> QED BY <2>2, <2>3
<1>2. ASSUME NEW d \in Downloads, NEW body \in {"whole", "cut"}, Stores(d, body)
      PROVE  BodyInv' /\ StoredInv'
  <2>1. \A e \in Edges, f \in Files :
          entry'[e][f] = IF e = via[d] /\ f = Target[d]
                         THEN {[tag |-> Tag(f), body |-> body, exp |-> clock + MaxAge]}
                         ELSE entry[e][f]
    BY <1>2, StoresWhere, SMTT(30)
  <2>2. UNCHANGED <<route, via>> BY <1>2, StoresWhere
  <2>3. ASSUME NEW o \in Downloads, pc'[o] = "body" PROVE entry'[via'[o]][Target[o]] = {}
    <3>1. o # d /\ pc[o] = "body" BY <1>2, <2>3, StoresWhere
    <3>2. entry[via[o]][Target[o]] = {} /\ via[o] \in Edges /\ Target[o] \in Files
      BY <3>1, Place DEF BodyInv
    <3>3. leader[via[o]][Target[o]] = o /\ leader[via[d]][Target[d]] = d
      BY <3>1, <1>2, StoresWhere DEF PlaceInv, Leading
    <3>4. ~(via[o] = via[d] /\ Target[o] = Target[d]) BY <3>1, <3>3
    <3> QED BY <2>1, <2>2, <3>2, <3>4
  <2>4. ASSUME NEW f \in Files
        PROVE  stored'[f] <= 1 /\ (entry'[route'[f]][f] = {} => stored'[f] = 0)
    <3>1. route[f] \in Edges /\ route' = route BY <1>2, StoresWhere DEF TypeOK
    <3>2. entry'[route[f]][f] = {} => f # Target[d] /\ entry[route[f]][f] = {}
      <4>1. via[d] = route[Target[d]] BY <1>2, StoresWhere
      <4> QED BY <4>1, <2>1, <3>1
    <3>3. CASE f # Target[d] \/ pc[d] = "ask"
      <4>1. stored'[f] = stored[f] BY <1>2, <3>3 DEF Stores, TypeOK
      <4> QED BY <4>1, <3>1, <3>2 DEF StoredInv
    <3>4. CASE f = Target[d] /\ pc[d] = "body"
      <4>1. entry[route[f]][f] = {} BY <1>2, <3>4, StoresWhere DEF BodyInv
      <4>2. stored[f] = 0 BY <4>1 DEF StoredInv
      <4>3. stored'[f] = 1 BY <1>2, <3>4, <4>2 DEF Stores, TypeOK
      <4> QED BY <4>3, <3>1, <3>2, <3>4
    <3> QED BY <3>3, <3>4, <1>2 DEF Stores
  <2> QED BY <2>3, <2>4 DEF BodyInv, StoredInv
<1> QED BY <1>1, <1>2, Effects

-----------------------------------------------------------------------------
(* What was acknowledged.                                                  *)

(* No step takes an index away, or answers 404 when there is one that can  *)
(* be read.                                                                *)
LEMMA FoundStep ==
  ASSUME TypeOK, DueInv, FoundOnceAcknowledged, [Next]_vars
  PROVE  DueInv' /\ FoundOnceAcknowledged'
<1> DEFINE Quiet == /\ UNCHANGED <<indexed, created, due>>
                    /\ \A d \in Downloads : pc'[d] = "notFound" =>
                         pc[d] = "notFound" \/ Target[d] \notin indexed \/ d \in misread'
                    /\ misread \subseteq misread'
<1> USE DEF Goto
<1>1. ASSUME NEW f \in Files, PutIndex(f) \/ Acknowledge(f)
      PROVE  DueInv' /\ FoundOnceAcknowledged'
  BY <1>1 DEF PutIndex, Acknowledge, DueInv, FoundOnceAcknowledged, answers, history
<1>2. ASSUME NEW d \in Downloads, Route(d) PROVE DueInv' /\ FoundOnceAcknowledged'
  BY <1>2 DEF TypeOK, Route, DueInv, FoundOnceAcknowledged, origin
<1>3. ASSUME NEW d \in Downloads, Lookup(d) \/ Recheck(d) PROVE Quiet
  BY <1>3 DEF TypeOK, Lookup, Recheck, Hit, origin, history
<1>4. ASSUME NEW d \in Downloads, Lead(d) \/ NotFound(d) \/ Misread(d) \/ Down(d) \/ Break(d) PROVE Quiet
  BY <1>4 DEF TypeOK, Lead, NotFound, Misread, Down, Break, origin, history
<1>5. ASSUME NEW d \in Downloads, Modified(d) \/ NotModified(d) PROVE Quiet
  BY <1>5 DEF TypeOK, Modified, NotModified, origin, history
<1>6. ASSUME NEW d \in Downloads, EndBody(d) \/ Cut(d) PROVE Quiet
  BY <1>6 DEF TypeOK, EndBody, Cut, Commit, origin
<1>7. ASSUME NEW e \in Edges, Crash(e) PROVE Quiet
  BY <1>7 DEF TypeOK, Crash, origin, history
<1>8. ASSUME Tick \/ UNCHANGED vars PROVE Quiet
  BY <1>8 DEF Tick, vars, origin, answers, history
<1>9. ASSUME NEW e \in Edges, NEW f \in Files, LandWrite(e, f) \/ LoseWrite(e, f) PROVE Quiet
  BY <1>9 DEF LandWrite, LoseWrite, origin, answers, history
<1>10. ASSUME Quiet PROVE DueInv' /\ FoundOnceAcknowledged'
  <2>1. due \subseteq Downloads BY DEF TypeOK
  <2> QED BY <1>10, <2>1 DEF DueInv, FoundOnceAcknowledged
<1> HIDE DEF Quiet
<1> QED
  BY <1>1, <1>2, <1>3, <1>4, <1>5, <1>6, <1>7, <1>8, <1>9, <1>10 DEF Next, Download

-----------------------------------------------------------------------------
(* The contract of the cache.                                              *)

(* Who asks the origin has nothing that is valid.                          *)
StaleInv ==
  \A d \in Downloads : pc[d] \in {"ask", "body"} => \A x \in Cached(d) : Expired(x)

(* What is expired stays so until the holder of the lock replaces it.      *)
LEMMA StaleStep ==
  ASSUME DeliveryInv, StaleInv, [Next]_vars PROVE StaleInv'
<1> TypeOK /\ PlaceInv BY DEF DeliveryInv
<1> USE DEF Goto
<1> DEFINE Waits == /\ clock' >= clock /\ UNCHANGED entry
                    /\ \A d \in Downloads : pc'[d] \in {"ask", "body"} =>
                         UNCHANGED <<via[d]>> /\ (pc[d] \in {"ask", "body"} \/ (pc[d] = "recheck" /\ ~Fresh(d)))
<1>1. ASSUME NEW f \in Files, PutIndex(f) \/ Acknowledge(f) PROVE Waits
  BY <1>1 DEF TypeOK, PutIndex, Acknowledge, edges, answers
<1>2. ASSUME NEW d \in Downloads, Route(d) PROVE Waits
  BY <1>2 DEF TypeOK, Route, edges
<1>3. ASSUME NEW d \in Downloads, Lookup(d) \/ Recheck(d) PROVE Waits
  BY <1>3 DEF TypeOK, Lookup, Recheck, Hit, edges
<1>4. ASSUME NEW d \in Downloads, Lead(d) \/ NotFound(d) \/ Misread(d) \/ Down(d) \/ Break(d) PROVE Waits
  BY <1>4 DEF TypeOK, Lead, NotFound, Misread, Down, Break
<1>5. ASSUME NEW d \in Downloads, Modified(d) PROVE Waits
  BY <1>5 DEF TypeOK, Modified, edges
<1>6. ASSUME NEW e \in Edges, Crash(e) PROVE Waits
  BY <1>6 DEF TypeOK, Crash
<1>7. ASSUME Tick \/ UNCHANGED vars PROVE Waits
  BY <1>7 DEF TypeOK, Tick, vars, edges, answers
<1>11. ASSUME NEW e \in Edges, NEW f \in Files, LandWrite(e, f) \/ LoseWrite(e, f) PROVE Waits
  BY <1>11 DEF TypeOK, LandWrite, LoseWrite, answers
<1>8. ASSUME Waits PROVE StaleInv'
  <2> SUFFICES ASSUME NEW d \in Downloads, pc'[d] \in {"ask", "body"}, NEW x \in Cached(d)'
               PROVE  Expired(x)'
    BY DEF StaleInv
  <2>1. x \in Cached(d) BY <1>8 DEF Cached
  <2>2. Expired(x) BY <1>8, <2>1 DEF StaleInv, Fresh
  <2>3. x.exp \in Nat /\ clock \in Nat /\ clock' \in Nat
    <3>1. pc[d] # "idle" BY <1>8
    <3>2. TypeOK' BY TypeStep
    <3>3. x \in Entries BY <2>1, <3>1, Place DEF TypeOK, Cached
    <3> QED BY <3>2, <3>3, BoundsAssumption DEF TypeOK, Entries
  <2> QED BY <1>8, <2>2, <2>3 DEF Expired
<1>9. ASSUME NEW d \in Downloads, NEW body \in {"whole", "cut"}, Stores(d, body) PROVE StaleInv'
  <2> SUFFICES ASSUME NEW o \in Downloads, pc'[o] \in {"ask", "body"}, NEW x \in Cached(o)'
               PROVE  Expired(x)'
    BY DEF StaleInv
  <2>1. o # d /\ pc[o] \in {"ask", "body"} BY <1>9, StoresWhere
  <2>2. leader[via[o]][Target[o]] = o /\ leader[via[d]][Target[d]] = d
    BY <1>9, <2>1, StoresWhere DEF PlaceInv, Leading
  <2>3. ~(via[o] = via[d] /\ Target[o] = Target[d]) BY <2>1, <2>2
  <2>4. via[o] \in Edges /\ Target[o] \in Files BY <2>1, Place
  <2>5. \A e \in Edges, f \in Files :
          entry'[e][f] = IF e = via[d] /\ f = Target[d]
                         THEN {[tag |-> Tag(f), body |-> body, exp |-> clock + MaxAge]}
                         ELSE entry[e][f]
    BY <1>9, StoresWhere
  <2>6. via' = via BY <1>9, StoresWhere
  <2>7. Cached(o)' = Cached(o) BY <2>3, <2>4, <2>5, <2>6 DEF Cached
  <2>8. Expired(x) BY <2>1, <2>7 DEF StaleInv
  <2> QED BY <1>9, <2>8 DEF Stores, Expired
<1>10. ASSUME NEW d \in Downloads, NotModified(d) \/ EndBody(d) \/ Cut(d) PROVE StaleInv'
  BY <1>9, <1>10, StoreActions
<1> HIDE DEF Waits
<1> QED
  BY <1>1, <1>2, <1>3, <1>4, <1>5, <1>6, <1>7, <1>8, <1>10, <1>11 DEF Next, Download

(* The copies of a file at an edge, and the answers of its downloads there.*)
At(d, e, f) == via[d] = e /\ Target[d] = f
Copies(e, f) == {[ver |-> 1, exp |-> x.exp] : x \in entry[e][f]}

(* A step that ends no download and stores nothing is a stutter.           *)
LEMMA SilentStep ==
  ASSUME TypeOK, PlaceInv, NEW e \in Edges, NEW f \in Files,
         UNCHANGED <<clock, entry>>,
         \A d \in Downloads : \/ UNCHANGED <<pc[d], via[d]>>
                              \/ pc[d] \notin Ended /\ pc'[d] \notin Ended
  PROVE  UNCHANGED Cache(e, f)!vars
<1>1. AnswersAt(e, f)' = AnswersAt(e, f) BY DEF AnswersAt
<1> QED BY <1>1 DEF Cache!vars

(* One download of the file is answered, or fails, or belongs elsewhere.   *)
LEMMA EndStep ==
  ASSUME TypeOK, NEW d \in Downloads, pc[d] \notin Ended, NEW s \in Ended, Goto(d, s),
         UNCHANGED via, NEW e \in Edges, NEW f \in Files
  PROVE  IF At(d, e, f)
         THEN /\ AnswersAt(e, f)[d] = Cache(e, f)!Waiting
              /\ AnswersAt(e, f)' = [AnswersAt(e, f) EXCEPT ![d] =
                    IF s = "served" THEN Cache(e, f)!Served(1) ELSE Cache(e, f)!Failed]
         ELSE AnswersAt(e, f)' = AnswersAt(e, f)
<1>1. \A o \in Downloads : pc'[o] = IF o = d THEN s ELSE pc[o] BY DEF Goto, TypeOK
<1>2. CASE At(d, e, f)
  <2>1. AnswersAt(e, f)[d] = [kind |-> "waiting", ver |-> 0] BY DEF AnswersAt
  <2>2. AnswersAt(e, f)'[d] = IF s = "served" THEN [kind |-> "served", ver |-> 1]
                                              ELSE [kind |-> "failed", ver |-> 0]
    BY <1>1, <1>2 DEF AnswersAt, At, Ended
  <2>3. \A o \in Downloads \ {d} : AnswersAt(e, f)'[o] = AnswersAt(e, f)[o]
    BY <1>1 DEF AnswersAt
  <2>4. AnswersAt(e, f)' = [AnswersAt(e, f) EXCEPT ![d] = AnswersAt(e, f)'[d]]
    BY <2>3 DEF AnswersAt
  <2> QED BY <1>2, <2>1, <2>2, <2>4 DEF Cache!Waiting, Cache!Served, Cache!Failed
<1>3. CASE ~At(d, e, f)
  BY <1>1, <1>3 DEF AnswersAt, At
<1> QED BY <1>2, <1>3

(* Every step is one of the cache of each edge and file, or a stutter.     *)
LEMMA ContractStep ==
  ASSUME DeliveryInv, StaleInv, [Next]_vars, NEW e \in Edges, NEW f \in Files
  PROVE  [Cache(e, f)!Next]_(Cache(e, f)!vars)
<1> DEFINE Step == [Cache(e, f)!Next]_(Cache(e, f)!vars)
           A    == AnswersAt(e, f)
<1> SUFFICES Step OBVIOUS
<1> TypeOK /\ PlaceInv /\ CopyInv BY DEF DeliveryInv
<1>1. ASSUME NEW g \in Files, PutIndex(g) \/ Acknowledge(g) PROVE Step
  <2>1. UNCHANGED <<clock, entry, pc, via>> BY <1>1 DEF PutIndex, Acknowledge, edges, answers
  <2>2. UNCHANGED Cache(e, f)!vars BY <2>1, SilentStep
  <2> QED BY <2>2
<1>2. ASSUME NEW d \in Downloads, NEW s, pc[d] \notin Ended, s \notin Ended, Goto(d, s),
             UNCHANGED <<clock, entry>>, \A o \in Downloads \ {d} : UNCHANGED <<via[o]>>
      PROVE  Step
  <2>1. \A o \in Downloads : pc'[o] = IF o = d THEN s ELSE pc[o] BY <1>2 DEF Goto, TypeOK
  <2>2. \A o \in Downloads : \/ UNCHANGED <<pc[o], via[o]>>
                             \/ pc[o] \notin Ended /\ pc'[o] \notin Ended
    BY <1>2, <2>1
  <2>3. UNCHANGED Cache(e, f)!vars BY <1>2, <2>2, SilentStep
  <2> QED BY <2>3
<1>3. ASSUME NEW d \in Downloads, Hit(d), pc[d] \in {"lookup", "recheck"} PROVE Step
  <2>1. PICK x \in Cached(d) : ~Expired(x) BY <1>3 DEF Hit
  <2>2. UNCHANGED <<clock, entry, via>> BY <1>3 DEF Hit
  <2>3. pc[d] \notin Ended /\ Goto(d, "served") BY <1>3 DEF Ended, Hit
  <2>4. CASE At(d, e, f)
    <3>1. x \in entry[e][f] BY <2>1, <2>4 DEF At, Cached
    <3>2. clock < x.exp
      <4>1. x \in Entries /\ clock \in Nat BY <3>1, BoundsAssumption DEF TypeOK
      <4> QED BY <4>1, <2>1 DEF Expired, Entries
    <3>3. A[d] = Cache(e, f)!Waiting /\ A' = [A EXCEPT ![d] = Cache(e, f)!Served(1)]
      BY <2>2, <2>3, <2>4, EndStep DEF Ended
    <3>4. [ver |-> 1, exp |-> x.exp] \in Copies(e, f) BY <3>1 DEF Copies
    <3>5. Copies(e, f)' = Copies(e, f) BY <2>2 DEF Copies
    <3> HIDE DEF A
    <3>6. Cache(e, f)!Hit(d)
      BY <2>2, <3>2, <3>3, <3>4, <3>5 DEF Cache!Hit, Cache!Answer, Copies, A
    <3> QED BY <3>6 DEF Cache!Next
  <2>5. CASE ~At(d, e, f)
    <3>1. A' = A BY <2>2, <2>3, <2>5, EndStep DEF Ended
    <3> QED BY <3>1, <2>2 DEF Cache!vars
  <2> QED BY <2>4, <2>5
<1>4. ASSUME NEW d \in Downloads, Route(d) PROVE Step
  <2>1. \A o \in Downloads \ {d} : UNCHANGED <<via[o]>> BY <1>4 DEF Route, TypeOK
  <2>2. pc[d] \notin Ended /\ Goto(d, "lookup") /\ UNCHANGED <<clock, entry>>
    BY <1>4 DEF Route, edges, Ended
  <2> QED BY <1>2, <2>1, <2>2 DEF Ended
<1>5. ASSUME NEW d \in Downloads, Lead(d) \/ Modified(d) PROVE Step
  <2>1. PICK s \in {"recheck", "body"} : Goto(d, s) BY <1>5 DEF Lead, Modified
  <2>2. pc[d] \notin Ended /\ UNCHANGED <<clock, entry, via>>
    BY <1>5 DEF Lead, Modified, edges, Ended
  <2> QED BY <1>2, <2>1, <2>2 DEF Ended
<1>6. ASSUME NEW d \in Downloads, Lookup(d) \/ Recheck(d) PROVE Step
  <2>1. CASE Hit(d) BY <1>3, <1>6, <2>1 DEF Lookup, Recheck
  <2>2. CASE ~Hit(d)
    <3>1. PICK s \in {"lock", "ask"} : Goto(d, s) BY <1>6, <2>2 DEF Lookup, Recheck
    <3>2. pc[d] \notin Ended /\ UNCHANGED <<clock, entry, via>>
      BY <1>6, <2>2 DEF Lookup, Recheck, edges, Ended
    <3> QED BY <1>2, <3>1, <3>2 DEF Ended
  <2> QED BY <2>1, <2>2
<1>7. ASSUME NEW d \in Downloads, NotFound(d) \/ Misread(d) \/ Down(d) \/ Break(d) PROVE Step
  <2>1. PICK s \in {"notFound", "failed"} : Goto(d, s) BY <1>7 DEF NotFound, Misread, Down, Break
  <2>2. pc[d] \notin Ended /\ UNCHANGED <<clock, entry, via>>
    BY <1>7 DEF NotFound, Misread, Down, Break, Ended
  <2>3. s \in Ended /\ s # "served" BY DEF Ended
  <2>4. Copies(e, f)' = Copies(e, f) BY <2>2 DEF Copies
  <2>5. CASE At(d, e, f)
    <3>1. A[d] = Cache(e, f)!Waiting /\ A' = [A EXCEPT ![d] = Cache(e, f)!Failed]
      BY <2>1, <2>2, <2>3, <2>5, EndStep
    <3>2. A = [o \in Downloads |-> A[o]] BY DEF AnswersAt
    <3> HIDE DEF A
    <3>3. A' = [o \in Downloads |-> IF o \in {d} THEN Cache(e, f)!Failed ELSE A[o]]
      BY <3>1, <3>2
    <3>4. Cache(e, f)!Fail({d})
      BY <2>2, <2>4, <3>1, <3>3 DEF Cache!Fail, Copies, A
    <3> QED BY <3>4 DEF Cache!Next
  <2>6. CASE ~At(d, e, f)
    <3>1. A' = A BY <2>1, <2>2, <2>3, <2>6, EndStep
    <3> QED BY <3>1, <2>2 DEF Cache!vars
  <2> QED BY <2>5, <2>6
<1>8. ASSUME NEW d \in Downloads, NEW body \in {"whole", "cut"}, Stores(d, body) PROVE Step
  <2>1. /\ pc[d] \in {"ask", "body"} /\ Goto(d, "served") /\ UNCHANGED <<clock, via>>
        /\ pc[d] \notin Ended
    BY <1>8 DEF Stores, Ended
  <2>2. \A ee \in Edges, ff \in Files :
          entry'[ee][ff] = IF ee = via[d] /\ ff = Target[d]
                           THEN {[tag |-> Tag(ff), body |-> body, exp |-> clock + MaxAge]}
                           ELSE entry[ee][ff]
    BY <1>8, StoresWhere
  <2>3. CASE At(d, e, f)
    <3> DEFINE new == [ver |-> 1, exp |-> clock + MaxAge]
    <3> DEFINE x0 == [tag |-> Tag(f), body |-> body, exp |-> clock + MaxAge]
    <3>0. entry'[e][f] = {x0} BY <2>2, <2>3 DEF At
    <3>1. Copies(e, f)' = {new}
      <4>1. x0.exp = clock + MaxAge OBVIOUS
      <4> HIDE DEF x0
      <4>2. {[ver |-> 1, exp |-> x.exp] : x \in {x0}} = {[ver |-> 1, exp |-> x0.exp]} OBVIOUS
      <4> QED BY <3>0, <4>1, <4>2 DEF Copies
    <3>2. \A x \in entry[e][f] : x.exp \in Nat /\ x.exp <= clock /\ clock \in Nat
      <4> SUFFICES ASSUME NEW x \in entry[e][f]
                   PROVE  x.exp \in Nat /\ x.exp <= clock /\ clock \in Nat
        OBVIOUS
      <4>1. Expired(x) BY <2>1, <2>3 DEF StaleInv, At, Cached
      <4>2. x \in Entries /\ clock \in Nat BY BoundsAssumption DEF TypeOK
      <4> QED BY <4>1, <4>2 DEF Expired, Entries
    <3>3. clock \in Nat /\ MaxAge \in Nat BY BoundsAssumption DEF TypeOK
    <3>4. \A old \in Copies(e, f) : old.ver <= new.ver /\ old.exp <= new.exp /\ ~(clock < old.exp)
      BY <3>2, <3>3 DEF Copies
    <3>5. A[d] = Cache(e, f)!Waiting /\ A' = [A EXCEPT ![d] = Cache(e, f)!Served(1)]
      BY <2>1, <2>3, EndStep DEF Ended
    <3> HIDE DEF A
    <3>6. Cache(e, f)!Answer(d, Cache(e, f)!Served(new.ver))
      BY <3>5 DEF Cache!Answer, A
    <3> HIDE DEF new
    <3>7. ~Cache(e, f)!Valid BY <3>4 DEF Cache!Valid, Copies
    <3>8. Cache(e, f)!Renew(d)
      BY <2>1, <3>1, <3>4, <3>6, <3>7 DEF Cache!Renew, Copies
    <3> QED BY <3>8 DEF Cache!Next
  <2>4. CASE ~At(d, e, f)
    <3>1. A' = A BY <2>1, <2>4, EndStep DEF Ended
    <3>2. entry'[e][f] = entry[e][f] BY <2>2, <2>4 DEF At
    <3> QED BY <2>1, <3>1, <3>2 DEF Cache!vars
  <2> QED BY <2>3, <2>4
<1>9. ASSUME NEW x \in Edges, Crash(x) PROVE Step
  <2> DEFINE Dead == {d \in Downloads : At(d, e, f) /\ pc[d] \in Active}
  <2>1. UNCHANGED <<clock, entry, via>> BY <1>9 DEF Crash
  <2>2. \A d \in Downloads :
          pc'[d] = IF via[d] = x /\ pc[d] \in Active THEN "failed" ELSE pc[d]
    BY <1>9 DEF Crash
  <2>3. Copies(e, f)' = Copies(e, f) BY <2>1 DEF Copies
  <2>4. CASE x = e
    <3>1. \A d \in Dead : A[d] = Cache(e, f)!Waiting
      BY DEF AnswersAt, At, Active, Ended, Cache!Waiting
    <3>2. A' = [d \in Downloads |-> IF d \in Dead THEN Cache(e, f)!Failed ELSE A[d]]
      BY <2>1, <2>2, <2>4 DEF AnswersAt, At, Active, Ended, Cache!Failed
    <3>3. Dead \in SUBSET Downloads OBVIOUS
    <3> HIDE DEF A, Dead
    <3>4. Cache(e, f)!Fail(Dead)
      BY <2>1, <2>3, <3>1, <3>2 DEF Cache!Fail, Copies, A
    <3> QED BY <3>3, <3>4 DEF Cache!Next
  <2>5. CASE x # e
    <3>1. A' = A BY <2>1, <2>2, <2>5 DEF AnswersAt
    <3> QED BY <2>1, <3>1 DEF Cache!vars
  <2> QED BY <2>4, <2>5
<1>10. ASSUME Tick PROVE Step
  <2>1. clock' = clock + 1 /\ UNCHANGED <<entry, pc, via>> BY <1>10 DEF Tick, edges, answers
  <2>2. A' = A BY <2>1 DEF AnswersAt
  <2>3. Copies(e, f)' = Copies(e, f) BY <2>1 DEF Copies
  <2> HIDE DEF A
  <2>4. Cache(e, f)!Pass BY <2>1, <2>2, <2>3 DEF Cache!Pass, Copies, A
  <2> QED BY <2>4 DEF Cache!Next
<1>11. ASSUME UNCHANGED vars PROVE Step
  <2>1. UNCHANGED <<clock, entry, pc, via>> BY <1>11 DEF vars, edges, answers
  <2>2. UNCHANGED Cache(e, f)!vars BY <2>1, SilentStep
  <2> QED BY <2>2
<1>12. ASSUME NEW d \in Downloads, NotModified(d) \/ EndBody(d) \/ Cut(d) PROVE Step
  BY <1>8, <1>12, StoreActions
<1>13. ASSUME NEW x \in Edges, NEW g \in Files, LandWrite(x, g) \/ LoseWrite(x, g) PROVE Step
  <2>1. UNCHANGED <<clock, entry, pc, via>> BY <1>13 DEF LandWrite, LoseWrite, answers
  <2>2. UNCHANGED Cache(e, f)!vars BY <2>1, SilentStep
  <2> QED BY <2>2
<1> HIDE DEF Step
<1> QED
  BY <1>1, <1>4, <1>5, <1>6, <1>7, <1>9, <1>10, <1>11, <1>12, <1>13 DEF Next, Download

(* At the start every edge is without the file.                            *)
LEMMA InitContract ==
  ASSUME Init, NEW e \in Edges, NEW f \in Files PROVE Cache(e, f)!Init
<1>1. Copies(e, f) = {} BY DEF Init, Copies
<1>2. \A d \in Downloads : AnswersAt(e, f)[d] = Cache(e, f)!Waiting
  BY DEF Init, AnswersAt, Ended, Cache!Waiting
<1>3. AnswersAt(e, f) = [d \in Downloads |-> Cache(e, f)!Waiting]
  BY <1>2 DEF AnswersAt
<1> QED BY <1>1, <1>3 DEF Cache!Init, Copies, Init

-----------------------------------------------------------------------------

(* The theorems.                                                           *)

(* The inductive invariant the other theorems rest on.                     *)
THEOREM Invariance == Spec => []DeliveryInv
<1>1. DeliveryInv /\ [Next]_vars => DeliveryInv'
  BY TypeStep, PlaceStep, CopyStep, ServedStep, BodyStep, FoundStep DEF DeliveryInv
<1> QED BY InitInv, <1>1, PTL DEF Spec

(* Every variable keeps its type.                                          *)
THEOREM TypeCorrect == Spec => []TypeOK
<1>1. DeliveryInv => TypeOK BY DEF DeliveryInv
<1> QED BY Invariance, <1>1, PTL

(* All edges together cache the body of a file once, however many edges,   *)
(* downloads and restarts there are and whatever the lifetime is.          *)
THEOREM CachedOnce == Spec => []OneBody
<1>1. DeliveryInv => OneBody BY DEF DeliveryInv, StoredInv, OneBody
<1> QED BY Invariance, <1>1, PTL

(* Content is served whole, unless the origin has cut it, the edge has lost*)
(* its last write, or the download was there before that write: nothing    *)
(* else of what may go wrong takes a part away.                            *)
THEOREM ServedWhole == Spec => []ServedIsFile
<1>1. DeliveryInv => ServedIsFile BY DEF DeliveryInv
<1> QED BY Invariance, <1>1, PTL

(* Who comes after the 201 of an upload is not answered 404, unless the    *)
(* storage fails under that very request; other requests that were told so *)
(* do not matter.                                                          *)
THEOREM FoundAfterwards == Spec => []FoundOnceAcknowledged
<1>1. DeliveryInv => FoundOnceAcknowledged BY DEF DeliveryInv
<1> QED BY Invariance, <1>1, PTL

(* Every edge keeps the contract of the cache for every file, among other  *)
(* edges, with a gateway and an origin, and across its restarts.           *)
THEOREM EdgesKeep == Spec => EdgesKeepContract
<1>1. Init => /\ \A e \in Edges, f \in Files : Cache(e, f)!Init
              /\ StaleInv
  BY InitContract DEF Init, StaleInv
<1>2. DeliveryInv /\ StaleInv /\ [Next]_vars => StaleInv'
  BY StaleStep
<1>3. DeliveryInv /\ StaleInv /\ [Next]_vars =>
        [\A e \in Edges, f \in Files : [Cache(e, f)!Next]_(Cache(e, f)!vars)]_vars
  BY ContractStep
<1> QED BY <1>1, <1>2, <1>3, Invariance, PTL DEF Spec, EdgesKeepContract

=============================================================================
