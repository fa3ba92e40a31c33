------------------------------ MODULE Uploads ------------------------------
(***************************************************************************)
(* The files of one module: the `resource` table (common/dbx/resource.go), *)
(* the slots an upload goes through (common/uploads/uploads.go), the store *)
(* on the gateway's own disk (provider/storage/local) and the one that only *)
(* names other people's objects (provider/storage/remote).                 *)
(*                                                                         *)
(* A file takes four separate calls: reserve a row and a signed slot, PUT  *)
(* the bytes, confirm, and later read. Between them other clients run, and *)
(* so does the reaper, which lists the slots nobody confirmed, then deletes *)
(* each row and after it the object. A row is visible (Find) once it is    *)
(* completed and while it is not deleted.                                  *)
(*                                                                         *)
(* Every slot has a key of its own, so an object is named by its slot. The *)
(* age of a slot is what the code asks about it: 0 while its URL is valid,  *)
(* 1 once that has lapsed, 2 once it is past twice the slot's lifetime.    *)
(***************************************************************************)
EXTENDS Integers, FiniteSets

CONSTANTS
    Slots,        \* resource ids, with the object key minted for each
    Uploaders,    \* the accounts that upload
    Confirmers,   \* confirm calls in flight at once
    ImageLimit,   \* MaxSize, in units of bytes
    VideoLimit,   \* MaxVideoSize
    ReapBatch,    \* rows one pass of the reaper takes
    NoSlot        \* no slot

ASSUME UploadLimits ==
    /\ ImageLimit \in Nat \ {0} /\ VideoLimit \in Nat /\ ReapBatch \in Nat \ {0}
    /\ NoSlot \notin Slots

VARIABLES
    resource,    \* the rows, by id
    age,         \* how old each slot is
    object,      \* the bytes the local store holds under each slot's key
    putting,     \* slots whose PUT has been let in and not finished
    confirming,  \* confirm calls: the slot found pending and the size stat'ed
    links,       \* read links handed out: slot and store
    reaping,     \* the reaper's list, and the object it has yet to remove
    reading,     \* the slot Bytes has found and is about to fetch
    read         \* what the last fetch of each slot answered

uploadVars == <<resource, age, object, putting, confirming, links, reaping, reading, read>>

Stores == {"local", "remote"}

Classes == {"image", "video"}

Sizes == 0..(VideoLimit + 1)

NoBytes == -1

NotCompleted == -1

NotConfirming == [slot |-> NoSlot, size |-> NoBytes]

(* Resource: `named` is the class the key's extension says, `completed` the *)
(* age at which the row was confirmed.                                     *)
Resource == [by : Uploaders, provider : Stores, mime : Classes, named : Classes,
             size : Sizes, completed : NotCompleted..2, deleted : BOOLEAN]

NoResource == [by |-> NoSlot]

Reserved(r) == resource[r] # NoResource

Pending(r) == Reserved(r) /\ resource[r].completed = NotCompleted /\ ~resource[r].deleted

(* Find: live, completed uploads only.                                     *)
Found(r) == Reserved(r) /\ resource[r].completed # NotCompleted /\ ~resource[r].deleted

(* maxFor: a video is held to its own limit.                               *)
maxFor(class) == IF class = "video" THEN VideoLimit ELSE ImageLimit

UploadInit ==
    /\ resource = [r \in Slots |-> NoResource]
    /\ age = [r \in Slots |-> 0]
    /\ object = [r \in Slots |-> NoBytes]
    /\ putting = {}
    /\ confirming = [c \in Confirmers |-> NotConfirming]
    /\ links = {}
    /\ reaping = [todo |-> {}, doomed |-> NoSlot]
    /\ reading = NoSlot
    /\ read = [r \in Slots |-> "unread"]

-----------------------------------------------------------------------------
(* Reserving and writing.                                                  *)

(* CreateUpload and Presign: the declared type and size are checked, a key *)
(* is minted with the extension of the caller's filename, and the row goes *)
(* in naming the preferred store. Nothing compares the extension with the  *)
(* declared type.                                                          *)
Presign(r, u, mime, named, size) ==
    /\ ~Reserved(r)
    /\ size \in 1..maxFor(mime)
    /\ resource' = [resource EXCEPT ![r] = [by |-> u, provider |-> "local", mime |-> mime,
            named |-> named, size |-> size, completed |-> NotCompleted, deleted |-> FALSE]]
    /\ UNCHANGED <<age, object, putting, confirming, links, reaping, reading, read>>

(* A row written already completed for an object at another origin.        *)
ImportRemote(r, u) ==
    /\ ~Reserved(r)
    /\ resource' = [resource EXCEPT ![r] = [by |-> u, provider |-> "remote", mime |-> "image",
            named |-> "image", size |-> 0, completed |-> 0, deleted |-> FALSE]]
    /\ UNCHANGED <<age, object, putting, confirming, links, reaping, reading, read>>

(* The URL lapses, and later the row is past the reaper's window.          *)
SlotAges(r) ==
    /\ Reserved(r) /\ resource[r].provider = "local" /\ age[r] < 2
    /\ age' = [age EXCEPT ![r] = @ + 1]
    /\ UNCHANGED <<resource, object, putting, confirming, links, reaping, reading, read>>

(* Verify: the signature covers method, key and expiry, and is looked at   *)
(* once, before the body is read.                                          *)
VerifyPut(r) == Reserved(r) /\ resource[r].provider = "local" /\ age[r] = 0

BeginPut(r) ==
    /\ VerifyPut(r) /\ r \notin putting
    /\ putting' = putting \union {r}
    /\ UNCHANGED <<resource, age, object, confirming, links, reaping, reading, read>>

(* Write: the copy is into a temporary file and a rename commits it, so a  *)
(* body over the limit of the key's type, or one that breaks off, leaves   *)
(* whatever was there.                                                     *)
CommitPut(r, size) ==
    /\ r \in putting /\ size <= maxFor(resource[r].named)
    /\ putting' = putting \ {r}
    /\ object' = [object EXCEPT ![r] = size]
    /\ UNCHANGED <<resource, age, confirming, links, reaping, reading, read>>

AbortPut(r) ==
    /\ r \in putting
    /\ putting' = putting \ {r}
    /\ UNCHANGED <<resource, age, object, confirming, links, reaping, reading, read>>

-----------------------------------------------------------------------------
(* Confirming.                                                             *)

(* FindPending, scoped to the uploader, then Stat at the store the row     *)
(* names: no object, no confirmation.                                      *)
StatPending(c, r, u) ==
    /\ confirming[c] = NotConfirming
    /\ Pending(r) /\ resource[r].by = u
    /\ resource[r].provider = "local" /\ object[r] # NoBytes
    /\ confirming' = [confirming EXCEPT ![c] = [slot |-> r, size |-> object[r]]]
    /\ UNCHANGED <<resource, age, object, putting, links, reaping, reading, read>>

(* The guard of Confirm's UPDATE.                                          *)
ConfirmLands(r) == Pending(r)

(* Mutant: a link is signed by the store new uploads go to.                *)
SignedByWriteStore(r) == "local"

(* sign: the link comes from the store the row names.                      *)
sign(r) == resource[r].provider

(* Confirm: completed, with the size the store answered, and a link to it. *)
Confirm(c) ==
    LET r == confirming[c].slot IN
    /\ r # NoSlot
    /\ confirming' = [confirming EXCEPT ![c] = NotConfirming]
    /\ IF ConfirmLands(r)
       THEN /\ resource' = [resource EXCEPT ![r].completed = age[r],
                                            ![r].size = confirming[c].size]
            /\ links' = links \union {<<r, sign(r)>>}
       ELSE UNCHANGED <<resource, links>>
    /\ UNCHANGED <<age, object, putting, reaping, reading, read>>

(* The call breaks off between its steps.                                  *)
ConfirmFails(c) ==
    /\ confirming[c] # NotConfirming
    /\ confirming' = [confirming EXCEPT ![c] = NotConfirming]
    /\ UNCHANGED <<resource, age, object, putting, links, reaping, reading, read>>

-----------------------------------------------------------------------------
(* Reading.                                                                *)

(* Resolve: a fresh link for every visible row.                            *)
ResolveLink(r) ==
    /\ Found(r)
    /\ links' = links \union {<<r, sign(r)>>}
    /\ UNCHANGED <<resource, age, object, putting, confirming, reaping, reading, read>>

LinkLapses(l) ==
    /\ l \in links
    /\ links' = links \ {l}
    /\ UNCHANGED <<resource, age, object, putting, confirming, reaping, reading, read>>

(* Bytes reads the rows first and fetches each object after.               *)
BytesFind(r) ==
    /\ reading = NoSlot /\ Found(r)
    /\ reading' = r
    /\ UNCHANGED <<resource, age, object, putting, confirming, links, reaping, read>>

(* Fetch: the remote store refuses, and whatever the object is, no more of *)
(* it than an image may hold is read into memory.                          *)
Fetch(r) ==
    IF sign(r) = "remote"          THEN "not-readable"
    ELSE IF object[r] = NoBytes    THEN "not-found"
    ELSE IF object[r] > ImageLimit THEN "too-large"
                                   ELSE "blob"

BytesFetch ==
    /\ reading # NoSlot
    /\ read' = [read EXCEPT ![reading] = Fetch(reading)]
    /\ reading' = NoSlot
    /\ UNCHANGED <<resource, age, object, putting, confirming, links, reaping>>

-----------------------------------------------------------------------------
(* Reaping.                                                                *)

(* Mutant: the window is the slot's own lifetime.                          *)
AbandonedAtExpiry == {r \in Slots : Pending(r) /\ age[r] >= 1}

(* Abandoned: the slots nobody confirmed within twice their lifetime.      *)
Abandoned == {r \in Slots : Pending(r) /\ age[r] = 2}

Batches == {b \in SUBSET Abandoned :
                Cardinality(b) = IF Cardinality(Abandoned) < ReapBatch
                                 THEN Cardinality(Abandoned) ELSE ReapBatch}

Sweep ==
    /\ reaping = [todo |-> {}, doomed |-> NoSlot] /\ Abandoned # {}
    /\ \E b \in Batches : reaping' = [reaping EXCEPT !.todo = b]
    /\ UNCHANGED <<resource, age, object, putting, confirming, links, reading, read>>

(* Mutant: the object goes before the row.                                 *)
RemoveBeforeRow(r) == object' = [object EXCEPT ![r] = NoBytes] /\ UNCHANGED resource

(* Delete: the row first. Its guard is the deletion alone.                 *)
DeleteRow(r) == resource' = [resource EXCEPT ![r].deleted = TRUE] /\ UNCHANGED object

ReapRow(r) ==
    /\ r \in reaping.todo /\ reaping.doomed = NoSlot
    /\ DeleteRow(r)
    /\ reaping' = [todo |-> reaping.todo \ {r}, doomed |-> r]
    /\ UNCHANGED <<age, putting, confirming, links, reading, read>>

(* Remove: then the object; a missing one is no error.                     *)
ReapObject ==
    /\ reaping.doomed # NoSlot
    /\ object' = [object EXCEPT ![reaping.doomed] = NoBytes]
    /\ reaping' = [reaping EXCEPT !.doomed = NoSlot]
    /\ UNCHANGED <<resource, age, putting, confirming, links, reading, read>>

(* A failed object delete moves on to the next row; a failed row delete, or *)
(* a process that stops, ends the pass.                                    *)
ReapFails ==
    /\ reaping # [todo |-> {}, doomed |-> NoSlot]
    /\ reaping' \in {[reaping EXCEPT !.doomed = NoSlot], [todo |-> {}, doomed |-> NoSlot]}
    /\ UNCHANGED <<resource, age, object, putting, confirming, links, reading, read>>

-----------------------------------------------------------------------------
UploadNext ==
    \/ \E r \in Slots, u \in Uploaders, mime \in Classes, named \in Classes, size \in Sizes :
            Presign(r, u, mime, named, size)
    \/ \E r \in Slots, u \in Uploaders : ImportRemote(r, u)
    \/ \E r \in Slots : SlotAges(r) \/ BeginPut(r) \/ AbortPut(r)
    \/ \E r \in Slots, size \in Sizes : CommitPut(r, size)
    \/ \E c \in Confirmers, r \in Slots, u \in Uploaders : StatPending(c, r, u)
    \/ \E c \in Confirmers : Confirm(c) \/ ConfirmFails(c)
    \/ \E r \in Slots : ResolveLink(r) \/ BytesFind(r) \/ ReapRow(r)
    \/ \E l \in links : LinkLapses(l)
    \/ BytesFetch \/ Sweep \/ ReapObject \/ ReapFails

UploadSpec == UploadInit /\ [][UploadNext]_uploadVars

-----------------------------------------------------------------------------
UploadTypeOK ==
    /\ resource \in [Slots -> Resource \union {NoResource}]
    /\ age \in [Slots -> 0..2]
    /\ object \in [Slots -> Sizes \union {NoBytes}]
    /\ putting \subseteq Slots
    /\ confirming \in [Confirmers -> [slot : Slots \union {NoSlot}, size : Sizes \union {NoBytes}]]
    /\ links \subseteq Slots \X Stores
    /\ reaping \in [todo : SUBSET Slots, doomed : Slots \union {NoSlot}]
    /\ reading \in Slots \union {NoSlot}
    /\ read \in [Slots -> {"unread", "blob", "not-found", "too-large", "not-readable"}]

(* What can be seen is there. A row Find answers has its object in the     *)
(* store it names, a link leads to an object unless the row has been       *)
(* withdrawn since, and Bytes misses only what was withdrawn: the reaper   *)
(* takes the row before the object, a confirmation has seen the object,    *)
(* and a link is never signed by a store that does not hold it.            *)
VisibleIsThere ==
    /\ \A r \in Slots : Found(r) /\ resource[r].provider = "local" => object[r] # NoBytes
    /\ \A l \in links : l[2] = "local" => object[l[1]] # NoBytes \/ resource[l[1]].deleted
    /\ \A r \in Slots : read[r] = "not-found" => resource[r].deleted

(* An upload confirmed within the reaper's window is never reaped, even    *)
(* though the DELETE itself does not look at completed_at: the list was    *)
(* read after the window and names only rows unconfirmed then. (A client   *)
(* that confirms later than that can lose to a pass already under way.)    *)
ConfirmedInTimeStays ==
    \A r \in Slots : Reserved(r) /\ resource[r].deleted => resource[r].completed \in {NotCompleted, 2}

UploadsSound == VisibleIsThere /\ ConfirmedInTimeStays

=============================================================================
