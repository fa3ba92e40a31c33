----------------------------- MODULE SearchIndex -----------------------------
(***************************************************************************)
(* The vectors a search ranks against, and the mark that queues a row for  *)
(* a new one.  A write that changes what a listing, a category or a tag    *)
(* says sets embedding_stale_at; the embedder claims marked rows by moving *)
(* the mark, asks the model, and clears the exact mark it claimed.  One    *)
(* row stands for each kind, so a batch holds one row of its queue.        *)
(***************************************************************************)
EXTENDS Naturals, Sequences

CONSTANTS
    IndexWords,      \* what a row can say
    Embedders,       \* embedder processes
    MaxWrites,       \* bound on the writes of the rows
    MaxModelErrors,  \* bound on failed passes and embedder crashes
    MaxRivalClaims,  \* bound on claims of a row that another embedder is working on
    NoMark,          \* a row whose vector is current
    NoVector         \* a row never embedded

ASSUME IndexAssumption ==
    /\ IndexWords # {} /\ MaxWrites \in Nat /\ MaxModelErrors \in Nat
    /\ MaxRivalClaims \in Nat
    /\ NoMark \notin Nat
    /\ \A w, v \in IndexWords : NoVector # <<w>> /\ NoVector # <<w, v>>

VARIABLES
    said,       \* the text of each row
    mark,       \* embedding_stale_at of each row
    vector,     \* the text each stored vector was computed from
    revision,   \* the listing's optimistic lock
    edit,       \* a seller's request in flight on the listing
    embedder,   \* what each embedder holds and which queue it drains
    clock,      \* now()
    late,       \* rows whose vector was saved last by a batch that found no mark left
    spent       \* writes, model errors and rival claims so far

indexVars == <<said, mark, vector, revision, edit, embedder, clock, late, spent>>

\* The queues in the order one pass drains them.
Kinds == <<"listing", "category", "tag">>

IndexedRows == {Kinds[k] : k \in DOMAIN Kinds}

Dictionary == {"category", "tag"}

NoEditOpen == [open |-> FALSE]

Idling == [kind |-> 1, row |-> "none"]

\* What the model reads: a listing's own words and the category it sits in.
Text(row) == IF row = "listing" THEN <<said["listing"], said["category"]>> ELSE <<said[row]>>

IndexTick == clock' = clock + 1

-----------------------------------------------------------------------------
(* Writers.                                                                *)

MayWrite ==
    /\ spent.writes < MaxWrites
    /\ spent' = [spent EXCEPT !.writes = @ + 1]

\* The aggregate is read whole, its mark included.
ReadListing ==
    /\ ~edit.open
    /\ edit' = [open |-> TRUE, revision |-> revision, said |-> said["listing"],
                mark |-> mark["listing"]]
    /\ UNCHANGED <<said, mark, vector, revision, embedder, clock, late, spent>>

\* Mutant: an edit of the words keeps the mark it read.
KeepMark(w) == edit.mark

\* Only an edit that changed a word the model reads makes the vector stale.
MarkAfter(w) == IF w # edit.said THEN clock + 1 ELSE edit.mark

SaveListingText ==
    /\ edit.open
    /\ MayWrite
    /\ \E w \in IndexWords :
        IF revision = edit.revision
        THEN /\ said' = [said EXCEPT !["listing"] = w]
             /\ mark' = [mark EXCEPT !["listing"] = MarkAfter(w)]
             /\ revision' = revision + 1
        ELSE UNCHANGED <<said, mark, revision>>
    /\ edit' = NoEditOpen
    /\ IndexTick
    /\ UNCHANGED <<vector, embedder, late>>

\* Creating, renaming or describing a category or a tag marks its own row.
WriteDictionary(row) ==
    /\ MayWrite
    /\ \E w \in IndexWords : said' = [said EXCEPT ![row] = w]
    /\ mark' = [mark EXCEPT ![row] = clock + 1]
    /\ IndexTick
    /\ UNCHANGED <<vector, revision, edit, embedder, late>>

-----------------------------------------------------------------------------
(* The embedder.                                                           *)

\* A queue read back empty, or failed, leads to the next one.
NextQueue(e) == [kind |-> (e.kind % Len(Kinds)) + 1, row |-> "none"]

QueueEmpty(p) ==
    /\ embedder[p].row = "none"
    /\ mark[Kinds[embedder[p].kind]] = NoMark
    /\ embedder' = [embedder EXCEPT ![p] = NextQueue(@)]
    /\ UNCHANGED <<said, mark, vector, revision, edit, clock, late, spent>>

\* A claimed row is still stale: nothing but its place in the queue keeps a second
\* embedder off it.
Claimable(p, row) ==
    \/ /\ \A q \in Embedders \ {p} : embedder[q].row # row
       /\ UNCHANGED spent
    \/ /\ \E q \in Embedders \ {p} : embedder[q].row = row
       /\ spent.rivals < MaxRivalClaims
       /\ spent' = [spent EXCEPT !.rivals = @ + 1]

\* The claim is the mark: it moves to now().
ListStale(p) ==
    LET row == Kinds[embedder[p].kind]
    IN  /\ embedder[p].row = "none"
        /\ mark[row] # NoMark
        /\ Claimable(p, row)
        /\ mark' = [mark EXCEPT ![row] = clock + 1]
        /\ embedder' = [embedder EXCEPT ![p] =
                [kind |-> @.kind, row |-> row, mark |-> clock + 1, text |-> Text(row)]]
        /\ IndexTick
        /\ UNCHANGED <<said, vector, revision, edit, late>>

\* Mutant: whatever mark the row carries is cleared.
ClearAnyMark(row, claimed) == NoMark

ClearMark(row, claimed) == IF mark[row] = claimed THEN NoMark ELSE mark[row]

\* One transaction: the vector and the clear of the mark it was computed from.
SaveVectors(p) ==
    LET held == embedder[p]
    IN  /\ held.row # "none"
        /\ vector' = [vector EXCEPT ![held.row] = held.text]
        /\ mark' = [mark EXCEPT ![held.row] = ClearMark(held.row, held.mark)]
        /\ embedder' = [embedder EXCEPT ![p] = [kind |-> @.kind, row |-> "none"]]
        /\ late' = CASE mark[held.row] = held.mark -> late \ {held.row}
                     [] mark[held.row] = NoMark    -> late \cup {held.row}
                     [] OTHER                      -> late
        /\ UNCHANGED <<said, revision, edit, clock, spent>>

\* Mutant: a failed batch is not read again before the next edit of the row.
DropMark(row) == NoMark

\* What a failed model call or write leaves in the queue.
MarkLeft(row) == mark[row]

\* The model or the write fails and the pass goes on with the next queue, or
\* the process dies and starts over: either way the marks are still set.
EmbedFails(p, restarted) ==
    /\ embedder[p].row # "none"
    /\ spent.errors < MaxModelErrors
    /\ spent' = [spent EXCEPT !.errors = @ + 1]
    /\ mark' = [mark EXCEPT ![embedder[p].row] = MarkLeft(embedder[p].row)]
    /\ embedder' = [embedder EXCEPT ![p] = IF restarted THEN Idling ELSE NextQueue(@)]
    /\ UNCHANGED <<said, vector, revision, edit, clock, late>>

-----------------------------------------------------------------------------
IndexInit ==
    /\ said \in [IndexedRows -> {CHOOSE w \in IndexWords : TRUE}]
    /\ mark = [r \in IndexedRows |-> 1]
    /\ vector = [r \in IndexedRows |-> NoVector]
    /\ revision = 1
    /\ edit = NoEditOpen
    /\ embedder = [p \in Embedders |-> Idling]
    /\ clock = 1
    /\ late = {}
    /\ spent = [writes |-> 0, errors |-> 0, rivals |-> 0]

EmbedderStep(p) ==
    \/ QueueEmpty(p)
    \/ ListStale(p)
    \/ SaveVectors(p)

IndexNext ==
    \/ ReadListing
    \/ SaveListingText
    \/ \E row \in Dictionary : WriteDictionary(row)
    \/ \E p \in Embedders :
        \/ EmbedderStep(p)
        \/ \E restarted \in BOOLEAN : EmbedFails(p, restarted)

\* The embedder runs on a ticker for as long as the process lives.
IndexFairness == \A p \in Embedders : WF_indexVars(EmbedderStep(p))

IndexSpec == IndexInit /\ [][IndexNext]_indexVars /\ IndexFairness

-----------------------------------------------------------------------------
(* Marks and vectors have the shape their columns allow.                   *)
IndexTypeOK ==
    /\ said \in [IndexedRows -> IndexWords]
    /\ \A r \in IndexedRows : mark[r] \in 1 .. clock \cup {NoMark}
    /\ \A r \in IndexedRows : vector[r] = NoVector \/ vector[r][1] \in IndexWords
    /\ \A p \in Embedders : embedder[p].row \in IndexedRows \cup {"none"}

(* A row out of the queue is found by what it says: while no mark is set,  *)
(* the stored vector was computed from the row's own present words, through*)
(* edits saved while the model was working, saves that carry the mark of   *)
(* an older read, failed passes and an embedder that dies with a batch.    *)
(* The one exception is a row whose vector a rival batch, claimed earlier, *)
(* wrote after the mark was gone.                                          *)
UnmarkedIsCurrent ==
    \A r \in IndexedRows \ late :
        mark[r] = NoMark => vector[r] # NoVector /\ vector[r][1] = said[r]

(* That takes two: a single embedder never saves a batch whose mark a row  *)
(* no longer has to clear.                                                 *)
NoneLateAlone == (\A p, q \in Embedders : p = q) => late = {}

(* The queue drains: a row that is marked is embedded in the end, whatever *)
(* fails on the way, because nothing but the save of its vector clears it. *)
MarkedGetsEmbedded ==
    \A r \in IndexedRows : mark[r] # NoMark ~> mark[r] = NoMark

=============================================================================
