----------------------------- MODULE ListingDesk -----------------------------
(***************************************************************************)
(* One listing of the catalogue: its seller edits, publishes, hides and    *)
(* deletes it, moderators approve it or take it down, buyers reserve its   *)
(* stock.  Every command reads the whole aggregate, changes the copy and   *)
(* saves it under the row's version; stock moves by guarded statements     *)
(* that take no version.                                                   *)
(***************************************************************************)
EXTENDS Naturals, FiniteSets

CONSTANTS
    Fields,           \* what a listing claims to be, and an edit may replace
    Wordings,         \* what a field can say
    SellerVariants,   \* the variants this listing may ever have
    ListingCallers,   \* requests that may be in flight at once
    MaxVersionOf,     \* bound on the saves of the row
    MaxUnits,         \* bound on the quantity of a variant
    NoEdit            \* the absent held edit

ASSUME ListingAssumption ==
    /\ MaxVersionOf \in Nat \ {0} /\ MaxUnits \in Nat
    /\ Wordings # {}
    /\ \A F \in SUBSET Fields : NoEdit \notin [F -> Wordings]

VARIABLES
    listing,    \* the row
    variants,   \* the variant rows with their stock
    desk,       \* the requests in flight, each with the copy it will save
    screen,     \* the version and the content on a moderator's screen
    reviewed    \* the content the approval that last landed was given for

listingVars == <<listing, variants, desk, screen, reviewed>>

-----------------------------------------------------------------------------
(* The aggregate.                                                          *)

Content == [Fields -> Wordings]

PendingEdit == UNION {[F -> Wordings] : F \in SUBSET Fields \ {{}}}

Statuses == {"draft", "pending", "active", "hidden"}

NoListing == [status |-> "none", content |-> CHOOSE c \in Content : TRUE,
              pendingEdit |-> NoEdit, located |-> FALSE, takenDown |-> FALSE,
              deleted |-> FALSE, version |-> 0]

NoVariant == [live |-> FALSE, featured |-> FALSE, quantity |-> 0, reserved |-> 0, sold |-> 0]

Committed(v) == v.reserved + v.sold

LiveVariants(vs) == {v \in SellerVariants : vs[v].live}

Featured(vs) == {v \in LiveVariants(vs) : vs[v].featured}

\* The aggregate as one command holds it; it saves no reserved or sold units.
Aggregate(l, vs) ==
    [row |-> l, set |-> [v \in SellerVariants |-> [vs[v] EXCEPT !.reserved = 0, !.sold = 0]]]

\* Everything Validate asks of the aggregate that a command can get wrong.
Validate(a) ==
    /\ LiveVariants(a.set) = {} => a.row.status = "draft"
    /\ LiveVariants(a.set) # {} => Cardinality(Featured(a.set)) = 1

apply(l, edit) ==
    [l EXCEPT !.content = [f \in Fields |-> IF f \in DOMAIN edit THEN edit[f] ELSE @[f]]]

\* Mutant: an edit of a live listing is written through like any other.
WriteThrough(l, edit) == [apply(l, edit) EXCEPT !.pendingEdit = NoEdit]

SubmitEdit(l, edit) ==
    IF l.status = "active"
    THEN [l EXCEPT !.pendingEdit = edit]
    ELSE [apply(l, edit) EXCEPT !.pendingEdit = NoEdit]

ApplyPendingEdit(l) ==
    IF l.pendingEdit = NoEdit THEN l
    ELSE [apply(l, l.pendingEdit) EXCEPT !.pendingEdit = NoEdit]

\* Mutant: hiding leaves the held edit where it is.
HideKeepsEdit(l) == [l EXCEPT !.status = "hidden"]

Hide(l) == [ApplyPendingEdit(l) EXCEPT !.status = "hidden"]

Publish(l) == [l EXCEPT !.status = "pending", !.located = TRUE, !.takenDown = FALSE]

CanApprove(l) ==
    /\ ~l.deleted
    /\ \/ l.status = "pending" /\ l.pendingEdit = NoEdit
       \/ l.status = "active" /\ l.pendingEdit # NoEdit

Approve(l) == [ApplyPendingEdit(l) EXCEPT !.status = "active"]

Takedown(l) == [l EXCEPT !.status = "hidden", !.pendingEdit = NoEdit, !.takenDown = TRUE]

AddVariant(vs, v, quantity) ==
    [vs EXCEPT ![v] = [NoVariant EXCEPT !.live = TRUE, !.quantity = quantity,
                                        !.featured = LiveVariants(vs) = {}]]

\* The flag of a removed variant moves to the first one left.
RemoveVariant(vs, v) ==
    LET rest == LiveVariants(vs) \ {v}
        heir == IF rest \cap Featured(vs) # {} \/ rest = {} THEN {}
                ELSE {CHOOSE x \in rest : TRUE}
    IN  [x \in SellerVariants |->
            CASE x = v -> [vs[x] EXCEPT !.live = FALSE, !.featured = FALSE]
              [] x \in heir -> [vs[x] EXCEPT !.featured = TRUE]
              [] OTHER -> vs[x]]

SetFeatured(vs, v) == [x \in SellerVariants |-> [vs[x] EXCEPT !.featured = (x = v)]]

-----------------------------------------------------------------------------
(* Reading the aggregate and keeping what the command made of it.          *)

DeskIdle == [op |-> "idle"]

\* A draft with its variants inline, the first of them featured.
CreateListing ==
    /\ listing.status = "none"
    /\ \E c \in Content, first \in SellerVariants, n \in 0 .. MaxUnits :
        /\ listing' = [NoListing EXCEPT !.status = "draft", !.content = c, !.version = 1]
        /\ variants' = AddVariant(variants, first, n)
    /\ UNCHANGED <<desk, screen, reviewed>>

\* The copy is validated before it is saved; what fails here answers an error.
Hold(c, by, a) ==
    /\ desk[c] = DeskIdle
    /\ listing.version < MaxVersionOf
    /\ Validate(a)
    /\ desk' = [desk EXCEPT ![c] = [op |-> by, version |-> listing.version, copy |-> a,
                                   shown |-> screen.content]]
    /\ UNCHANGED <<listing, variants, screen, reviewed>>

\* GetListingForSeller answers the seller's own listing until it is deleted.
OwnListing == listing.status # "none" /\ ~listing.deleted

UpdateListing(c) ==
    /\ OwnListing
    /\ \E edit \in PendingEdit : Hold(c, "save", Aggregate(SubmitEdit(listing, edit), variants))

\* The card's variant is not part of the reviewed set and takes effect at once.
FeatureVariant(c, v) ==
    /\ OwnListing
    /\ variants[v].live
    /\ Hold(c, "save", Aggregate(listing, SetFeatured(variants, v)))

PublishListing(c) ==
    /\ OwnListing
    /\ listing.status \in {"draft", "hidden"}
    /\ LiveVariants(variants) # {}
    /\ Hold(c, "save", Aggregate(Publish(listing), variants))

HideListing(c) ==
    /\ OwnListing
    /\ listing.status = "active"
    /\ Hold(c, "save", Aggregate(Hide(listing), variants))

CreateVariant(c, v) ==
    /\ OwnListing
    /\ variants[v] = NoVariant
    /\ \E n \in 0 .. MaxUnits : Hold(c, "save", Aggregate(listing, AddVariant(variants, v, n)))

\* A quantity below what the copy shows as committed is refused at once.
UpdateVariant(c, v) ==
    /\ OwnListing
    /\ variants[v].live
    /\ \E n \in Committed(variants[v]) .. MaxUnits :
        Hold(c, "save", Aggregate(listing, [variants EXCEPT ![v].quantity = n]))

DeleteVariant(c, v) ==
    /\ OwnListing
    /\ variants[v].live
    /\ LiveVariants(variants) = {v} => listing.status \notin {"active", "pending"}
    /\ Hold(c, "save", Aggregate(listing, RemoveVariant(variants, v)))

\* The service refuses what the copy shows as reserved; the statement asks again.
DeleteListing(c) ==
    /\ OwnListing
    /\ \A v \in LiveVariants(variants) : variants[v].reserved = 0
    /\ Hold(c, "delete", Aggregate(listing, variants))

\* What a moderator reads before deciding: the held edit over the row.
ReadQueue ==
    /\ listing.status = "pending" \/ listing.pendingEdit # NoEdit
    /\ ~listing.deleted
    /\ screen' = [version |-> listing.version, content |-> ApplyPendingEdit(listing).content]
    /\ UNCHANGED <<listing, variants, desk, reviewed>>

\* Mutant: the verdict is on whatever the row says now.
AnyRevision(l) == TRUE

\* The verdict names the version that was read.
ReadRevision(l) == l.version = screen.version

AdminApproveListing(c) ==
    /\ ReadRevision(listing)
    /\ CanApprove(listing)
    /\ Hold(c, "approve", Aggregate(Approve(listing), variants))

AdminTakedownListing(c) ==
    /\ ~listing.deleted
    /\ listing.status \in {"pending", "active"}
    /\ Hold(c, "save", Aggregate(Takedown(listing), variants))

-----------------------------------------------------------------------------
(* Writing it back.                                                        *)

\* Mutant: the last save wins.
SaveAnyVersion(call) == ~listing.deleted

SaveListingLands(call) == listing.version = call.version /\ ~listing.deleted

\* Mutant: the quantity of the copy is written whatever is committed by now.
WriteQuantity(now, saved) == TRUE

\* The guard of the stock statement.
QuantityStands(now, saved) == saved.quantity >= Committed(now)

\* A variant of the copy, with the counters the stock statements own.
Saved(now, saved) ==
    IF saved.live
    THEN [saved EXCEPT !.reserved = now.reserved, !.sold = now.sold]
    ELSE [now EXCEPT !.live = FALSE, !.featured = FALSE]

\* One transaction: the row, its variants, the featured flag.
SaveListing(c) ==
    LET call == desk[c]
        Stands(v) == call.copy.set[v].live => QuantityStands(variants[v], call.copy.set[v])
        lands == SaveListingLands(call) /\ \A v \in SellerVariants : Stands(v)
    IN  /\ call.op \in {"save", "approve"}
        /\ desk' = [desk EXCEPT ![c] = DeskIdle]
        /\ IF lands
           THEN /\ listing' = [call.copy.row EXCEPT !.version = listing.version + 1]
                /\ variants' = [v \in SellerVariants |-> Saved(variants[v], call.copy.set[v])]
                /\ reviewed' = IF call.op = "approve" THEN call.shown ELSE reviewed
           ELSE UNCHANGED <<listing, variants, reviewed>>
        /\ UNCHANGED screen

SoftDeleteListing(c) ==
    /\ desk[c].op = "delete"
    /\ desk' = [desk EXCEPT ![c] = DeskIdle]
    /\ IF ~listing.deleted /\ \A v \in LiveVariants(variants) : variants[v].reserved = 0
       THEN listing' = [listing EXCEPT !.deleted = TRUE, !.version = @ + 1]
       ELSE UNCHANGED listing
    /\ UNCHANGED <<variants, screen, reviewed>>

\* An attachment that is not a confirmed resource, or the database, ends it.
GiveUp(c) ==
    /\ desk[c] # DeskIdle
    /\ desk' = [desk EXCEPT ![c] = DeskIdle]
    /\ UNCHANGED <<listing, variants, screen, reviewed>>

-----------------------------------------------------------------------------
(* The stock statements: no listing is read and no version is taken.       *)

StockMove(v, moved) ==
    /\ variants' = [variants EXCEPT ![v] = moved]
    /\ UNCHANGED <<listing, desk, screen, reviewed>>

ReserveStock(v) ==
    /\ Committed(variants[v]) + 1 <= variants[v].quantity
    /\ StockMove(v, [variants[v] EXCEPT !.reserved = @ + 1])

ReleaseStock(v) ==
    /\ variants[v].reserved >= 1
    /\ StockMove(v, [variants[v] EXCEPT !.reserved = @ - 1])

CommitStock(v) ==
    /\ variants[v].reserved >= 1
    /\ StockMove(v, [variants[v] EXCEPT !.reserved = @ - 1, !.sold = @ + 1])

UncommitStock(v) ==
    /\ variants[v].sold >= 1
    /\ StockMove(v, [variants[v] EXCEPT !.sold = @ - 1])

-----------------------------------------------------------------------------
ListingInit ==
    /\ listing = NoListing
    /\ variants = [v \in SellerVariants |-> NoVariant]
    /\ desk = [c \in ListingCallers |-> DeskIdle]
    /\ screen = [version |-> 0, content |-> NoListing.content]
    /\ reviewed = NoListing.content

ListingNext ==
    \/ CreateListing
    \/ ReadQueue
    \/ \E c \in ListingCallers :
        \/ UpdateListing(c)
        \/ PublishListing(c)
        \/ HideListing(c)
        \/ DeleteListing(c)
        \/ AdminApproveListing(c)
        \/ AdminTakedownListing(c)
        \/ SaveListing(c)
        \/ SoftDeleteListing(c)
        \/ GiveUp(c)
        \/ \E v \in SellerVariants :
            \/ FeatureVariant(c, v)
            \/ CreateVariant(c, v)
            \/ UpdateVariant(c, v)
            \/ DeleteVariant(c, v)
    \/ \E v \in SellerVariants :
        \/ ReserveStock(v)
        \/ ReleaseStock(v)
        \/ CommitStock(v)
        \/ UncommitStock(v)

ListingSpec == ListingInit /\ [][ListingNext]_listingVars

-----------------------------------------------------------------------------
VariantRow == [live : BOOLEAN, featured : BOOLEAN, quantity : 0 .. MaxUnits,
               reserved : 0 .. MaxUnits, sold : 0 .. MaxUnits]

(* Every row and every copy in flight has the shape its columns allow.     *)
ListingTypeOK ==
    /\ listing.status \in Statuses \cup {"none"}
    /\ listing.content \in Content
    /\ listing.pendingEdit \in PendingEdit \cup {NoEdit}
    /\ listing.version \in 0 .. MaxVersionOf + 1
    /\ variants \in [SellerVariants -> VariantRow]
    /\ \A c \in ListingCallers : desk[c].op \in {"idle", "save", "approve", "delete"}
    /\ reviewed \in Content

(* What buyers see was read by a moderator.  While a listing is live its   *)
(* content is the content on the screen of the approval that last landed:  *)
(* a seller's edit, a hide and publish, or a save from an older read never *)
(* puts other words under that approval.  An edit is held only while the   *)
(* listing is live, so the queue never holds a pair Approve refuses, and a *)
(* queued or live listing has a pickup place and one featured variant.     *)
OnlyReviewedIsLive ==
    /\ listing.status = "active" => listing.content = reviewed
    /\ listing.pendingEdit # NoEdit => listing.status = "active"
    /\ listing.takenDown => listing.status = "hidden"
    /\ listing.status \in {"pending", "active"} =>
        listing.located /\ Cardinality(Featured(variants)) = 1

(* A seller's edit never takes away what a buyer holds: the quantity saved *)
(* from a copy read before a checkout still covers every reserved and sold *)
(* unit, or nothing of that save lands.                                    *)
ListingUnitsBacked ==
    \A v \in SellerVariants : Committed(variants[v]) <= variants[v].quantity

=============================================================================
