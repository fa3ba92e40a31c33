------------------------------ MODULE HomeFeed ------------------------------
(* The catalog's browse: the home page as shelves, each excluding what the    *)
(* shelves above it showed; the feed, personalised, trending or newest; the   *)
(* personalised draw materialised in a shared cache and paged from there; and *)
(* the resolution of a browse request to the filter the adapter runs.         *)
(* Listings come and go, are saved, tastes are recomputed and cache entries   *)
(* expire between any two reads of a request.                                 *)
(*                                                                            *)
(* What a ranking prefers is data: a page is some page of what its statement  *)
(* lets through, in some order.                                               *)
EXTENDS Integers, Sequences, FiniteSets, SequencesExt

CONSTANTS FeedCards,     \* listings
          OwnCards,      \* the ones the viewer sells
          FeedTabs,      \* requests of one viewer in flight
          FeedEmbedded,  \* the listings with a vector
          FeedTopLists,  \* what observability's top list may be, <<>> when it does not answer
          FeedTastes,    \* the interests an account may have, strongest slot first: the
                         \* listings inside a slot's floor, and its nearest categories
          FeedGlances,   \* the recent views an account may have, newest first
          FeedCategory,  \* the categories a listing is in: its leaf and what is above it
          FeedSeeds,     \* the seeds a client sends
          ShelfMin,      \* shelfMinCards
          ShelfLimit,    \* the page size asked for
          FeedBatch,     \* feedCacheBatch
          MaxCachedDraws, MaxFeedChanges, \* bounds: draws kept at once, changes between reads
          MaxParameters, \* bound: how many parameters a browse combines
          NoCard

VARIABLES onSale,     \* the listings that are active
          setAside,   \* the listings the viewer saved or hid
          glanced,    \* the listings lately viewed, newest first
          tastes,     \* the interests of the viewer
          tastesHad,  \* (history) all the interests the viewer has had
          feedCache,  \* materialised draws: [key, ids]
          feedTab,    \* the requests in flight
          feedChanges,\* changes so far
          asked       \* a browse request and the filter it resolved to

shelfVars == <<onSale, setAside, glanced, tastes, tastesHad, feedCache, feedTab, feedChanges>>
feedReadVars == <<shelfVars, asked>>

AnyCategory == "any"
NoSubject == ""
NotAsked == [out |-> [answered |-> FALSE]]

Interests == Seq([near : SUBSET FeedCards, names : Seq(STRING)])

\* Ids are keys, ranks name a listing once, and NULL is no listing.
ASSUME FeedAssumption ==
  /\ IsFiniteSet(FeedCards) /\ NoCard \notin FeedCards
  /\ OwnCards \subseteq FeedCards /\ FeedEmbedded \subseteq FeedCards
  /\ ShelfMin \in Nat /\ ShelfLimit \in Nat /\ FeedBatch \in Nat /\ FeedSeeds \subseteq Nat
  /\ FeedTopLists \subseteq Seq(FeedCards) /\ \A top \in FeedTopLists : IsInjective(top)
  /\ FeedGlances \subseteq Seq(FeedCards)
  /\ FeedTastes \subseteq Interests
  /\ FeedCategory \in [FeedCards -> SUBSET STRING]

(* The narrowing the statements apply (port.ListingFilter as far as a feed or *)
(* a shelf sets it); an interest is the listings inside its floor.            *)
ListingFilter(sort, exclude) ==
  [sort |-> sort, exclude |-> exclude, taste |-> {}, seed |-> 0, category |-> AnyCategory,
   matched |-> FALSE, offset |-> 0]

NoTab == [stage |-> "idle", phase |-> "plan", slot |-> 0, views |-> <<>>, anchor |-> NoCard,
          tastes |-> <<>>, subject |-> NoSubject, filter |-> ListingFilter("newest", {}),
          ids |-> <<>>, rows |-> <<>>, seen |-> {}, names |-> {}, page |-> <<>>]

FeedInit ==
  /\ onSale = FeedCards
  /\ setAside = {}
  /\ glanced \in FeedGlances
  /\ tastes \in FeedTastes /\ tastesHad = {tastes}
  /\ feedCache = {}
  /\ feedTab = [t \in FeedTabs |-> NoTab]
  /\ feedChanges = 0
  /\ asked = NotAsked

-----------------------------------------------------------------------------
(* The statements.                                                            *)

InCategory(c, category) == category = AnyCategory \/ category \in FeedCategory[c]

\* feedWhere without ids: live, not excluded, in the category or under it.
Browsable(f) == {c \in onSale \ f.exclude : InCategory(c, f.category)}

\* recommendedWhere on top of it: not the viewer's own and not what they set aside;
\* recommendedEmbedded per interest, and the fresh source that needs no vector, which a
\* named row goes without.
RecommendedFor(f) ==
  LET pool == Browsable(f) \ (setAside \cup OwnCards)
  IN IF f.matched THEN {c \in pool \cap FeedEmbedded : \E near \in f.taste : c \in near} ELSE pool

AtMost(n, bound) == IF n < bound THEN n ELSE bound

\* Some n rows of what the statement lets through, in some order.
PagesOf(S, n) == {p \in [1 .. AtMost(Cardinality(S), n) -> S] : IsInjective(p)}

\* A scan of the vector index may stop short of n rows.
ScansOf(S, n) == UNION {PagesOf(S, k) : k \in 0 .. n}

\* Those of ids that are in S, in the order of ids.
Among(ids, S) ==
  LET kept[n \in 0 .. Len(ids)] ==
        IF n = 0 THEN <<>>
        ELSE IF ids[n] \in S THEN Append(kept[n - 1], ids[n]) ELSE kept[n - 1]
  IN kept[Len(ids)]

\* ListListingsByIDs: the live ones among ids, put back in the order ids named
\* them (reorderCards).
Hydrated(ids) == Among(ids, onSale)

\* feedCacheKey: the run's seed and every filter that narrows the draw.
feedCacheKey(f) ==
  [seed |-> f.seed, exclude |-> f.exclude, category |-> f.category, matched |-> f.matched]

CachedDraw(f) == {e \in feedCache : e.key = feedCacheKey(f)}

WantedRows(f) == f.offset + ShelfLimit

\* rows[min(offset, len):min(want, len)]
PageAt(f, rows) == SubSeq(rows, f.offset + 1, AtMost(Len(rows), WantedRows(f)))

\* listingRows: which of the three retrieval shapes the filter asks for.
Retrieval(f) ==
  IF f.sort = "recommended" /\ f.taste # {} THEN "get"
  ELSE IF f.sort = "trending" THEN "popular" ELSE "browse"

-----------------------------------------------------------------------------
(* ListShelves: the reader's own shelves, then the marketplace's.             *)

ShelfStages == <<"viewed", "interests", "trending", "best-selling", "rating", "newest", "sent">>

StageAfter(s) == ShelfStages[1 + CHOOSE i \in 1 .. 6 : ShelfStages[i] = s]

\* Between two shelves.
BetweenShelves(tab) ==
  [tab EXCEPT !.phase = "plan", !.views = <<>>, !.subject = NoSubject, !.filter = NoTab.filter,
     !.ids = <<>>, !.rows = <<>>]

\* The interests and the names they took are one stage's.
NextStage(tab) ==
  [BetweenShelves(tab) EXCEPT !.stage = StageAfter(@), !.slot = 0, !.tastes = <<>>, !.names = {}]

\* Where the page goes after a shelf: the next slot, or the next stage.
Onward(tab) ==
  IF tab.stage = "interests" /\ tab.slot < Len(tab.tastes)
  THEN [BetweenShelves(tab) EXCEPT !.slot = @ + 1]
  ELSE NextStage(tab)

\* becauseYouViewed adds its anchor to what was seen whatever became of the row.
WithAnchor(tab) ==
  IF tab.stage = "viewed" /\ tab.anchor # NoCard THEN [tab EXCEPT !.seen = @ \cup {tab.anchor}] ELSE tab

\* add: a row long enough is kept and what it shows is seen.
AddShelf(tab, rows) ==
  IF Len(rows) < ShelfMin THEN Onward(WithAnchor(tab))
  ELSE Onward(WithAnchor([tab EXCEPT
         !.page = Append(@, [reason |-> tab.stage, slot |-> tab.slot,
                             subject |-> tab.subject, rows |-> rows]),
         !.seen = @ \cup ToSet(rows)]))

\* The answer of ListListings is the page itself.
ListAnswer(tab, rows) ==
  [tab EXCEPT !.stage = "sent", !.phase = "plan", !.ids = <<>>, !.rows = <<>>,
     !.page = <<[reason |-> "feed", slot |-> 0, subject |-> NoSubject, rows |-> rows]>>]

\* fail: a read of the retrieval or of the cards errs, and the page goes on
\* without the row; a browse answers the error, and so does a page that lost every
\* row (which this model reads as the page without rows).
FailRow(tab) ==
  IF tab.stage = "feed" THEN [NoTab EXCEPT !.stage = "sent"]
  ELSE Onward(WithAnchor(tab))

Answers(tab, rows) ==
  {IF tab.stage = "feed" THEN ListAnswer(tab, rows) ELSE AddShelf(tab, rows), FailRow(tab)}

FeedAt(t, phase) == feedTab[t].phase = phase /\ feedTab[t].stage \notin {"idle", "sent"}

PutTab(t, tab) == feedTab' = [feedTab EXCEPT ![t] = tab]

FeedReads == UNCHANGED <<onSale, setAside, glanced, tastes, tastesHad, feedCache, feedChanges, asked>>

ListShelves(t, signed) ==
  /\ feedTab[t].stage = "idle"
  /\ PutTab(t, [NoTab EXCEPT !.stage = IF signed THEN "viewed" ELSE "trending"])
  /\ FeedReads

\* RecentSignals, and then the views one by one (nextAnchor).
becauseYouViewed(t) ==
  /\ FeedAt(t, "plan") /\ feedTab[t].stage = "viewed"
  /\ PutTab(t, IF glanced = <<>> THEN Onward(feedTab[t])
               ELSE [feedTab[t] EXCEPT !.phase = "anchor", !.views = glanced])
  /\ FeedReads

\* The view is the anchor if its listing is live and has a vector, and is passed over
\* otherwise.
nextAnchor(t) ==
  /\ FeedAt(t, "anchor")
  /\ LET tab == feedTab[t]  c == Head(tab.views) IN
     PutTab(t, IF c \in onSale \cap FeedEmbedded
               THEN [tab EXCEPT !.phase = "browse", !.anchor = c,
                       !.filter = ListingFilter("relevance", tab.seen \cup {c})]
               ELSE IF Len(tab.views) = 1 THEN Onward(tab)
               ELSE [tab EXCEPT !.views = Tail(@)])
  /\ FeedReads

\* Repo.Interests: the slots as they are now, which the loop goes through.
readInterests(t) ==
  /\ FeedAt(t, "plan") /\ feedTab[t].stage = "interests" /\ feedTab[t].slot = 0
  /\ PutTab(t, Onward([feedTab[t] EXCEPT !.tastes = tastes]))
  /\ FeedReads

\* nameOf: the nearest category no earlier slot was named by, if there is one.
nameOf(tab) ==
  LET near == tab.tastes[tab.slot].names
  IN {near[i] : i \in {k \in DOMAIN near : /\ near[k] \notin tab.names
                                           /\ \A j \in 1 .. k - 1 : near[j] \in tab.names}}

\* One slot's row: the personalised draw of that interest alone, without the fresh
\* source, under a seed of the account and the slot.
interestShelves(t) ==
  /\ FeedAt(t, "plan") /\ feedTab[t].stage = "interests" /\ feedTab[t].slot > 0
  /\ LET tab == feedTab[t] IN
     \/ nameOf(tab) = {} /\ PutTab(t, Onward(tab))
     \/ \E name \in nameOf(tab) :
          PutTab(t, [tab EXCEPT !.phase = "get", !.subject = name, !.names = @ \cup {name},
                   !.filter = [ListingFilter("recommended", tab.seen) EXCEPT
                                 !.taste = {tab.tastes[tab.slot].near}, !.seed = tab.slot,
                                 !.matched = TRUE]])
  /\ FeedReads

platformShelf(t) ==
  /\ FeedAt(t, "plan") /\ feedTab[t].stage \in {"trending", "best-selling", "rating", "newest"}
  /\ LET f == ListingFilter(feedTab[t].stage, feedTab[t].seen) IN
     PutTab(t, [feedTab[t] EXCEPT !.phase = Retrieval(f), !.filter = f])
  /\ FeedReads

-----------------------------------------------------------------------------
(* feedFilter: which combinations have an answer, and what they resolve to.   *)

Parameters == {"viewer", "mine", "favorited", "status", "query", "similar", "narrows", "ids", "radius"}

(* A request: the parameters it carries (narrows: a category, tag, seller,    *)
(* condition, price or area), where it is measured from and how it is sorted. *)
ListListingsRequest ==
  [has : {P \in SUBSET Parameters : Cardinality(P) <= MaxParameters}, from : {"nowhere", "here", "half", "contact", "here and contact"},
   sort : {"", "relevance", "recommended", "trending", "newest", "distance"}]

\* A top list asked for of a set the caller chose.  Mutant of trendingWantsFilteredBrowse.
WantsWithoutMine(req) ==
  req.has \cap {"query", "narrows"} # {} \/ req.from # "nowhere"

trendingWantsFilteredBrowse(req) ==
  req.has \cap {"mine", "favorited", "query", "narrows"} # {} \/ req.from # "nowhere"

sortOf(req) ==
  IF req.sort # "" THEN req.sort
  ELSE IF req.has \cap {"query", "similar"} # {} THEN "relevance" ELSE "newest"

\* The combinations that have no answer.
RefusedRequest(req) ==
  \/ "viewer" \notin req.has /\ (req.has \cap {"mine", "favorited"} # {} \/ req.sort = "recommended")
  \/ "status" \in req.has /\ "mine" \notin req.has
  \/ req.sort = "relevance" /\ req.has \cap {"query", "similar"} = {}
  \/ req.sort = "recommended" /\ req.has \cap {"mine", "favorited"} # {}
  \/ /\ "similar" \in req.has
     /\ req.has \cap {"query", "mine", "favorited"} # {} \/ req.sort \notin {"", "relevance"}
  \/ req.sort = "trending" /\ trendingWantsFilteredBrowse(req)
  \/ req.from \in {"half", "here and contact"}

\* browsePosition: the device's, or that of an address of the caller's own that
\* was geocoded; an address that is not is an error.
browsePosition(req, geocoded) ==
  CASE req.from = "nowhere" -> "none"
    [] req.from = "here" -> "point"
    [] req.from = "contact" -> IF "viewer" \in req.has /\ geocoded THEN "point" ELSE "refused"

\* The sort a personalised feed falls back to while no interest is computed.
FallbackSort(req) == IF trendingWantsFilteredBrowse(req) THEN "newest" ELSE "trending"

\* feedFilter: the refusals in order, then the position, the interests of a
\* personalised feed, the probe of a listing, the terms of a query.
feedFilter(req, hasInterests, geocoded, embedded) ==
  LET near   == browsePosition(req, geocoded)
      sort   == IF sortOf(req) = "recommended" /\ ~hasInterests THEN FallbackSort(req) ELSE sortOf(req)
      unmeasured == near = "none" /\ ("radius" \in req.has \/ sortOf(req) = "distance")
      reply(s, terms, exclude) ==
        [answered |-> TRUE, sort |-> s, terms |-> terms, near |-> near = "point", exclude |-> exclude]
  IN IF RefusedRequest(req) \/ near = "refused" \/ unmeasured THEN [answered |-> FALSE]
     ELSE IF "similar" \in req.has
     THEN IF embedded THEN reply("relevance", TRUE, TRUE) ELSE reply("newest", FALSE, TRUE)
     ELSE reply(sort, sort # "recommended" /\ "query" \in req.has, FALSE)

AskListings(req) ==
  /\ \E out \in {feedFilter(req, hasInterests, geocoded, embedded) :
                   hasInterests \in BOOLEAN, geocoded \in BOOLEAN, embedded \in BOOLEAN} :
       asked' = [req |-> req, out |-> out]
  /\ UNCHANGED shelfVars

FilterNext == DOMAIN asked = DOMAIN NotAsked /\ \E req \in ListListingsRequest : AskListings(req)

\* ListListings of a signed-in caller with a category or none: what feedFilter resolves
\* it to, ranked against every interest when it is personalised.  The client's own seed
\* holds still while it pages, and any string will do.
ListListings(t, sort, category, offset, seed) ==
  /\ feedTab[t].stage = "idle"
  /\ LET narrows == IF category = AnyCategory THEN {} ELSE {"narrows"}
         out == feedFilter([has |-> {"viewer"} \cup narrows, from |-> "nowhere", sort |-> sort],
                           tastes # <<>>, FALSE, FALSE)
         ranked == out.sort = "recommended"
         f == [ListingFilter(out.sort, {}) EXCEPT
                 !.category = category, !.offset = offset, !.seed = IF ranked THEN seed ELSE 0,
                 !.taste = IF ranked THEN {tastes[k].near : k \in DOMAIN tastes} ELSE {}]
     IN /\ out.answered
        /\ PutTab(t, [NoTab EXCEPT !.stage = "feed", !.phase = Retrieval(f), !.filter = f])
  /\ FeedReads

-----------------------------------------------------------------------------
(* listingRows: the three retrieval shapes.                                   *)

\* The browse statement, and the search against one probe, which ranks what has a
\* vector and drops what is below its floor.
BrowseRows(t) ==
  /\ FeedAt(t, "browse")
  /\ LET f    == feedTab[t].filter
         left == IF Cardinality(Browsable(f)) < f.offset THEN 0 ELSE Cardinality(Browsable(f)) - f.offset IN
     \E rows \in IF f.sort = "relevance" THEN ScansOf(Browsable(f) \cap FeedEmbedded, ShelfLimit)
                  ELSE PagesOf(Browsable(f), AtMost(left, ShelfLimit)) :
       \E tab \in Answers(feedTab[t], rows) : PutTab(t, tab)
  /\ FeedReads

\* recommendedRows, the read of the cache: a batch that covers the page is
\* hydrated, a shorter one, a miss or a failed read is drawn.
CacheGet(t) ==
  /\ FeedAt(t, "get")
  /\ LET f == feedTab[t].filter IN
     \/ \E e \in CachedDraw(f) :
          /\ Len(e.ids) >= WantedRows(f)
          /\ PutTab(t, [feedTab[t] EXCEPT !.phase = "hydrate", !.ids = PageAt(f, e.ids)])
     \/ PutTab(t, [feedTab[t] EXCEPT !.phase = "draw"])
  /\ FeedReads

\* The draw is a batch and not the page; the interests' part of it is an index scan.
DrawFeed(t) ==
  /\ FeedAt(t, "draw")
  /\ LET f == feedTab[t].filter
         n == IF WantedRows(f) < FeedBatch THEN FeedBatch ELSE WantedRows(f) IN
     \/ \E ids \in IF f.matched THEN ScansOf(RecommendedFor(f), n) ELSE PagesOf(RecommendedFor(f), n) :
          PutTab(t, [feedTab[t] EXCEPT !.phase = "store", !.ids = ids])
     \/ PutTab(t, FailRow(feedTab[t]))
  /\ FeedReads

\* cache.Set, best effort, and the page of what was drawn.
CacheSet(t) ==
  /\ FeedAt(t, "store")
  /\ LET f == feedTab[t].filter IN
     /\ \/ /\ Cardinality(feedCache \ CachedDraw(f)) < MaxCachedDraws
           /\ feedCache' = (feedCache \ CachedDraw(f))
                             \cup {[key |-> feedCacheKey(f), ids |-> feedTab[t].ids]}
        \/ UNCHANGED feedCache
     /\ \E tab \in Answers(feedTab[t], PageAt(f, feedTab[t].ids)) : PutTab(t, tab)
  /\ UNCHANGED <<onSale, setAside, glanced, tastes, tastesHad, feedChanges, asked>>

HydrateFeed(t) ==
  /\ FeedAt(t, "hydrate")
  /\ \E tab \in Answers(feedTab[t], Hydrated(feedTab[t].ids)) : PutTab(t, tab)
  /\ FeedReads

\* The top list as it is, whatever the shelves above showed.  Mutant of NotYetShown.
WholeTopList(f, ids) == ids

NotYetShown(f, ids) == Among(ids, FeedCards \ f.exclude)

\* trendingRows, the popular part: enough of the top list to survive the drop, of which
\* the live ones are the row if they fill it.
TopPopular(t) ==
  /\ FeedAt(t, "popular")
  /\ LET f == feedTab[t].filter
         n == WantedRows(f) + Cardinality(f.exclude) IN
     \E list \in FeedTopLists :
       LET rows == Hydrated(NotYetShown(f, SubSeq(list, 1, AtMost(Len(list), n)))) IN
       \E tab \in IF Len(rows) >= WantedRows(f) THEN Answers(feedTab[t], PageAt(f, rows))
                  ELSE {[feedTab[t] EXCEPT !.phase = "backfill", !.rows = rows], FailRow(feedTab[t])} :
         PutTab(t, tab)
  /\ FeedReads

\* trendingRows, the backfill: the newest that are not in the row already.
Backfill(t) ==
  /\ FeedAt(t, "backfill")
  /\ LET f == feedTab[t].filter  have == feedTab[t].rows IN
     \E newest \in PagesOf(Browsable(f), WantedRows(f) + Len(have)) :
       LET more == Among(newest, FeedCards \ ToSet(have)) IN
       \E tab \in Answers(feedTab[t], PageAt(f, have \o more)) : PutTab(t, tab)
  /\ FeedReads

\* The reads a stage begins with err, and what is left of it is skipped.
StageFails(t) ==
  /\ feedTab[t].stage \in {"viewed", "interests"} /\ feedTab[t].phase \in {"plan", "anchor"}
  /\ PutTab(t, NextStage(feedTab[t]))
  /\ FeedReads

\* The page was read and the tab asks again.
CloseTab(t) ==
  /\ feedTab[t].stage = "sent"
  /\ PutTab(t, NoTab)
  /\ FeedReads

-----------------------------------------------------------------------------
(* What happens between two reads of a request.                               *)

FeedChange ==
  /\ feedChanges < MaxFeedChanges
  /\ feedChanges' = feedChanges + 1
  /\ UNCHANGED <<feedCache, feedTab, asked>>

\* The interests may be recomputed; what the cache holds of the old ones stays.
Recomputed == tastes' \in FeedTastes /\ tastesHad' = tastesHad \cup {tastes'}

\* A listing is hidden or taken down, or published again.
ToggleCard(c) ==
  /\ FeedChange
  /\ onSale' = IF c \in onSale THEN onSale \ {c} ELSE onSale \cup {c}
  /\ UNCHANGED <<setAside, glanced, tastes, tastesHad>>

\* AddFavorite and RemoveFavorite, and the interests they recompute.
SetAsideCard(c) ==
  /\ FeedChange
  /\ setAside' = IF c \in setAside THEN setAside \ {c} ELSE setAside \cup {c}
  /\ Recomputed
  /\ UNCHANGED <<onSale, glanced>>

\* The viewer opens a listing, and a sweep may find the account.
ViewCard ==
  /\ FeedChange
  /\ glanced' \in FeedGlances /\ Recomputed
  /\ UNCHANGED <<onSale, setAside>>

\* The time to live of a draw runs out.
CacheExpires ==
  /\ \E e \in feedCache : feedCache' = feedCache \ {e}
  /\ UNCHANGED <<onSale, setAside, glanced, tastes, tastesHad, feedTab, feedChanges, asked>>

FeedNext ==
  \/ \E t \in FeedTabs :
       \/ \E signed \in BOOLEAN : ListShelves(t, signed)
       \/ becauseYouViewed(t) \/ nextAnchor(t) \/ readInterests(t) \/ interestShelves(t) \/ platformShelf(t)
       \/ \E sort \in {"recommended", "trending", "newest"}, offset \in {0, ShelfLimit}, seed \in FeedSeeds,
             category \in {AnyCategory} \cup UNION {FeedCategory[c] : c \in FeedCards} :
            ListListings(t, sort, category, offset, seed)
       \/ BrowseRows(t) \/ CacheGet(t) \/ DrawFeed(t) \/ CacheSet(t) \/ HydrateFeed(t)
       \/ TopPopular(t) \/ Backfill(t) \/ StageFails(t) \/ CloseTab(t)
  \/ \E c \in FeedCards : ToggleCard(c) \/ SetAsideCard(c)
  \/ ViewCard \/ CacheExpires

FeedSpec == FeedInit /\ [][FeedNext \/ FilterNext]_feedReadVars

-----------------------------------------------------------------------------

\* A filter, a shelf and a request in flight.
Sorts == {"relevance", "recommended", "trending", "best-selling", "rating", "newest"}

TabStages == {"idle", "viewed", "interests", "trending", "best-selling", "rating", "newest", "feed", "sent"}

TabPhases == {"plan", "anchor", "browse", "get", "draw", "store", "hydrate", "popular", "backfill"}

Filters == [sort : Sorts, exclude : SUBSET FeedCards, taste : SUBSET SUBSET FeedCards, seed : Nat,
            category : STRING \cup {AnyCategory}, matched : BOOLEAN, offset : Nat]

Shelves == [reason : TabStages, slot : Nat, subject : STRING \cup {NoSubject}, rows : Seq(FeedCards)]

Tabs == [stage : TabStages, phase : TabPhases, slot : Nat, views : Seq(FeedCards), anchor : FeedCards \cup {NoCard},
         tastes : Interests, subject : STRING \cup {NoSubject}, filter : Filters, ids : Seq(FeedCards),
         rows : Seq(FeedCards), seen : SUBSET FeedCards, names : SUBSET STRING, page : Seq(Shelves)]

\* Every variable holds a value of its kind.
FeedReadTypeOK ==
  /\ onSale \subseteq FeedCards /\ setAside \subseteq FeedCards
  /\ glanced \in FeedGlances /\ tastes \in FeedTastes /\ tastesHad \subseteq FeedTastes
  /\ \A e \in feedCache : e.ids \in Seq(FeedCards)
  /\ feedTab \in [FeedTabs -> Tabs]

\* All near one taste that the account has had in the slot.
OfOneTaste(slot, cards) ==
  \E ts \in tastesHad : slot \in DOMAIN ts /\ cards \subseteq ts[slot].near

\* The rows of a home page are different rows: no listing is on it twice, the one a
\* row is about is not offered back, and each taste has a name of its own, whatever the
\* cache was left with by other requests and whatever was hidden, saved or failed
\* meanwhile; the row of a slot shows listings near one taste the account has had in that
\* slot, which is its own for as long as the interests are not recomputed and may be the
\* taste of a kept draw when they are (the key leaves the interests out); a filtered feed
\* shows its filter's listings although the cache serves every filter of the run; and
\* nothing that is recommended is the viewer's own.
PageRepeatsNothing ==
  \A t \in FeedTabs :
    LET tab == feedTab[t] IN
    /\ \A i, j \in DOMAIN tab.page : i # j => ToSet(tab.page[i].rows) \cap ToSet(tab.page[j].rows) = {}
    /\ \A i, j \in DOMAIN tab.page :
         tab.page[i].reason = "interests" /\ tab.page[j].reason = "interests"
           /\ tab.page[i].subject = tab.page[j].subject => i = j
    /\ \A i \in DOMAIN tab.page :
         LET row == tab.page[i]  shown == ToSet(row.rows) IN
         /\ IsInjective(row.rows) /\ tab.anchor \notin shown
         /\ row.reason = "interests" => OfOneTaste(row.slot, shown) /\ shown \cap OwnCards = {}
         /\ row.reason = "feed" =>
              /\ \A c \in shown : InCategory(c, tab.filter.category)
              /\ tab.filter.sort = "recommended" => shown \cap OwnCards = {}

\* A client does not get a different list than it asked for: what narrows a browse is
\* never answered by the platform's top list, a ranking always has something to rank
\* by, a distance a place to measure from, and the caller's own sets a caller.  Listings
\* named by id are the exception the code makes: asked for as trending, they are answered
\* by the top list (trendingWantsFilteredBrowse does not look at ids).
AnsweredAsAsked ==
  asked.out.answered =>
    LET req == asked.req  out == asked.out IN
    /\ req.has \cap {"mine", "favorited"} # {} \/ out.sort = "recommended" => "viewer" \in req.has
    /\ out.sort = "trending" => req.has \cap {"mine", "favorited", "query", "narrows", "radius"} = {}
                               /\ ~out.near
    /\ out.sort = "relevance" => out.terms
    /\ out.sort = "distance" \/ "radius" \in req.has => out.near
    /\ "query" \in req.has => out.terms \/ out.sort = "recommended"
    /\ "similar" \in req.has => out.exclude

=============================================================================
