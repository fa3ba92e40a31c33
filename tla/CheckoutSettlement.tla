------------------------- MODULE CheckoutSettlement -------------------------
(***************************************************************************)
(* From a frozen draft to a sale: Checkout claims the draft, reserves the  *)
(* units, opens a payment session and writes the lines; a line is dropped  *)
(* by a party, by a cancelled session or by the expiry sweep; the paid     *)
(* session becomes an order, its escrow is held and its units are sold     *)
(* (order/service_draft.go, service_order.go, service_lifecycle.go,        *)
(* adapter/postgres/draft.go and order.go, catalog/adapter/postgres        *)
(* /stock.go).                                                             *)
(*                                                                         *)
(* Nothing but the database serialises the handlers.  Each step is one     *)
(* query, one guarded UPDATE or transaction, or one call of finance or the *)
(* catalog.  A line is one unit of one variant and costs 1.                *)
(***************************************************************************)
EXTENDS Integers, Sequences, FiniteSets

CONSTANTS
  Drafts,       \* the drafts of this instance
  Lines,        \* pairs <<draft, variant>>: what a draft's checkout may ask for
  Quantity,     \* the units of each variant
  Callers,      \* concurrent requests, event deliveries, durable runs and sweeps
  MaxFailures,  \* how many calls fail, or handlers die
  NoDraft

ASSUME CheckoutAssumption ==
  /\ IsFiniteSet(Lines)
  /\ \A l \in Lines : l = <<l[1], l[2]>> /\ l[1] \in Drafts
  /\ Quantity \in Nat /\ MaxFailures \in Nat
  /\ NoDraft \notin Drafts

VARIABLES
  draft,      \* each draft: not there, open or closed (cancelled_at)
  age,        \* what of its life has passed: nothing, the draft's or the checkout's window
  session,    \* finance's payment session of the draft
  opened,     \* how many sessions were opened for it
  item,       \* the item rows: live or cancelled, and the order that covers each
  orders,     \* the order rows in the order of their identifiers: their drafts
  held,       \* what the movement keyed order:N:hold put in escrow, 0 before it
  committed,  \* the stock movements keyed order:N:item:M:commit that are recorded
  placed,     \* the orders announced as placed
  stock,      \* the counters of each variant
  proc,       \* the running handlers
  failures

checkoutVars == <<draft, age, session, opened, item, orders, held, committed, placed, stock, proc, failures>>

Variants   == {l[2] : l \in Lines}
LinesOf(d) == {l \in Lines : l[1] = d}
OrderIDs   == 1 .. Len(orders)

Item   == [status : {"none", "live", "cancelled"}, order : Nat]
NoItem == [status |-> "none", order |-> 0]

\* op is the handler, at its next step, d its draft or session, lines its copy
\* of the lines it is about, todo those it still has to deal with, line the one
\* it is dealing with and n the order it settles.
Idle == [op |-> "none", at |-> "idle", d |-> NoDraft, lines |-> {}, todo |-> {}, line |-> {}, n |-> 0]

\* Every variable holds a value of its kind.
CheckoutTypeOK ==
  /\ draft \in [Drafts -> {"none", "open", "closed"}]
  /\ age \in [Drafts -> {"fresh", "expired", "late"}]
  /\ session \in [Drafts -> {"none", "pending", "paid", "cancelled"}]
  /\ opened \in [Drafts -> Nat]
  /\ item \in [Lines -> Item]
  /\ orders \in Seq(Drafts)
  /\ held \in [OrderIDs -> Nat]
  /\ committed \subseteq OrderIDs \X Lines
  /\ placed \subseteq OrderIDs
  /\ stock \in [Variants -> [reserved : Nat, sold : Nat]]
  /\ proc \in [Callers -> [op : {"none", "checkout", "cancel", "abandon", "expire", "settle"},
                         at : {"idle", "claim", "reserve", "open", "insert", "undo", "next",
                               "save", "release", "create", "link", "hold", "commit", "placed"},
                         d : Drafts \cup {NoDraft}, lines : SUBSET Lines, todo : SUBSET Lines,
                         line : SUBSET Lines, n : 0 .. Len(orders)]]
  /\ failures \in 0 .. MaxFailures

CheckoutInit ==
  /\ draft = [d \in Drafts |-> "none"]
  /\ age = [d \in Drafts |-> "fresh"]
  /\ session = [d \in Drafts |-> "none"]
  /\ opened = [d \in Drafts |-> 0]
  /\ item = [l \in Lines |-> NoItem]
  /\ orders = <<>> /\ held = <<>> /\ committed = {} /\ placed = {}
  /\ stock = [v \in Variants |-> [reserved |-> 0, sold |-> 0]]
  /\ proc = [p \in Callers |-> Idle]
  /\ failures = 0

-----------------------------------------------------------------------------
(* The guarded statements *)

\* Draft.Live, what a checkout reads before it claims.
DraftLive(d) == draft[d] = "open" /\ age[d] = "fresh"

\* Mutant: the UPDATE without its guard.
SaveDraftAnyway(d) == draft[d] # "none"

\* SaveDraft lands where cancelled_at IS NULL.
SaveDraftLands(d) == draft[d] = "open"

Live(l) == item[l].status = "live"

\* A line Item.Cancel lets go, and UnpaidItems lists.
Cancellable(l) == Live(l) /\ item[l].order = 0

\* Mutant: the UPDATE trusts the copy's order_id.
SaveItemAnyway(l) == Live(l)

\* SaveItem lands where order_id IS NULL AND cancelled_at IS NULL.
SaveItemLands(l) == Cancellable(l)

\* Mutant: units that were sold are offered again.
ReserveForgetsSold(v) == stock[v].reserved + 1 <= Quantity

\* ReserveStock's WHERE clause, for one unit.
ReserveStockLands(v) == stock[v].reserved + stock[v].sold + 1 <= Quantity

\* Mutant: the counter is taken down without looking at it.
ReservedAnyway(v) == TRUE

\* ReleaseStock's and CommitStock's.
ReservedAtLeastOne(v) == stock[v].reserved >= 1

\* linkItems: only a live line that no order covers.
Linked(copy, n) == [l \in Lines |-> IF l \in copy /\ Cancellable(l) THEN [item[l] EXCEPT !.order = n]
                                    ELSE item[l]]

OrdersOf(d) == {n \in OrderIDs : orders[n] = d}

\* Mutant: no unique index on the origin.
OriginNeverTaken(d) == FALSE

\* The unique origin the INSERT loses on.
OriginTaken(d) == OrdersOf(d) # {}

-----------------------------------------------------------------------------
(* Steps of a handler *)

At(p, op, step) == proc[p].op = op /\ proc[p].at = step

Begin(p, h) == proc[p] = Idle /\ proc' = [proc EXCEPT ![p] = h]

Goto(p, step) == proc' = [proc EXCEPT ![p].at = step]

Done(p) == proc' = [proc EXCEPT ![p] = Idle]

failOnce == failures < MaxFailures /\ failures' = failures + 1

saleUnchanged    == UNCHANGED <<orders, held, committed, placed>>
sessionUnchanged == UNCHANGED <<session, opened>>
draftUnchanged   == UNCHANGED <<draft, age>>

CreateDraft(d) ==
  /\ draft[d] = "none"
  /\ draft' = [draft EXCEPT ![d] = "open"]
  /\ UNCHANGED <<age, session, opened, item, orders, held, committed, placed, stock, proc, failures>>

-----------------------------------------------------------------------------
(* Closing a draft: CancelDraft and ExpireDrafts *)

\* CancelDraft and the sweep both read an open draft and write under the guard
\* that it still is; only the sweep looks at its window.
CloseDraft(d) ==
  /\ SaveDraftLands(d)
  /\ draft' = [draft EXCEPT ![d] = "closed"]
  /\ sessionUnchanged /\ saleUnchanged /\ UNCHANGED <<age, item, stock, proc, failures>>

CancelDraft(d) == CloseDraft(d)

ExpireDrafts(d) == age[d] # "fresh" /\ CloseDraft(d)

-----------------------------------------------------------------------------
(* Checkout *)

\* Reads the draft, and that it is live.
Checkout(p, d, lines) ==
  /\ DraftLive(d)
  /\ lines \subseteq LinesOf(d) /\ lines # {}
  /\ Begin(p, [Idle EXCEPT !.op = "checkout", !.at = "claim", !.d = d, !.lines = lines, !.todo = lines])
  /\ draftUnchanged /\ sessionUnchanged /\ saleUnchanged /\ UNCHANGED <<item, stock, failures>>

\* The write is the claim: the loser is refused.
claimDraft(p) ==
  /\ At(p, "checkout", "claim")
  /\ IF SaveDraftLands(proc[p].d)
     THEN draft' = [draft EXCEPT ![proc[p].d] = "closed"] /\ Goto(p, "reserve")
     ELSE draft' = draft /\ Done(p)
  /\ sessionUnchanged /\ saleUnchanged /\ UNCHANGED <<age, item, stock, failures>>

\* The units this checkout has taken and not yet put behind a line.
Taken(p) ==
  IF proc[p].op # "checkout" THEN {}
  ELSE CASE proc[p].at = "reserve" -> proc[p].lines \ proc[p].todo
         [] proc[p].at \in {"open", "insert"} -> proc[p].lines
         [] proc[p].at = "undo" -> proc[p].todo
         [] OTHER -> {}

\* release(): gives back what was reserved, or has nothing to give.
Undo(p, units) ==
  proc' = [proc EXCEPT ![p] = IF units = {} THEN Idle ELSE [@ EXCEPT !.at = "undo", !.todo = units]]

ReserveStock(p) ==
  /\ At(p, "checkout", "reserve")
  /\ \E l \in proc[p].todo :
       IF ReserveStockLands(l[2])
       THEN /\ stock' = [stock EXCEPT ![l[2]].reserved = @ + 1]
            /\ proc' = [proc EXCEPT ![p].todo = @ \ {l},
                                    ![p].at = IF proc[p].todo = {l} THEN "open" ELSE @]
       ELSE stock' = stock /\ Undo(p, Taken(p))
  /\ draftUnchanged /\ sessionUnchanged /\ saleUnchanged /\ UNCHANGED <<item, failures>>

CallOpenCheckout(p) ==
  /\ At(p, "checkout", "open")
  /\ session' = [session EXCEPT ![proc[p].d] = "pending"]
  /\ opened' = [opened EXCEPT ![proc[p].d] = @ + 1]
  /\ Goto(p, "insert")
  /\ draftUnchanged /\ saleUnchanged /\ UNCHANGED <<item, stock, failures>>

\* All lines in one transaction.
InsertItems(p) ==
  /\ At(p, "checkout", "insert")
  /\ item' = [l \in Lines |-> IF l \in proc[p].lines THEN [status |-> "live", order |-> 0] ELSE item[l]]
  /\ Done(p)
  /\ draftUnchanged /\ sessionUnchanged /\ saleUnchanged /\ UNCHANGED <<stock, failures>>

\* A reservation, the quote, the session or the lines failed with an error.
checkoutFails(p) ==
  /\ proc[p].op = "checkout" /\ proc[p].at \in {"reserve", "open", "insert"}
  /\ failOnce
  /\ Undo(p, Taken(p))
  /\ draftUnchanged /\ sessionUnchanged /\ saleUnchanged /\ UNCHANGED <<item, stock>>

\* One ReleaseStock of release(); its error is logged.
undoReservation(p) ==
  /\ At(p, "checkout", "undo")
  /\ \E l \in proc[p].todo :
       /\ Undo(p, proc[p].todo \ {l})
       /\ \/ /\ stock' = [stock EXCEPT ![l[2]].reserved = IF ReservedAtLeastOne(l[2]) THEN @ - 1 ELSE @]
             /\ failures' = failures
          \/ stock' = stock /\ failOnce
  /\ draftUnchanged /\ sessionUnchanged /\ saleUnchanged /\ UNCHANGED item

-----------------------------------------------------------------------------
(* Dropping lines: CancelItem, AbandonCheckout and ExpireCheckouts *)

\* requireUnpaid: asks finance; a paid session's line stays.
Unpaid(l) == session[l[1]] # "paid"

\* A party drops a line that is open and unpaid as far as it has read.
CancelItem(p, l) ==
  /\ Cancellable(l) /\ Unpaid(l)
  /\ Begin(p, [Idle EXCEPT !.op = "cancel", !.at = "save", !.line = {l}])
  /\ draftUnchanged /\ sessionUnchanged /\ saleUnchanged /\ UNCHANGED <<item, stock, failures>>

\* The session's cancellation event, or the durable timer at the end of the
\* window: the lines that are live and in no order are dropped one by one.
AbandonCheckout(p, d) ==
  /\ session[d] = "cancelled" \/ age[d] = "late"
  /\ LET open == {l \in LinesOf(d) : Cancellable(l)} IN
       open # {} /\ Begin(p, [Idle EXCEPT !.op = "abandon", !.at = "next", !.todo = open])
  /\ draftUnchanged /\ sessionUnchanged /\ saleUnchanged /\ UNCHANGED <<item, stock, failures>>

\* The sweep's list; it works on the copies it has read.  One goroutine sweeps.
ExpireCheckouts(p) ==
  /\ \A q \in Callers : proc[q].op # "expire"
  /\ LET due == {l \in Lines : Cancellable(l) /\ age[l[1]] = "late"} IN
       due # {} /\ Begin(p, [Idle EXCEPT !.op = "expire", !.at = "next", !.todo = due])
  /\ draftUnchanged /\ sessionUnchanged /\ saleUnchanged /\ UNCHANGED <<item, stock, failures>>

\* The handler is through with its line.
NextLine(p) ==
  proc' = [proc EXCEPT ![p] = IF proc[p].todo = {} THEN Idle ELSE [@ EXCEPT !.at = "next", !.line = {}]]

\* Takes the next line, the sweep in the copy it has and CancelItem in a fresh
\* one, and asks whether it is paid.  A session that cannot be read counts as paid.
cancelLine(p) ==
  /\ proc[p].at = "next"
  /\ \E l \in proc[p].todo :
       LET rest == proc[p].todo \ {l}
           pass == (proc[p].op = "expire" \/ Cancellable(l)) /\ Unpaid(l)
           skip == proc' = [proc EXCEPT ![p] = IF rest = {} THEN Idle ELSE [@ EXCEPT !.todo = rest]]
       IN  \/ /\ pass /\ failures' = failures
              /\ proc' = [proc EXCEPT ![p].at = "save", ![p].line = {l}, ![p].todo = rest]
           \/ ~pass /\ skip /\ failures' = failures
           \/ pass /\ skip /\ failOnce
  /\ draftUnchanged /\ sessionUnchanged /\ saleUnchanged /\ UNCHANGED <<item, stock>>

SaveItem(p) ==
  /\ proc[p].at = "save"
  /\ \E l \in proc[p].line :
       IF SaveItemLands(l)
       THEN item' = [item EXCEPT ![l].status = "cancelled"] /\ Goto(p, "release")
       ELSE item' = item /\ NextLine(p)
  /\ draftUnchanged /\ sessionUnchanged /\ saleUnchanged /\ UNCHANGED <<stock, failures>>

\* Its error is logged and the line stays cancelled.
ReleaseStock(p) ==
  /\ proc[p].at = "release"
  /\ \E l \in proc[p].line :
       \/ /\ stock' = [stock EXCEPT ![l[2]].reserved = IF ReservedAtLeastOne(l[2]) THEN @ - 1 ELSE @]
          /\ failures' = failures
       \/ stock' = stock /\ failOnce
  /\ NextLine(p)
  /\ draftUnchanged /\ sessionUnchanged /\ saleUnchanged /\ UNCHANGED item

-----------------------------------------------------------------------------
(* SettlePaidSession *)

\* Any delivery of SessionPaid, the first or a later one, or the durable run:
\* reads the lines that are live, and whether the draft has become an order.
SettlePaidSession(p, d) ==
  /\ session[d] = "paid"
  /\ LET paid == {l \in LinesOf(d) : Live(l)}
         h    == [Idle EXCEPT !.op = "settle", !.d = d, !.lines = paid, !.todo = paid]
     IN  /\ paid # {}
         /\ \/ OrdersOf(d) = {} /\ Begin(p, [h EXCEPT !.at = "create"])
            \/ \E n \in OrdersOf(d) : Begin(p, [h EXCEPT !.at = "link", !.n = n])
  /\ draftUnchanged /\ sessionUnchanged /\ saleUnchanged /\ UNCHANGED <<item, stock, failures>>

\* The order and its lines in one transaction; whoever loses on the origin
\* carries on with the winner's order.
CreateOrder(p) ==
  /\ At(p, "settle", "create")
  /\ IF OriginTaken(proc[p].d)
     THEN /\ \E n \in OrdersOf(proc[p].d) : proc' = [proc EXCEPT ![p].at = "link", ![p].n = n]
          /\ UNCHANGED <<item, orders, held>>
     ELSE /\ orders' = Append(orders, proc[p].d) /\ held' = Append(held, 0)
          /\ item' = Linked(proc[p].lines, Len(orders) + 1)
          /\ proc' = [proc EXCEPT ![p].at = "link", ![p].n = Len(orders) + 1]
  /\ draftUnchanged /\ sessionUnchanged /\ UNCHANGED <<committed, placed, stock, failures>>

LinkItems(p) ==
  /\ At(p, "settle", "link")
  /\ item' = Linked(proc[p].lines, proc[p].n)
  /\ Goto(p, "hold")
  /\ draftUnchanged /\ sessionUnchanged /\ saleUnchanged /\ UNCHANGED <<stock, failures>>

\* Mutant: the total of the last line instead of the sum.
LastLineTotal(copy) == 1

\* What the copied lines cost.
EscrowTotal(copy) == Cardinality(copy)

\* Keyed on the order: a hold that is posted is left alone.
HoldEscrow(p) ==
  /\ At(p, "settle", "hold")
  /\ held' = [held EXCEPT ![proc[p].n] = IF @ = 0 THEN EscrowTotal(proc[p].lines) ELSE @]
  /\ Goto(p, "commit")
  /\ draftUnchanged /\ sessionUnchanged /\ UNCHANGED <<item, orders, committed, placed, stock, failures>>

\* recordedMove finds its key.
Recorded(n, l) == <<n, l>> \in committed

\* Mutant: a refused commit is logged instead of returned.
CommitRefusalLogged(p, l) ==
  proc' = [proc EXCEPT ![p].todo = @ \ {l}, ![p].at = IF proc[p].todo = {l} THEN "placed" ELSE @]

\* The error is returned, the delivery fails and comes again.
CommitRefused(p, l) == Done(p)

\* The next line's reservation becomes a sale, once.
CommitStock(p) ==
  /\ At(p, "settle", "commit")
  /\ \E l \in proc[p].todo :
       LET advance == proc' = [proc EXCEPT ![p].todo = @ \ {l},
                                           ![p].at = IF proc[p].todo = {l} THEN "placed" ELSE @] IN
       \/ Recorded(proc[p].n, l) /\ advance /\ UNCHANGED <<stock, committed>>
       \/ /\ ~Recorded(proc[p].n, l) /\ ReservedAtLeastOne(l[2])
          /\ stock' = [stock EXCEPT ![l[2]] = [reserved |-> @.reserved - 1, sold |-> @.sold + 1]]
          /\ committed' = committed \cup {<<proc[p].n, l>>}
          /\ advance
       \/ /\ ~Recorded(proc[p].n, l) /\ ~ReservedAtLeastOne(l[2])
          /\ CommitRefused(p, l) /\ UNCHANGED <<stock, committed>>
  /\ draftUnchanged /\ sessionUnchanged /\ UNCHANGED <<item, orders, held, placed, failures>>

publishPlaced(p) ==
  /\ At(p, "settle", "placed")
  /\ placed' = placed \cup {proc[p].n}
  /\ Done(p)
  /\ draftUnchanged /\ sessionUnchanged /\ UNCHANGED <<item, orders, held, committed, stock, failures>>

-----------------------------------------------------------------------------
(* The environment: finance, the clock and failures *)

\* Finance settles a session once (PaymentSession!SettledSessionFinal).
PaySession(d) ==
  /\ session[d] = "pending"
  /\ session' = [session EXCEPT ![d] = "paid"]
  /\ draftUnchanged /\ saleUnchanged /\ UNCHANGED <<opened, item, stock, proc, failures>>

CallCancelSession(d) ==
  /\ session[d] = "pending"
  /\ session' = [session EXCEPT ![d] = "cancelled"]
  /\ draftUnchanged /\ saleUnchanged /\ UNCHANGED <<opened, item, stock, proc, failures>>

\* The window of an open draft passes, or that of a checkout with an open line:
\* nobody looks at either time otherwise.
Tick(d) ==
  /\ \/ age[d] = "fresh" /\ draft[d] = "open" /\ age' = [age EXCEPT ![d] = "expired"]
     \/ age[d] # "late" /\ (\E l \in LinesOf(d) : Cancellable(l)) /\ age' = [age EXCEPT ![d] = "late"]
  /\ sessionUnchanged /\ saleUnchanged /\ UNCHANGED <<draft, item, stock, proc, failures>>

\* A handler dies, or gives up on an error that undoes nothing.
Fail(p) ==
  /\ proc[p] # Idle
  /\ failOnce
  /\ Done(p)
  /\ draftUnchanged /\ sessionUnchanged /\ saleUnchanged /\ UNCHANGED <<item, stock>>

-----------------------------------------------------------------------------

handlerStep(p) ==
  \/ claimDraft(p) \/ ReserveStock(p) \/ CallOpenCheckout(p) \/ InsertItems(p)
  \/ checkoutFails(p) \/ undoReservation(p)
  \/ cancelLine(p) \/ SaveItem(p) \/ ReleaseStock(p)
  \/ CreateOrder(p) \/ LinkItems(p) \/ HoldEscrow(p) \/ CommitStock(p)
  \/ publishPlaced(p)

CheckoutNext ==
  \/ \E d \in Drafts : CreateDraft(d) \/ PaySession(d) \/ CallCancelSession(d) \/ Tick(d)
                     \/ CancelDraft(d) \/ ExpireDrafts(d)
  \/ \E p \in Callers, d \in Drafts :
       \/ AbandonCheckout(p, d) \/ SettlePaidSession(p, d)
       \/ \E lines \in SUBSET LinesOf(d) : Checkout(p, d, lines)
  \/ \E p \in Callers, l \in Lines : CancelItem(p, l)
  \/ \E p \in Callers : ExpireCheckouts(p) \/ handlerStep(p) \/ Fail(p)

CheckoutSpec == CheckoutInit /\ [][CheckoutNext]_checkoutVars

-----------------------------------------------------------------------------
(* Properties *)

\* The lines a variant owes a unit to: the live ones and those a running
\* checkout has reserved for.
Claims(v) == {l \in Lines : l[2] = v /\ (Live(l) \/ \E p \in Callers : l \in Taken(p))}

\* Two buyers never check out the last unit: every live line and every
\* reservation of a running checkout has a unit of its own behind it, reserved
\* or sold, and there are no more units than the seller has.  Releases are not
\* keyed (stock.go, ReleaseStock), so each reservation must be given back by one
\* handler only, whatever the cancellations, expiries and settlements that race
\* over its line.
UnitsBacked ==
  \A v \in Variants :
    /\ Cardinality(Claims(v)) <= stock[v].reserved + stock[v].sold
    /\ stock[v].reserved + stock[v].sold <= Quantity

\* One draft is paid for through one session at most: of concurrent checkouts,
\* cancellations and expiries of one draft only one gets through
\* (service_draft.go, Checkout: "the write is the claim").
SpentOnce == \A d \in Drafts : opened[d] <= 1

\* However often and from however many handlers a paid session is settled, it
\* becomes one order (order.go, CreateOrder: the unique origin).
OneOrderPerSale == \A m, n \in OrderIDs : orders[m] = orders[n] => m = n

\* The escrow behind an order covers every line the order has, although it is
\* the sum of a copy that may be stale by the time the lines are linked
\* (service_lifecycle.go, finishSettlement).
EscrowCoversLines ==
  \A n \in OrderIDs :
    held[n] # 0 => held[n] >= Cardinality({l \in Lines : item[l].order = n})

\* An order that was announced is complete: its escrow is held and the units of
\* all its lines are sold, whichever of several partial attempts came first
\* (service_lifecycle.go, SettlePaidSession: "Resumable, not merely idempotent").
PlacedIsWhole ==
  \A n \in placed :
    /\ held[n] # 0
    /\ \A l \in Lines : item[l].order = n => <<n, l>> \in committed

\* A line goes one way: once an order covers it, it is neither cancelled nor
\* moved to another order, and once cancelled no order takes it
\* (order.go, SaveItem and linkItems).
LineOneWay ==
  [][\A l \in Lines :
       /\ item[l].order # 0 => item'[l] = item[l]
       /\ item[l].status = "cancelled" => item'[l] = item[l]]_checkoutVars

\* The lines a unit stands behind, and those of an order.
Promised == {l \in Lines : Live(l) \/ \E p \in Callers : l \in Taken(p)}
Sold     == {l \in Lines : item[l].order # 0}

AtomicStock == INSTANCE UnitPromises WITH promised <- Promised, sold <- Sold

\* The counters and the rows, which no transaction writes together, keep the promise
\* of an atomic stock: a line takes a unit while one is left, and gives it up only
\* before it is sold (stock.go; service_draft.go, "reserve"; order.go, SaveItem).
UnitsArePromised == AtomicStock!Spec

\* No unit is sold twice, and a draft is paid for once and becomes one whole
\* order, whatever checkouts, cancellations, expiries and settlements race over
\* it and wherever one of them fails.
SaleSound ==
  /\ CheckoutTypeOK /\ UnitsBacked
  /\ SpentOnce /\ OneOrderPerSale /\ EscrowCoversLines /\ PlacedIsWhole
=============================================================================
