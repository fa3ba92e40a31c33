-------------------------------- MODULE Cart --------------------------------
(* One account's cart: adding tops a row up, an update sets its quantity from *)
(* a row read before, a removal names the row, and a checkout takes the rows  *)
(* of what it sold.  Requests overlap at single statements.                   *)
EXTENDS Integers, FiniteSets

CONSTANTS CartVariants, CartCallers, Quantities,
          MaxCartRows,  \* bound: rows ever inserted
          MaxQuantity   \* bound: units of one row

\* A quantity asked for is positive.
ASSUME CartAssumption ==
  MaxCartRows \in Nat /\ MaxQuantity \in Nat /\ Quantities \subseteq 1 .. MaxQuantity

VARIABLES cart,      \* cart_item: for each variant its row, or NoCartRow
          cartIds,   \* the last id given to a row
          offered,   \* the variants whose listing is for sale
          shopping   \* the requests in flight

cartVars == <<cart, cartIds, offered, shopping>>

NoCartRow == [id |-> 0, quantity |-> 0]
NotShopping == [op |-> "idle", variant |-> {}, id |-> 0, quantity |-> 0]

CartInit ==
  /\ cart = [v \in CartVariants |-> NoCartRow]
  /\ cartIds = 0
  /\ offered = CartVariants
  /\ shopping = [c \in CartCallers |-> NotShopping]

InCart(v) == cart[v] # NoCartRow

Shop(c, s) == shopping' = [shopping EXCEPT ![c] = s]

-----------------------------------------------------------------------------
(* AddCartItem: the listing is resolved and found for sale and another's,     *)
(* then the row is written.                                                   *)
variantOf(c, v, q) ==
  /\ shopping[c] = NotShopping
  /\ v \in offered
  /\ Shop(c, [op |-> "add", variant |-> {v}, id |-> 0, quantity |-> q])
  /\ UNCHANGED <<cart, cartIds, offered>>

\* An add that sets what the request asked for.  Mutant of ToppedUp.
SetOutright(row, q) == q

\* ON CONFLICT DO UPDATE SET quantity = cart_item.quantity + @quantity
ToppedUp(row, q) == row.quantity + q

UpsertCartItem(c) ==
  /\ shopping[c].op = "add"
  /\ \E v \in shopping[c].variant :
       LET q == shopping[c].quantity IN
       /\ cart[v].quantity + q <= MaxQuantity
       /\ InCart(v) \/ cartIds < MaxCartRows
       /\ cartIds' = IF InCart(v) THEN cartIds ELSE cartIds + 1
       /\ cart' = [cart EXCEPT ![v] =
                     IF InCart(v) THEN [cart[v] EXCEPT !.quantity = ToppedUp(cart[v], q)]
                     ELSE [id |-> cartIds', quantity |-> q]]
  /\ Shop(c, NotShopping)
  /\ UNCHANGED offered

(* UpdateCartItem: the row by its id, then its quantity by the same id.       *)
FindCartItem(c, v, q) ==
  /\ shopping[c] = NotShopping
  /\ InCart(v)
  /\ Shop(c, [op |-> "update", variant |-> {v}, id |-> cart[v].id, quantity |-> q])
  /\ UNCHANGED <<cart, cartIds, offered>>

\* A quantity written to whichever row the variant has now.  Mutant of SameCartRow.
SameVariant(c, v) == TRUE

SameCartRow(c, v) == cart[v].id = shopping[c].id

\* No row with that id any more: ErrCartItemNotFound.
SaveCartItem(c) ==
  /\ shopping[c].op = "update"
  /\ \E v \in shopping[c].variant :
       IF SameCartRow(c, v)
       THEN cart' = [cart EXCEPT ![v].quantity = shopping[c].quantity]
       ELSE UNCHANGED cart
  /\ Shop(c, NotShopping)
  /\ UNCHANGED <<cartIds, offered>>

WithoutRows(S) == [v \in CartVariants |-> IF v \in S THEN NoCartRow ELSE cart[v]]

\* DeleteCartItem, one statement.
DeleteCartItem(v) ==
  /\ InCart(v)
  /\ cart' = WithoutRows({v})
  /\ UNCHANGED <<cartIds, offered, shopping>>

(* A checkout, of a draft or of an agreed offer, writes its lines and takes   *)
(* their variants out of the cart, best effort.                               *)
CheckoutLines(c, S) ==
  /\ shopping[c] = NotShopping
  /\ S # {}
  /\ Shop(c, [op |-> "checkout", variant |-> S, id |-> 0, quantity |-> 0])
  /\ UNCHANGED <<cart, cartIds, offered>>

DeleteCartItemsByVariants(c) ==
  /\ shopping[c].op = "checkout"
  /\ cart' = WithoutRows(shopping[c].variant) \/ UNCHANGED cart
  /\ Shop(c, NotShopping)
  /\ UNCHANGED <<cartIds, offered>>

\* The listing is taken down or published again: its rows stay.
ToggleOffered(v) ==
  /\ offered' = IF v \in offered THEN offered \ {v} ELSE offered \cup {v}
  /\ UNCHANGED <<cart, cartIds, shopping>>

CartNext ==
  \/ \E c \in CartCallers :
       \/ \E v \in CartVariants, q \in Quantities : variantOf(c, v, q) \/ FindCartItem(c, v, q)
       \/ \E S \in SUBSET CartVariants : CheckoutLines(c, S)
       \/ UpsertCartItem(c) \/ SaveCartItem(c) \/ DeleteCartItemsByVariants(c)
  \/ \E v \in CartVariants : DeleteCartItem(v) \/ ToggleOffered(v)

CartSpec == CartInit /\ [][CartNext]_cartVars

-----------------------------------------------------------------------------

\* Every variable holds a value of its kind.
CartTypeOK ==
  /\ cart \in [CartVariants -> [id : 0 .. MaxCartRows, quantity : 0 .. MaxQuantity]]
  /\ cartIds \in 0 .. MaxCartRows
  /\ offered \subseteq CartVariants
  /\ shopping \in [CartCallers ->
       [op : {"idle", "add", "update", "checkout"}, variant : SUBSET CartVariants,
        id : 0 .. MaxCartRows, quantity : 0 .. MaxQuantity]]

\* "Adding twice means wanting more": what was added is only ever lessened by a
\* quantity set for that very row, or taken with the row; and a row sold or removed
\* is not brought back by a quantity still on its way to it, nor does that quantity
\* land on the row that took its place.
CartRowsKeepTheirOwn ==
  \A v \in CartVariants :
    /\ InCart(v) /\ InCart(v)' =>
         /\ cart'[v].id = cart[v].id
         /\ cart'[v].quantity < cart[v].quantity => \E c \in CartCallers :
              shopping[c].op = "update" /\ shopping[c].id = cart[v].id
                /\ shopping[c].quantity = cart'[v].quantity
    /\ ~InCart(v) /\ InCart(v)' => \E c \in CartCallers :
         shopping[c].op = "add" /\ v \in shopping[c].variant
=============================================================================
