---------------------------- MODULE MarketProofs ----------------------------
(***************************************************************************)
(* What is offered, and what becomes of it: the properties of the cart,    *)
(* the categories and the other parts of the market on the platform, for   *)
(* any rows, callers and bounds.                                           *)
(***************************************************************************)
EXTENDS MCPlatform, FiniteSetTheorems, WellFoundedInduction, TLAPS

\* A step of the platform is a step of the part that runs, and the part stays.
LEMMA MarketRuns ==
  ASSUME [Next]_platformVars
  PROVE  /\ part' = part
         /\ part = "cart" => [CartNext]_cartVars
         /\ part = "categories" => [TreeNext]_treeVars
         /\ part = "negotiation" => [NegotiationNext]_negotiationVars
         /\ part \in {"banks", "taxes"} => [PayeeNext]_payeeVars
         /\ part = "listing" => [ListingNext]_listingVars
         /\ part = "interests" => [InterestNext]_interestVars
         /\ part \in {"feed", "filter"} => [FeedNext \/ FilterNext]_feedReadVars
BY DEF PayeeNext, Next, platformVars

-----------------------------------------------------------------------------
(* The cart *)

CartRow == [id : 0 .. MaxCartRows, quantity : 0 .. MaxQuantity]
Shopping == [op : {"idle", "add", "update", "checkout"}, variant : SUBSET CartVariants,
             id : 0 .. MaxCartRows, quantity : 0 .. MaxQuantity]

\* Ids start at one, so an update that waits names a row that once was.
CartInv ==
  /\ CartTypeOK
  /\ \A v \in CartVariants : InCart(v) => cart[v].id # 0
  /\ \A c \in CartCallers : shopping[c].op = "update" => shopping[c].id # 0

\* The kinds of the cart's variables, and of what is no row and no request.
LEMMA CartTypes ==
  /\ CartTypeOK <=> /\ cart \in [CartVariants -> CartRow] /\ cartIds \in 0 .. MaxCartRows
                    /\ offered \subseteq CartVariants /\ shopping \in [CartCallers -> Shopping]
  /\ CartTypeOK' <=> /\ cart' \in [CartVariants -> CartRow] /\ cartIds' \in 0 .. MaxCartRows
                     /\ offered' \subseteq CartVariants /\ shopping' \in [CartCallers -> Shopping]
  /\ NoCartRow \in CartRow /\ NoCartRow.id = 0
  /\ NotShopping \in Shopping /\ NotShopping.op = "idle"
  /\ MaxCartRows \in Nat /\ MaxQuantity \in Nat /\ Quantities \subseteq 1 .. MaxQuantity
BY CartAssumption DEF CartTypeOK, CartRow, Shopping, NoCartRow, NotShopping

\* A step of the cart: a row is topped up, set or inserted by a request, or rows go.
Topped(c, v) ==
  /\ shopping[c].op = "add" /\ v \in shopping[c].variant /\ InCart(v)
  /\ \E row \in CartRow : /\ row.id = cart[v].id /\ row.quantity >= cart[v].quantity
                          /\ cart' = [cart EXCEPT ![v] = row]
Added(c, v) ==
  /\ shopping[c].op = "add" /\ v \in shopping[c].variant /\ ~InCart(v)
  /\ \E row \in CartRow : row.id # 0 /\ cart' = [cart EXCEPT ![v] = row]
SetTo(c, v) ==
  /\ shopping[c].op = "update" /\ v \in CartVariants /\ shopping[c].id = cart[v].id
  /\ \E row \in CartRow : /\ row.id = cart[v].id /\ row.quantity = shopping[c].quantity
                          /\ cart' = [cart EXCEPT ![v] = row]
RowsGo == \E S \in SUBSET CartVariants : cart' = WithoutRows(S)
CartStep ==
  \/ UNCHANGED cart
  \/ \E c \in CartCallers, v \in CartVariants : Topped(c, v) \/ Added(c, v) \/ SetTo(c, v)
  \/ RowsGo

\* What a step does to the request it belongs to, and to the rest.
CartMoves ==
  /\ cartIds' \in 0 .. MaxCartRows /\ offered' \subseteq CartVariants
  /\ \/ UNCHANGED shopping
     \/ \E c \in CartCallers, s \in Shopping :
          shopping' = [shopping EXCEPT ![c] = s] /\ (s.op = "update" => s.id # 0)

\* Every action of the cart is one of those steps.
LEMMA CartActions == CartInv /\ [CartNext]_cartVars => CartStep /\ CartMoves
<1> SUFFICES ASSUME CartInv, [CartNext]_cartVars PROVE CartStep /\ CartMoves
  OBVIOUS
<1>1. /\ cart \in [CartVariants -> CartRow] /\ cartIds \in 0 .. MaxCartRows
      /\ offered \subseteq CartVariants /\ shopping \in [CartCallers -> Shopping]
      /\ \A v \in CartVariants : InCart(v) => cart[v].id # 0
  BY CartTypes DEF CartInv
<1>2. CASE UNCHANGED cartVars
  BY <1>1, <1>2 DEF cartVars, CartStep, CartMoves
<1>3. ASSUME NEW c \in CartCallers, NEW s \in Shopping, s.op = "update" => s.id # 0, Shop(c, s),
             UNCHANGED <<cartIds, offered>>
      PROVE  CartMoves
  BY <1>1, <1>3 DEF CartMoves, Shop
<1>4. ASSUME NEW c \in CartCallers, NEW v \in CartVariants, NEW q \in Quantities,
             variantOf(c, v, q) \/ FindCartItem(c, v, q)
      PROVE  CartStep /\ CartMoves
  <2>1. q \in 0 .. MaxQuantity
    BY CartTypes
  <2>2. CASE variantOf(c, v, q)
    <3>1. [op |-> "add", variant |-> {v}, id |-> 0, quantity |-> q] \in Shopping
      BY <2>1, CartTypes DEF Shopping
    <3> QED BY <1>3, <2>2, <3>1 DEF variantOf, CartStep
  <2>3. CASE FindCartItem(c, v, q)
    <3>1. [op |-> "update", variant |-> {v}, id |-> cart[v].id, quantity |-> q] \in Shopping /\ cart[v].id # 0
      BY <1>1, <2>1, <2>3, CartTypes DEF Shopping, CartRow, FindCartItem
    <3> QED BY <1>3, <2>3, <3>1 DEF FindCartItem, CartStep
  <2> QED BY <1>4, <2>2, <2>3
<1>5. ASSUME NEW c \in CartCallers, NEW S \in SUBSET CartVariants, CheckoutLines(c, S)
      PROVE  CartStep /\ CartMoves
  <2>1. [op |-> "checkout", variant |-> S, id |-> 0, quantity |-> 0] \in Shopping
    BY CartTypes DEF Shopping
  <2> QED BY <1>3, <1>5, <2>1 DEF CheckoutLines, CartStep
<1>6. ASSUME NEW c \in CartCallers, UpsertCartItem(c) PROVE CartStep /\ CartMoves
  <2>1. PICK g \in Shopping : g = shopping[c]
    BY <1>1
  <2>2. PICK v \in g.variant :
          /\ cart[v].quantity + g.quantity <= MaxQuantity
          /\ InCart(v) \/ cartIds < MaxCartRows
          /\ cartIds' = IF InCart(v) THEN cartIds ELSE cartIds + 1
          /\ cart' = [cart EXCEPT ![v] =
                        IF InCart(v) THEN [cart[v] EXCEPT !.quantity = ToppedUp(cart[v], g.quantity)]
                        ELSE [id |-> cartIds', quantity |-> g.quantity]]
    BY <1>6, <2>1 DEF UpsertCartItem
  <2>3. v \in CartVariants /\ cart[v] \in CartRow /\ g.quantity \in 0 .. MaxQuantity
    BY <1>1 DEF Shopping
  <2>4. cartIds' \in 0 .. MaxCartRows
    BY <1>1, <2>2, CartTypes
  <2>5. CartMoves
    BY <1>1, <1>6, <2>4, CartTypes DEF UpsertCartItem, CartMoves, Shop
  <2>6. g.op = "add" /\ shopping[c].op = "add" /\ v \in shopping[c].variant
    BY <1>6, <2>1 DEF UpsertCartItem
  <2>7. CASE InCart(v)
    <3> DEFINE row == [cart[v] EXCEPT !.quantity = ToppedUp(cart[v], g.quantity)]
    <3>1. row \in CartRow /\ row.id = cart[v].id /\ row.quantity >= cart[v].quantity
      BY <2>2, <2>3, CartTypes DEF CartRow, ToppedUp
    <3>2. cart' = [cart EXCEPT ![v] = row]
      BY <2>2, <2>7
    <3> HIDE DEF row
    <3>3. Topped(c, v)
      BY <2>6, <2>7, <3>1, <3>2 DEF Topped
    <3> QED BY <2>3, <2>5, <3>3 DEF CartStep
  <2>8. CASE ~InCart(v)
    <3> DEFINE row == [id |-> cartIds + 1, quantity |-> g.quantity]
    <3>1. row \in CartRow /\ row.id # 0
      BY <1>1, <2>2, <2>3, <2>8, CartTypes DEF CartRow
    <3>2. cart' = [cart EXCEPT ![v] = row]
      BY <2>2, <2>8
    <3> HIDE DEF row
    <3>3. Added(c, v)
      BY <2>6, <2>8, <3>1, <3>2 DEF Added
    <3> QED BY <2>3, <2>5, <3>3 DEF CartStep
  <2> QED BY <2>7, <2>8
<1>7. ASSUME NEW c \in CartCallers, SaveCartItem(c) PROVE CartStep /\ CartMoves
  <2>1. PICK g \in Shopping : g = shopping[c]
    BY <1>1
  <2>2. CartMoves
    BY <1>3, <1>7, CartTypes DEF SaveCartItem
  <2>3. PICK v \in g.variant : IF SameCartRow(c, v) THEN cart' = [cart EXCEPT ![v].quantity = g.quantity]
                               ELSE UNCHANGED cart
    BY <1>7, <2>1 DEF SaveCartItem
  <2>4. CASE ~SameCartRow(c, v)
    BY <2>2, <2>3, <2>4 DEF CartStep
  <2>5. CASE SameCartRow(c, v)
    <3> DEFINE row == [cart[v] EXCEPT !.quantity = g.quantity]
    <3>1. v \in CartVariants /\ cart[v] \in CartRow
      BY <1>1 DEF Shopping
    <3>2. row \in CartRow /\ row.id = cart[v].id /\ row.quantity = g.quantity
      BY <3>1 DEF CartRow, Shopping
    <3>3. cart' = [cart EXCEPT ![v] = row]
      BY <1>1, <2>3, <2>5
    <3>4. shopping[c].op = "update" /\ shopping[c].id = cart[v].id /\ shopping[c].quantity = g.quantity
      BY <1>7, <2>1, <2>5 DEF SaveCartItem, SameCartRow
    <3> HIDE DEF row
    <3>5. SetTo(c, v)
      BY <3>1, <3>2, <3>3, <3>4 DEF SetTo
    <3> QED BY <2>2, <3>1, <3>5 DEF CartStep
  <2> QED BY <2>4, <2>5
<1>8. ASSUME NEW c \in CartCallers, DeleteCartItemsByVariants(c) PROVE CartStep /\ CartMoves
  <2>1. shopping[c].variant \in SUBSET CartVariants
    BY <1>1 DEF Shopping
  <2> QED BY <1>3, <1>8, <2>1, CartTypes DEF DeleteCartItemsByVariants, CartStep, RowsGo
<1>9. ASSUME NEW v \in CartVariants, DeleteCartItem(v) \/ ToggleOffered(v) PROVE CartStep /\ CartMoves
  BY <1>1, <1>9 DEF DeleteCartItem, ToggleOffered, CartStep, CartMoves, RowsGo
<1> QED BY <1>2, <1>4, <1>5, <1>6, <1>7, <1>8, <1>9 DEF CartNext

\* Every step of the cart keeps the invariant.
LEMMA CartInvKept == CartInv /\ [CartNext]_cartVars => CartInv'
<1> SUFFICES ASSUME CartInv, CartStep, CartMoves PROVE CartInv'
  BY CartActions
<1>1. /\ cart \in [CartVariants -> CartRow] /\ shopping \in [CartCallers -> Shopping]
      /\ \A v \in CartVariants : cart[v] # NoCartRow => cart[v].id # 0
      /\ \A c \in CartCallers : shopping[c].op = "update" => shopping[c].id # 0
  BY CartTypes DEF CartInv, InCart
<1>2. /\ shopping' \in [CartCallers -> Shopping]
      /\ \A c \in CartCallers : shopping'[c].op = "update" => shopping'[c].id # 0
  BY <1>1 DEF CartMoves
<1>3. ASSUME NEW v \in CartVariants, NEW row \in CartRow, cart' = [cart EXCEPT ![v] = row],
             row.id # 0
      PROVE  /\ cart' \in [CartVariants -> CartRow]
             /\ \A u \in CartVariants : cart'[u] # NoCartRow => cart'[u].id # 0
  BY <1>1, <1>3 DEF InCart
<1>4. /\ cart' \in [CartVariants -> CartRow]
      /\ \A v \in CartVariants : cart'[v] # NoCartRow => cart'[v].id # 0
  <2>1. CASE RowsGo
    BY <1>1, <2>1, CartTypes DEF RowsGo, WithoutRows
  <2>2. ASSUME NEW c \in CartCallers, NEW v \in CartVariants, Topped(c, v) \/ Added(c, v) PROVE <1>4!:
    <3>1. Topped(c, v) => cart[v].id # 0
      BY <1>1 DEF Topped, InCart
    <3>2. PICK row \in CartRow : row.id # 0 /\ cart' = [cart EXCEPT ![v] = row]
      BY <2>2, <3>1 DEF Topped, Added
    <3> QED BY <1>3, <3>2
  <2>3. ASSUME NEW c \in CartCallers, NEW v \in CartVariants, SetTo(c, v) PROVE <1>4!:
    <3>1. cart[v].id # 0
      BY <1>1, <2>3 DEF SetTo
    <3>2. PICK row \in CartRow : row.id # 0 /\ cart' = [cart EXCEPT ![v] = row]
      BY <2>3, <3>1 DEF SetTo
    <3> QED BY <1>3, <3>2
  <2> QED BY <1>1, <2>1, <2>2, <2>3 DEF CartStep
<1> QED BY <1>2, <1>4, CartTypes DEF CartInv, CartMoves, InCart
\* Nothing is in the cart yet.
LEMMA CartInvFirst == CartInit => CartInv
<1> SUFFICES ASSUME CartInit PROVE CartInv
  OBVIOUS
<1>1. CartTypeOK
  BY CartTypes DEF CartInit
<1>2. \A v \in CartVariants : ~InCart(v)
  BY DEF CartInit, InCart
<1>3. \A c \in CartCallers : shopping[c].op = "idle"
  BY CartTypes DEF CartInit
<1> QED BY <1>1, <1>2, <1>3 DEF CartInv

\* A row keeps its id, is lessened by the quantity set for it alone, and comes back
\* only by an add.
LEMMA CartKeeps == CartInv /\ [CartNext]_cartVars => CartRowsKeepTheirOwn
<1> SUFFICES ASSUME CartInv, CartStep, NEW v \in CartVariants
             PROVE  /\ InCart(v) /\ InCart(v)' =>
                         /\ cart'[v].id = cart[v].id
                         /\ cart'[v].quantity < cart[v].quantity => \E c \in CartCallers :
                              shopping[c].op = "update" /\ shopping[c].id = cart[v].id
                                /\ shopping[c].quantity = cart'[v].quantity
                    /\ ~InCart(v) /\ InCart(v)' => \E c \in CartCallers :
                         shopping[c].op = "add" /\ v \in shopping[c].variant
  BY CartActions DEF CartRowsKeepTheirOwn
<1>1. /\ cart \in [CartVariants -> CartRow] /\ cart[v] \in CartRow
      /\ \A c \in CartCallers : shopping[c].op = "update" => shopping[c].id # 0
      /\ NoCartRow.id = 0 /\ MaxQuantity \in Nat
  BY CartTypes DEF CartInv
<1>2. CASE cart'[v] = cart[v]
  BY <1>1, <1>2 DEF InCart, CartRow
<1>3. CASE RowsGo
  BY <1>1, <1>2, <1>3 DEF RowsGo, WithoutRows, InCart
<1>4. ASSUME NEW c \in CartCallers, NEW u \in CartVariants, Topped(c, u), cart'[v] # cart[v]
      PROVE  /\ v = u /\ InCart(v) /\ cart'[v].id = cart[v].id
             /\ ~(cart'[v].quantity < cart[v].quantity)
  <2>1. PICK row \in CartRow : /\ row.id = cart[u].id /\ row.quantity >= cart[u].quantity
                               /\ cart' = [cart EXCEPT ![u] = row]
    BY <1>4 DEF Topped
  <2> QED BY <1>1, <1>4, <2>1 DEF Topped, CartRow
<1>5. ASSUME NEW c \in CartCallers, NEW u \in CartVariants, Added(c, u), cart'[v] # cart[v]
      PROVE  v = u /\ ~InCart(v) /\ shopping[c].op = "add" /\ v \in shopping[c].variant
  BY <1>1, <1>5 DEF Added
<1>6. ASSUME NEW c \in CartCallers, NEW u \in CartVariants, SetTo(c, u), cart'[v] # cart[v]
      PROVE  /\ InCart(v) /\ cart'[v].id = cart[v].id
             /\ shopping[c].op = "update" /\ shopping[c].id = cart[v].id
             /\ shopping[c].quantity = cart'[v].quantity
  <2>1. PICK row \in CartRow : /\ row.id = cart[u].id /\ row.quantity = shopping[c].quantity
                               /\ cart' = [cart EXCEPT ![u] = row]
    BY <1>6 DEF SetTo
  <2>2. v = u
    BY <1>1, <1>6, <2>1
  <2> QED BY <1>1, <1>6, <2>1, <2>2 DEF SetTo, InCart
<1>7. CASE cart'[v] # cart[v] /\ ~RowsGo
  <2>1. PICK c \in CartCallers, u \in CartVariants : Topped(c, u) \/ Added(c, u) \/ SetTo(c, u)
    BY <1>7 DEF CartStep
  <2>2. CASE Topped(c, u)
    BY <1>4, <1>7, <2>2
  <2>3. CASE Added(c, u)
    BY <1>5, <1>7, <2>3
  <2>4. CASE SetTo(c, u)
    BY <1>6, <1>7, <2>4
  <2> QED BY <2>1, <2>2, <2>3, <2>4
<1> QED BY <1>2, <1>3, <1>7

\* Adds that overlap add up, and a quantity set for a row that is gone neither
\* revives it nor lands on the row that took its place.
THEOREM CartsStaySound == Spec => CartHolds
<1>1. Init => (part = "cart" => CartInv)
  BY CartInvFirst DEF Init
<1>2. (part = "cart" => CartInv) /\ [Next]_platformVars => (part = "cart" => CartInv)'
  BY MarketRuns, CartInvKept
<1>3. (part = "cart" => CartInv) => (part = "cart" => CartTypeOK)
  BY DEF CartInv
<1>4. (part = "cart" => CartInv) /\ [Next]_platformVars
      => [part = "cart" => CartRowsKeepTheirOwn]_platformVars
  BY MarketRuns, CartKeeps
<1> QED BY <1>1, <1>2, <1>3, <1>4, PTL DEF Spec, CartHolds
-----------------------------------------------------------------------------
(* The categories *)

Move == [op : {"move", "move_ok", "loop"}, node : Categories, to : Categories \cup {Root}]
Places == Categories \cup {Root, Unborn, Gone}

\* The parent a move names was a node when the tree was read; behind the lock the
\* moved subtree, with what was added to it since, does not hold it.
MoveFits(r) ==
  /\ r.to = Root \/ parent[r.to] # Unborn
  /\ r.op = "move_ok" => \E S \in SUBSET Categories : r.node \in S /\ r.to \notin S /\ WithChildren(parent, S)

Locked(r) == r.op \in {"move_ok", "loop"}

TreeInv ==
  /\ TreeTypeOK /\ NoCategoryLoop
  /\ parent \in [Categories -> Places]
  /\ request \in [Admins -> Move \cup {Quiet}]
  /\ \A a \in Admins : request[a] # Quiet => MoveFits(request[a])
  /\ \A a, b \in Admins : Locked(request[a]) /\ Locked(request[b]) => a = b

\* Nodes that all hang from one another would be a loop.
LEMMA LoopFree ==
  ASSUME NoCategoryLoop, NEW S, S \subseteq Nodes, S # {}
  PROVE  \E n \in S : parent[n] \notin S
BY DEF NoCategoryLoop

\* The walk reaches a set that holds the node and, with a member, its children.
LEMMA WalkReaches ==
  ASSUME parent \in [Categories -> Places], NEW n \in Categories
  PROVE  Below(parent, n) \subseteq Categories /\ n \in Below(parent, n) /\ WithChildren(parent, Below(parent, n))
<1>1. DOMAIN parent = Categories
  OBVIOUS
<1> QED BY <1>1 DEF Below, WithChildren

\* Requests move while the tree rests.
LEMMA RequestMoves ==
  ASSUME TreeInv, UNCHANGED <<parent, holding>>, NEW a \in Admins,
         NEW h \in Move \cup {Quiet}, request' = [request EXCEPT ![a] = h],
         h # Quiet => MoveFits(h),
         h # Quiet /\ Locked(h) => \A b \in Admins : ~Locked(request[b])
  PROVE  TreeInv'
<1>1. ~Locked(Quiet)
  BY DEF Locked, Quiet
<1>2. request' \in [Admins -> Move \cup {Quiet}]
  BY DEF TreeInv
<1>3. \A b \in Admins : request'[b] = IF b = a THEN h ELSE request[b]
  BY DEF TreeInv
<1>4. ASSUME NEW b \in Admins, request'[b] # Quiet PROVE MoveFits(request'[b])
  BY <1>3, <1>4 DEF TreeInv
<1>5. ASSUME NEW b \in Admins, NEW c \in Admins, Locked(request'[b]), Locked(request'[c]) PROVE b = c
  BY <1>1, <1>3, <1>5 DEF TreeInv
<1>6. ASSUME NEW b \in Admins, request'[b] # Quiet PROVE MoveFits(request[b])'
  BY <1>4, <1>6 DEF MoveFits, WithChildren
<1>7. (TreeTypeOK /\ NoCategoryLoop)'
  BY DEF TreeInv, TreeTypeOK, NoCategoryLoop, Nodes
<1> QED BY <1>2, <1>5, <1>6, <1>7 DEF TreeInv, Locked

\* A node is created or deleted: no id comes to be unborn again, and the set a move
\* that waits for its write keeps clear of grows by what was added to it alone.
LEMMA TreeGrows ==
  ASSUME TreeInv, UNCHANGED request, parent' \in [Categories -> Places],
         TreeTypeOK', NoCategoryLoop',
         \A c \in Categories : parent[c] # Unborn => parent'[c] # Unborn,
         \A c \in Categories : parent'[c] = parent[c] \/ parent'[c] \notin Categories \/ parent[c] = Unborn
  PROVE  TreeInv'
<1>1. request \in [Admins -> Move \cup {Quiet}] /\ parent \in [Categories -> Places]
  BY DEF TreeInv
<1>2. ASSUME NEW a \in Admins, request[a] # Quiet PROVE MoveFits(request[a])'
  <2>1. PICK r \in Move : r = request[a] /\ MoveFits(r) /\ r = request'[a]
    BY <1>1, <1>2 DEF TreeInv
  <2>2. r.to = Root \/ parent'[r.to] # Unborn
    BY <2>1 DEF MoveFits, Move
  <2>3. ASSUME r.op = "move_ok"
        PROVE  \E S \in SUBSET Categories : r.node \in S /\ r.to \notin S /\ WithChildren(parent', S)
    <3>1. PICK S \in SUBSET Categories : r.node \in S /\ r.to \notin S /\ WithChildren(parent, S)
      BY <2>1, <2>3 DEF MoveFits
    <3> DEFINE U == S \cup {c \in Categories : parent[c] = Unborn}
    <3>2. U \in SUBSET Categories /\ r.node \in U
      BY <3>1
    <3>3. r.to \notin U
      BY <2>1, <3>1, TreeAssumption DEF MoveFits
    <3>4. ASSUME NEW c \in Categories, parent'[c] \in U PROVE c \in U
      <4>1. CASE parent[c] = Unborn
        BY <4>1
      <4>2. CASE parent[c] # Unborn
        <5>1. parent[c] = parent'[c] /\ parent[c] \in U
          BY <3>2, <3>4, <4>2
        <5>2. parent[c] \in S
          <6>1. CASE parent[parent[c]] = Unborn /\ parent[c] \in Categories
            <7>1. c \in Nodes
              BY <4>2, <6>1, TreeAssumption DEF Nodes
            <7>2. parent[c] \in Nodes
              BY <6>1, <7>1, TreeAssumption DEF TreeInv, TreeTypeOK
            <7> QED BY <6>1, <7>2 DEF Nodes
          <6> QED BY <3>2, <5>1, <6>1
        <5> QED BY <1>1, <3>1, <5>2 DEF WithChildren
      <4> QED BY <4>1, <4>2
    <3> HIDE DEF U
    <3>5. WithChildren(parent', U)
      BY <3>4 DEF WithChildren
    <3> QED BY <3>2, <3>3, <3>5
  <2> QED BY <2>1, <2>2, <2>3 DEF MoveFits, WithChildren
<1>3. request' \in [Admins -> Move \cup {Quiet}]
  BY <1>1
<1> QED BY <1>2, <1>3 DEF TreeInv, Locked
\* What the tree's invariant says of the variables.
LEMMA TreeKinds ==
  ASSUME TreeInv
  PROVE  /\ parent \in [Categories -> Places] /\ request \in [Admins -> Move \cup {Quiet}]
         /\ \A n \in Nodes : n \in Categories /\ parent[n] \in Nodes \cup {Root}
         /\ holding \subseteq Nodes /\ Root \notin Categories /\ Unborn \notin Categories /\ Gone \notin Categories
         /\ Root \notin {Unborn, Gone} /\ Unborn # Gone
BY TreeAssumption DEF TreeInv, TreeTypeOK, Nodes

\* A new node hangs from one that was there, and nothing from it.
LEMMA CreateKeeps == ASSUME TreeInv, NEW n \in Categories, CreateCategory(n) PROVE TreeInv'
<1>1. PICK p \in Nodes \cup {Root} : parent[n] = Unborn /\ parent' = [parent EXCEPT ![n] = p]
                                     /\ UNCHANGED <<holding, request, moves>>
  BY DEF CreateCategory
<1>2. n \notin Nodes /\ p # n /\ p \in Categories \cup {Root} /\ p \in Places
  BY <1>1, TreeKinds DEF Nodes, Places
<1>3. parent' \in [Categories -> Places] /\ parent'[n] = p /\ \A c \in Categories : c # n => parent'[c] = parent[c]
  BY <1>1, <1>2, TreeKinds
<1>4. Nodes' = Nodes \cup {n}
  BY <1>2, <1>3, TreeKinds DEF Nodes
<1>5. TreeTypeOK'
  <2>1. \A m \in Nodes' : parent'[m] \in Nodes' \cup {Root}
    BY <1>2, <1>3, <1>4, TreeKinds
  <2> QED BY <1>1, <1>3, <1>4, <2>1, TreeKinds DEF TreeTypeOK
<1>6. NoCategoryLoop'
  <2> SUFFICES ASSUME NEW T, T \subseteq Nodes', T # {} PROVE \E m \in T : parent'[m] \notin T
    BY DEF NoCategoryLoop
  <2>1. CASE T \subseteq {n}
    BY <1>2, <1>3, <2>1
  <2>2. CASE ~(T \subseteq {n})
    <3>1. PICK m \in T \ {n} : parent[m] \notin T \ {n}
      BY <1>4, <2>2, LoopFree DEF TreeInv
    <3>2. m \in Nodes /\ parent[m] # n /\ parent'[m] = parent[m]
      BY <1>2, <1>3, <1>4, <3>1, TreeKinds
    <3> QED BY <3>1, <3>2
  <2> QED BY <2>1, <2>2
<1> QED BY <1>1, <1>2, <1>3, <1>5, <1>6, TreeGrows, TreeKinds DEF Nodes

\* The children of a deleted node become roots.
LEMMA DeleteKeeps == ASSUME TreeInv, NEW n \in Categories, DeleteCategory(n) PROVE TreeInv'
<1>1. n \in Nodes /\ n \notin holding /\ UNCHANGED <<holding, request, moves>> /\ parent' = PromoteChildren(n)
  BY DEF DeleteCategory
<1>2. \A c \in Categories : parent'[c] = IF c = n THEN Gone ELSE IF parent[c] = n THEN Root ELSE parent[c]
  <2> SUFFICES ASSUME NEW c \in Categories
               PROVE  parent'[c] = IF c = n THEN Gone ELSE IF parent[c] = n THEN Root ELSE parent[c]
    OBVIOUS
  <2>1. parent'[c] = CASE c = n -> Gone [] parent[c] = n -> Root [] OTHER -> parent[c]
    BY <1>1 DEF PromoteChildren
  <2>2. CASE c = n
    <3>1. {n} \subseteq Nodes /\ {n} # {}
      BY <1>1
    <3>2. PICK m \in {n} : parent[m] \notin {n}
      BY <3>1, LoopFree DEF TreeInv
    <3> QED BY <2>1, <2>2, <3>2
  <2>3. CASE c # n
    BY <2>1, <2>3
  <2> QED BY <2>2, <2>3
<1>3. parent' \in [Categories -> Places]
  <2>1. \A c \in Categories : (IF c = n THEN Gone ELSE IF parent[c] = n THEN Root ELSE parent[c]) \in Places
    BY TreeKinds DEF Places
  <2>2. DOMAIN parent' = Categories /\ parent' = [c \in Categories |-> parent'[c]]
    BY <1>1 DEF PromoteChildren
  <2> QED BY <1>2, <2>1, <2>2
<1>4. Nodes' = Nodes \ {n}
  BY <1>1, <1>2, TreeKinds DEF Nodes
<1>5. \A m \in Nodes' : parent'[m] \in Nodes' \cup {Root}
  BY <1>2, <1>4, TreeKinds
<1>6. TreeTypeOK'
  BY <1>1, <1>3, <1>4, <1>5, TreeKinds DEF TreeTypeOK
<1>7. NoCategoryLoop'
  <2> SUFFICES ASSUME NEW T, T \subseteq Nodes', T # {} PROVE \E m \in T : parent'[m] \notin T
    BY DEF NoCategoryLoop
  <2>1. PICK m \in T : parent[m] \notin T
    BY <1>4, LoopFree DEF TreeInv
  <2>2. m \in Categories /\ m # n /\ Root \notin T
    BY <1>4, TreeKinds
  <2> QED BY <1>2, <2>1, <2>2
<1>8. \A c \in Categories : parent[c] # Unborn => parent'[c] # Unborn
  BY <1>2, TreeKinds
<1>9. \A c \in Categories : parent'[c] = parent[c] \/ parent'[c] \notin Categories \/ parent[c] = Unborn
  BY <1>2, TreeKinds
<1> QED BY <1>1, <1>3, <1>6, <1>7, <1>8, <1>9, TreeGrows

\* The write of a move: what hangs below the node does not hold the new parent, so a
\* loop through it would have to close before it was made.
LEMMA MoveKeeps == ASSUME TreeInv, NEW a \in Admins, UpdateCategory(a) PROVE TreeInv'
<1>1. PICK r \in Move : r = request[a] /\ MoveFits(r) /\ Locked(r)
  <2>1. request[a] # Quiet /\ Locked(request[a])
    BY DEF UpdateCategory, Locked, Quiet
  <2> QED BY <2>1, TreeKinds DEF TreeInv
<1>2. UNCHANGED <<holding, moves>> /\ request' = [request EXCEPT ![a] = Quiet]
  BY DEF UpdateCategory
<1>3. \A b \in Admins : b # a => ~Locked(request[b])
  BY <1>1 DEF TreeInv
<1>4. CASE ~(r.op = "move_ok" /\ r.node \in Nodes /\ r.to \in Nodes \cup {Root})
  <2>1. parent' = parent
    BY <1>1, <1>4 DEF UpdateCategory
  <2> QED BY <1>2, <2>1, RequestMoves
<1>5. CASE r.op = "move_ok" /\ r.node \in Nodes /\ r.to \in Nodes \cup {Root}
  <2>1. parent' = [parent EXCEPT ![r.node] = r.to]
    BY <1>1, <1>5 DEF UpdateCategory
  <2>2. r.node \in Categories /\ r.to \in Places
    BY <1>5, TreeKinds DEF Places
  <2>3. parent' \in [Categories -> Places] /\ parent'[r.node] = r.to
        /\ \A c \in Categories : c # r.node => parent'[c] = parent[c]
    BY <2>1, <2>2, TreeKinds
  <2>4. Nodes' = Nodes
    BY <1>5, <2>2, <2>3, TreeKinds DEF Nodes
  <2>5. TreeTypeOK'
    <3>1. \A m \in Nodes : parent'[m] \in Nodes \cup {Root}
      BY <1>5, <2>3, TreeKinds
    <3> QED BY <1>2, <2>3, <2>4, <3>1, TreeKinds DEF TreeTypeOK
  <2>6. NoCategoryLoop'
    <3> SUFFICES ASSUME NEW T, T \subseteq Nodes, T # {}, \A m \in T : parent'[m] \in T PROVE FALSE
      BY <2>4 DEF NoCategoryLoop
    <3>1. PICK S \in SUBSET Categories : r.node \in S /\ r.to \notin S /\ WithChildren(parent, S)
      BY <1>1, <1>5 DEF MoveFits
    <3>2. CASE r.node \notin T
      <4>1. \A m \in T : m \in Categories /\ parent'[m] = parent[m]
        BY <2>3, <3>2, TreeKinds
      <4> QED BY <4>1, LoopFree DEF TreeInv
    <3>3. CASE r.node \in T
      <4>1. r.to \in T \ S
        BY <2>3, <3>1, <3>3
      <4>2. ASSUME NEW m \in T \ S PROVE parent[m] \in T \ S
        <5>1. m # r.node /\ m \in Categories /\ parent'[m] = parent[m] /\ parent[m] \in T
          BY <2>3, <3>1, TreeKinds
        <5>2. parent[m] \notin S
          BY <3>1, <5>1, TreeKinds DEF WithChildren
        <5> QED BY <5>1, <5>2
      <4> QED BY <4>1, <4>2, LoopFree DEF TreeInv
    <3> QED BY <3>2, <3>3
  <2>7. request' \in [Admins -> Move \cup {Quiet}]
    BY <1>2, TreeKinds
  <2>8. \A b \in Admins : request'[b] = IF b = a THEN Quiet ELSE request[b]
    BY <1>2, TreeKinds
  <2>9. ASSUME NEW b \in Admins, request'[b] # Quiet PROVE MoveFits(request[b])'
    <3>1. b # a /\ request'[b] = request[b] /\ request[b] \in Move /\ MoveFits(request[b]) /\ ~Locked(request[b])
      BY <1>3, <2>8, <2>9, TreeKinds DEF TreeInv
    <3>2. \A c \in Categories : parent[c] # Unborn => parent'[c] # Unborn
      BY <1>5, <2>3, TreeKinds DEF Nodes
    <3>3. request[b].to = Root \/ parent'[request[b].to] # Unborn
      BY <3>1, <3>2 DEF MoveFits, Move
    <3> QED BY <3>1, <3>3 DEF MoveFits, Locked
  <2>10. \A b \in Admins : ~Locked(request'[b])
    BY <1>3, <2>8 DEF Locked, Quiet
  <2> QED BY <2>3, <2>5, <2>6, <2>7, <2>9, <2>10 DEF TreeInv, Locked
<1> QED BY <1>4, <1>5

\* Every step of the administrators and the sellers keeps the invariant.
LEMMA TreeInvKept == TreeInv /\ [TreeNext]_treeVars => TreeInv'
<1> SUFFICES ASSUME TreeInv, [TreeNext]_treeVars PROVE TreeInv'
  OBVIOUS
<1>1. CASE UNCHANGED treeVars
  BY <1>1 DEF treeVars, TreeInv, TreeTypeOK, NoCategoryLoop, MoveFits, WithChildren, Locked, Nodes
<1>2. ASSUME NEW n \in Categories, FileListing(n) PROVE TreeInv'
  <2>1. UNCHANGED <<parent, request>> /\ holding' \subseteq Nodes
    BY <1>2, TreeKinds DEF FileListing
  <2>2. (TreeTypeOK /\ NoCategoryLoop)'
    BY <2>1 DEF TreeInv, TreeTypeOK, NoCategoryLoop, Nodes
  <2> QED BY <2>1, <2>2 DEF TreeInv, MoveFits, WithChildren, Locked
<1>3. ASSUME NEW n \in Categories, NEW a \in Admins, AdminUpdateCategory(a, n) PROVE TreeInv'
  <2>1. PICK p \in Nodes \cup {Root} : request' = [request EXCEPT ![a] = [op |-> "move", node |-> n, to |-> p]]
    BY <1>3 DEF AdminUpdateCategory
  <2>2. UNCHANGED <<parent, holding>> /\ (p = Root \/ parent[p] # Unborn) /\ p \in Categories \cup {Root}
    BY <1>3, TreeKinds DEF AdminUpdateCategory, Nodes
  <2>3. [op |-> "move", node |-> n, to |-> p] \in Move
    BY <2>2 DEF Move
  <2>4. MoveFits([op |-> "move", node |-> n, to |-> p]) /\ ~Locked([op |-> "move", node |-> n, to |-> p])
    BY <2>2 DEF MoveFits, Locked
  <2> QED BY <2>1, <2>2, <2>3, <2>4, RequestMoves
<1>4. ASSUME NEW a \in Admins, WalkSubtree(a) PROVE TreeInv'
  <2>1. PICK r \in Move : r = request[a] /\ MoveFits(r) /\ r.op = "move"
    BY <1>4, TreeKinds DEF WalkSubtree, Quiet, TreeInv
  <2>2. UNCHANGED <<parent, holding>> /\ \A b \in Admins : ~Locked(request[b])
    BY <1>4 DEF WalkSubtree, TreeLockFree, Locked
  <2>3. CASE r.node \notin Nodes
    <3>1. request' = [request EXCEPT ![a] = Quiet]
      BY <1>4, <2>1, <2>3 DEF WalkSubtree
    <3> QED BY <2>2, <3>1, RequestMoves
  <2>4. CASE r.node \in Nodes
    <3> DEFINE verdict == IF r.to \in Below(parent, r.node) THEN "loop" ELSE "move_ok"
               h == [r EXCEPT !.op = verdict]
    <3>1. request' = [request EXCEPT ![a] = h]
      BY <1>4, <2>1, <2>4 DEF WalkSubtree
    <3>2. h \in Move /\ h.op = verdict /\ h.node = r.node /\ h.to = r.to
      BY DEF Move
    <3>3. MoveFits(h)
      <4>1. /\ Below(parent, r.node) \in SUBSET Categories /\ r.node \in Below(parent, r.node)
            /\ WithChildren(parent, Below(parent, r.node))
        BY WalkReaches, TreeKinds DEF Move
      <4> QED BY <2>1, <3>2, <4>1 DEF MoveFits
    <3> HIDE DEF h
    <3> QED BY <2>2, <3>1, <3>2, <3>3, RequestMoves
  <2> QED BY <2>3, <2>4
<1> QED BY <1>1, <1>2, <1>3, <1>4, CreateKeeps, DeleteKeeps, MoveKeeps DEF TreeNext

\* No category exists yet.
LEMMA TreeInvFirst == TreeInit => TreeInv
<1> SUFFICES ASSUME TreeInit PROVE TreeInv
  OBVIOUS
<1>1. parent \in [Categories -> Places] /\ Nodes = {} /\ DOMAIN parent = Categories
  BY DEF TreeInit, Nodes, Places
<1>2. request \in [Admins -> Move \cup {Quiet}] /\ \A a \in Admins : request[a] = Quiet /\ ~Locked(request[a])
  BY DEF TreeInit, Locked, Quiet
<1> QED BY <1>1, <1>2 DEF TreeInit, TreeInv, TreeTypeOK, NoCategoryLoop

\* Moves checked on a tree that others change never close a loop.
THEOREM CategoriesStaySound == Spec => []CategoriesHold
<1>1. Init => (part = "categories" => TreeInv)
  BY TreeInvFirst DEF Init
<1>2. (part = "categories" => TreeInv) /\ [Next]_platformVars => (part = "categories" => TreeInv)'
  BY MarketRuns, TreeInvKept
<1>3. (part = "categories" => TreeInv) => CategoriesHold
  BY DEF TreeInv, CategoriesHold
<1> QED BY <1>1, <1>2, <1>3, PTL DEF Spec
-----------------------------------------------------------------------------
(* The negotiation *)

Haggle == [op : {"none", "save", "checkout"},
           at : {"idle", "save", "claim", "reserve", "quote", "open", "insert", "attach", "release"},
           o : Offers, row : Offer]

\* Where a request holds the claim, and what it has done by then.
Past == {"reserve", "quote", "open", "insert", "attach"}
ReservedAt == {"quote", "open", "insert", "attach"}
Unwritten == {"reserve", "quote", "open", "insert"}

\* What a request relies on, of the row, the line and the units of its offer: terms
\* it will save are under the asking price; terms it checks out were agreed, and are
\* still those on the row unless that was cancelled; behind the claim the row, the
\* units and the line are its own.
HaggleFits(g, row, l, u) ==
  /\ g.op = "none" => g.at = "idle"
  /\ g.at = "save" => BelowAsking(g.row.terms) /\ g.row.status \in {"active", "accepted", "cancelled"}
  /\ g.at = "claim" => /\ row.status \notin {"none", "active"}
                       /\ row.status # "cancelled" => g.row.terms = row.terms
  /\ g.at \in Past => row.status = "checked-out" /\ ~row.session /\ g.row.terms = row.terms
  /\ g.at = "reserve" => u = 0
  /\ g.at \in ReservedAt => u = g.row.terms.quantity
  /\ g.at \in Unwritten => l = "none"

\* What holds of an offer whoever works on it.
OfferFits(row, l, u) ==
  /\ row.status = "active" => BelowAsking(row.terms)
  /\ row.status # "checked-out" => l = "none" /\ u = 0 /\ ~row.session
  /\ u <= row.terms.quantity

Holding(b, o) == req[b].at \in Past /\ req[b].o = o

\* The kinds of the variables, all but leftOver.
HaggleKinds ==
  /\ offer \in [Offers -> Offer] /\ revised \in [Offers -> 0 .. MaxCounters]
  /\ line \in [Offers -> {"none", "written"}] /\ units \in [Offers -> Nat] /\ sessions \in [Offers -> Nat]
  /\ run \in [Offers -> {"none", "running", "done"}] /\ expiring \subseteq [o : Offers, row : Offer]
  /\ req \in [Hagglers -> Haggle] /\ haggleFailures \in 0 .. MaxHaggleFailures

\* What a failed checkout is about to hand back is still there, and nothing is left
\* over where no call failed.
LeftOversFit ==
  /\ leftOver \in [Offers -> [Hagglers -> Nat]]
  /\ \A c \in Hagglers : req[c].at = "release" => leftOver[req[c].o][c] >= req[c].row.terms.quantity
  /\ \A o \in Offers : \A c \in Hagglers : leftOver[o][c] > 0 => haggleFailures > 0

NegotiationInv ==
  /\ HaggleKinds
  /\ \A o \in Offers : OfferFits(offer[o], line[o], units[o])
  /\ \A c \in Hagglers : HaggleFits(req[c], offer[req[c].o], line[req[c].o], units[req[c].o])
  /\ \A o \in Offers : \A b, c \in Hagglers : Holding(b, o) /\ Holding(c, o) => b = c

\* The variables but the rows and the requests keep their kinds.
CountsFit ==
  /\ revised' \in [Offers -> 0 .. MaxCounters]
  /\ sessions' \in [Offers -> Nat]
  /\ run' \in [Offers -> {"none", "running", "done"}]
  /\ expiring' \subseteq [o : Offers, row : Offer]
  /\ haggleFailures' \in 0 .. MaxHaggleFailures

\* The kinds of the negotiation's variables, and of what is no offer and no request.
LEMMA NegotiationKinds ==
  /\ HaggleKinds /\ leftOver \in [Offers -> [Hagglers -> Nat]] => NegotiationTypeOK
  /\ HaggleKinds' <=>
       /\ offer' \in [Offers -> Offer] /\ line' \in [Offers -> {"none", "written"}]
       /\ units' \in [Offers -> Nat] /\ req' \in [Hagglers -> Haggle] /\ CountsFit
  /\ NoOffer \in Offer /\ NoOffer.status = "none" /\ ~NoOffer.session
  /\ NoReq \in Haggle /\ NoReq.op = "none" /\ NoReq.at = "idle"
  /\ \A t \in Terms : t.quantity \in Nat /\ t.total \in Nat /\ t.quantity > 0
<1>1. AnyTerms \in Terms /\ (CHOOSE o \in Offers : TRUE) \in Offers
  BY NegotiationAssumption DEF AnyTerms
<1>2. NoOffer \in Offer /\ NoOffer.status = "none" /\ ~NoOffer.session
  BY <1>1 DEF NoOffer, Offer, Parties
<1>3. NoReq \in Haggle /\ NoReq.op = "none" /\ NoReq.at = "idle"
  BY <1>1, <1>2 DEF NoReq, Haggle
<1>4. \A t \in Terms : t.quantity \in Nat /\ t.total \in Nat /\ t.quantity > 0
  BY NegotiationAssumption
<1> QED BY <1>2, <1>3, <1>4 DEF NegotiationTypeOK, HaggleKinds, Haggle, CountsFit

\* An offer moves on: agreed terms stay until they are cancelled.
MovesOn(old, row) ==
  old.status \notin {"none", "active"} =>
    /\ row.status \notin {"none", "active"}
    /\ row.status # "cancelled" => old.status # "cancelled" /\ row.terms = old.terms

\* A request that does not move still fits, where the offer moves on and is not the
\* one it holds.
LEMMA OthersFit ==
  ASSUME NEW g \in Haggle, NEW old, NEW l, NEW u, NEW row, NEW k, NEW v,
         HaggleFits(g, old, l, u), MovesOn(old, row), g.at \notin Past
  PROVE  HaggleFits(g, row, k, v)
BY DEF HaggleFits, MovesOn, Past, ReservedAt, Unwritten

\* Who holds the offer is who changes it; everyone else rests.
OthersRestOf(o, row, l, u) ==
  \A b \in Hagglers :
    \/ req'[b] = req[b] /\ ~Holding(b, o)
    \/ /\ req'[b].at = "idle" \/ req'[b].o = o
       /\ HaggleFits(req'[b], row, l, u)
       /\ req'[b].at \in Past => \A c \in Hagglers \ {b} : ~Holding(c, o) /\ req'[c] = req[c]

\* One offer changes, by a request of its own or by none.
LEMMA OfferChanges ==
  ASSUME NegotiationInv, CountsFit, NEW o \in Offers,
         NEW row \in Offer, NEW l \in {"none", "written"}, NEW u \in Nat,
         offer' = [offer EXCEPT ![o] = row], line' = [line EXCEPT ![o] = l], units' = [units EXCEPT ![o] = u],
         OfferFits(row, l, u), MovesOn(offer[o], row),
         req' \in [Hagglers -> Haggle],
         OthersRestOf(o, row, l, u)
  PROVE  NegotiationInv'
<1>1. /\ offer \in [Offers -> Offer] /\ line \in [Offers -> {"none", "written"}]
      /\ units \in [Offers -> Nat] /\ req \in [Hagglers -> Haggle]
  BY DEF NegotiationInv, HaggleKinds
<1> USE DEF OthersRestOf
<1>2. offer' \in [Offers -> Offer] /\ line' \in [Offers -> {"none", "written"}] /\ units' \in [Offers -> Nat]
  BY <1>1
<1>3. HaggleKinds'
  BY <1>2, NegotiationKinds
<1>4. /\ \A p \in Offers : offer'[p] = IF p = o THEN row ELSE offer[p]
      /\ \A p \in Offers : line'[p] = IF p = o THEN l ELSE line[p]
      /\ \A p \in Offers : units'[p] = IF p = o THEN u ELSE units[p]
  BY <1>1
<1>5. ASSUME NEW p \in Offers PROVE OfferFits(offer'[p], line'[p], units'[p])
  BY <1>4 DEF NegotiationInv
<1>6. ASSUME NEW b \in Hagglers, NEW g \in Haggle, g = req'[b]
      PROVE  HaggleFits(g, offer'[g.o], line'[g.o], units'[g.o])
  <2>1. g.o \in Offers
    BY DEF Haggle
  <2>2. CASE req'[b] = req[b] /\ ~Holding(b, o)
    <3>1. HaggleFits(g, offer[g.o], line[g.o], units[g.o])
      BY <1>6, <2>2 DEF NegotiationInv
    <3>2. CASE g.o # o
      BY <1>4, <2>1, <3>1, <3>2
    <3>3. CASE g.o = o
      <4>1. g.at \notin Past
        BY <1>6, <2>2, <3>3 DEF Holding
      <4> QED BY <1>4, <3>1, <3>3, <4>1, OthersFit
    <3> QED BY <3>2, <3>3
  <2>3. CASE g.at = "idle"
    <3>1. g.at \notin {"save", "claim"} \cup Past \cup ReservedAt \cup Unwritten
      BY <2>3 DEF Past, ReservedAt, Unwritten
    <3> QED BY <2>3, <3>1 DEF HaggleFits
  <2>4. CASE g.o = o /\ HaggleFits(g, row, l, u)
    BY <1>4, <2>4
  <2> QED BY <1>6, <2>2, <2>3, <2>4
<1>7. ASSUME NEW p \in Offers, NEW b \in Hagglers, NEW c \in Hagglers, Holding(b, p)', Holding(c, p)', b # c
      PROVE  FALSE
  <2>1. req'[b].at \in Past /\ req'[c].at \in Past /\ req'[b].o = p /\ req'[c].o = p
    BY <1>7 DEF Holding
  <2>2. \A d \in {b, c} : req'[d].at # "idle"
    BY <2>1 DEF Past
  <2>3. CASE req'[b] = req[b] /\ req'[c] = req[c]
    BY <1>7, <2>1, <2>3 DEF NegotiationInv, Holding
  <2>4. CASE req'[b] # req[b]
    <3>1. req'[b].o = o /\ ~Holding(c, o) /\ req'[c] = req[c]
      BY <1>7, <2>1, <2>2, <2>4
    <3> QED BY <2>1, <3>1 DEF Holding
  <2>5. CASE req'[c] # req[c]
    <3>1. req'[c].o = o /\ ~Holding(b, o) /\ req'[b] = req[b]
      BY <1>7, <2>1, <2>2, <2>5
    <3> QED BY <2>1, <3>1 DEF Holding
  <2> QED BY <2>3, <2>4, <2>5
<1>8. \A c \in Hagglers : HaggleFits(req'[c], offer'[req'[c].o], line'[req'[c].o], units'[req'[c].o])
  BY <1>6
<1> QED BY <1>3, <1>5, <1>7, <1>8 DEF NegotiationInv, HaggleFits, OfferFits, Holding

\* No offer changes; a request moves on its own.
LEMMA HagglerMoves ==
  ASSUME NegotiationInv, CountsFit, UNCHANGED <<offer, line, units>>, NEW c \in Hagglers, NEW h \in Haggle,
         req' = [req EXCEPT ![c] = h], HaggleFits(h, offer[h.o], line[h.o], units[h.o]),
         h.at \in Past => \A b \in Hagglers \ {c} : ~Holding(b, h.o)
  PROVE  NegotiationInv'
<1>1. /\ offer \in [Offers -> Offer] /\ line \in [Offers -> {"none", "written"}]
      /\ units \in [Offers -> Nat] /\ req \in [Hagglers -> Haggle]
  BY DEF NegotiationInv, HaggleKinds
<1>2. req' \in [Hagglers -> Haggle] /\ \A b \in Hagglers : req'[b] = IF b = c THEN h ELSE req[b]
  BY <1>1
<1>3. HaggleKinds'
  BY <1>1, <1>2, NegotiationKinds
<1>4. \A b \in Hagglers : HaggleFits(req'[b], offer[req'[b].o], line[req'[b].o], units[req'[b].o])
  BY <1>2 DEF NegotiationInv
<1>5. ASSUME NEW p \in Offers, NEW a \in Hagglers, NEW b \in Hagglers, Holding(a, p)', Holding(b, p)' PROVE a = b
  BY <1>2, <1>5 DEF NegotiationInv, Holding
<1> QED BY <1>3, <1>4, <1>5 DEF NegotiationInv, HaggleFits, OfferFits, Holding
\* A request goes on as h, and leaves the offer as this row, line and units.
Becomes(c, h, o, row, l, u) ==
  /\ offer' = [offer EXCEPT ![o] = row] /\ line' = [line EXCEPT ![o] = l]
  /\ units' = [units EXCEPT ![o] = u] /\ req' = [req EXCEPT ![c] = h]

\* A request changes its own offer, which it holds or nobody does.
LEMMA OwnOfferChanges ==
  ASSUME NegotiationInv, CountsFit, NEW c \in Hagglers, NEW o \in Offers, o = req[c].o,
         NEW row \in Offer, NEW l \in {"none", "written"}, NEW u \in Nat, NEW h \in Haggle,
         Becomes(c, h, o, row, l, u),
         OfferFits(row, l, u), MovesOn(offer[o], row), HaggleFits(h, row, l, u), h.at = "idle" \/ h.o = o,
         req[c].at \in Past \/ offer[o].status # "checked-out"
  PROVE  NegotiationInv'
<1> USE DEF Becomes
<1>1. req \in [Hagglers -> Haggle]
  BY DEF NegotiationInv, HaggleKinds
<1>2. req' \in [Hagglers -> Haggle] /\ req'[c] = h /\ \A b \in Hagglers \ {c} : req'[b] = req[b]
  BY <1>1
<1>3. ASSUME NEW b \in Hagglers \ {c}, Holding(b, o) PROVE FALSE
  <2>1. offer[o].status = "checked-out"
    BY <1>3 DEF NegotiationInv, HaggleFits, Holding
  <2>2. Holding(c, o)
    BY <2>1 DEF Holding
  <2> QED BY <1>3, <2>2 DEF NegotiationInv
<1>4. ASSUME NEW b \in Hagglers
      PROVE  \/ req'[b] = req[b] /\ ~Holding(b, o)
             \/ /\ req'[b].at = "idle" \/ req'[b].o = o
                /\ HaggleFits(req'[b], row, l, u)
                /\ req'[b].at \in Past => \A d \in Hagglers \ {b} : ~Holding(d, o) /\ req'[d] = req[d]
  <2>1. CASE b = c
    BY <1>2, <1>3, <2>1
  <2>2. CASE b # c
    BY <1>2, <1>3, <2>2
  <2> QED BY <2>1, <2>2
<1>5. OthersRestOf(o, row, l, u)
  BY <1>4 DEF OthersRestOf
<1> QED BY <1>2, <1>5, OfferChanges

\* Nobody's request changes an offer that is not checked out.
LEMMA FreeOfferChanges ==
  ASSUME NegotiationInv, CountsFit, NEW o \in Offers, NEW row \in Offer, offer' = [offer EXCEPT ![o] = row],
         UNCHANGED <<line, units, req>>, offer[o].status # "checked-out",
         OfferFits(row, line[o], units[o]), MovesOn(offer[o], row)
  PROVE  NegotiationInv'
<1>1. /\ line \in [Offers -> {"none", "written"}] /\ units \in [Offers -> Nat] /\ req \in [Hagglers -> Haggle]
  BY DEF NegotiationInv, HaggleKinds
<1>2. ASSUME NEW b \in Hagglers, Holding(b, o) PROVE FALSE
  BY <1>2 DEF NegotiationInv, HaggleFits, Holding
<1>3. line' = [line EXCEPT ![o] = line[o]] /\ units' = [units EXCEPT ![o] = units[o]]
  BY <1>1
<1>4. line[o] \in {"none", "written"} /\ units[o] \in Nat
  BY <1>1
<1>5. OthersRestOf(o, row, line[o], units[o])
  BY <1>2 DEF OthersRestOf
<1> QED BY <1>1, <1>3, <1>4, <1>5, OfferChanges

\* Neither an offer nor a request changes.
LEMMA CountsMove ==
  ASSUME NegotiationInv, CountsFit, UNCHANGED <<offer, line, units, req>>
  PROVE  NegotiationInv'
BY NegotiationKinds DEF NegotiationInv, HaggleKinds, HaggleFits, OfferFits, Holding

\* What the invariant says of the variables.
LEMMA NegotiationTypes ==
  ASSUME NegotiationInv
  PROVE  /\ offer \in [Offers -> Offer] /\ revised \in [Offers -> 0 .. MaxCounters]
         /\ line \in [Offers -> {"none", "written"}] /\ units \in [Offers -> Nat] /\ sessions \in [Offers -> Nat]
         /\ run \in [Offers -> {"none", "running", "done"}] /\ expiring \subseteq [o : Offers, row : Offer]
         /\ req \in [Hagglers -> Haggle] /\ haggleFailures \in 0 .. MaxHaggleFailures
         /\ MaxCounters \in Nat /\ MaxHaggleFailures \in Nat
BY NegotiationAssumption DEF NegotiationInv, HaggleKinds

\* A request that is over fits whatever becomes of its offer.
LEMMA IdleFits == \A row, l, u : HaggleFits(NoReq, row, l, u)
<1>1. NoReq.at = "idle"
  BY NegotiationKinds
<1> QED BY <1>1 DEF HaggleFits, Past, ReservedAt, Unwritten

\* Nor does one that only hands back units rely on anything.
LEMMA ReleasingFits ==
  ASSUME NEW h, h.at = "release", h.op # "none"
  PROVE  \A row, l, u : HaggleFits(h, row, l, u)
BY DEF HaggleFits, Past, ReservedAt, Unwritten

\* Creating an offer, the passing of its deadline and the expiry.
LEMMA DeadlinesKeep ==
  ASSUME NegotiationInv,
         \/ \E o \in Offers, t \in Terms : CreateOffer(o, t)
         \/ \E o \in Offers : Lapse(o) \/ OfferRun(o)
         \/ ExpireOffers
         \/ \E e \in expiring : SaveExpired(e)
  PROVE  NegotiationInv'
<1> USE NegotiationTypes
<1>1. ASSUME NEW o \in Offers, NEW t \in Terms, CreateOffer(o, t) PROVE NegotiationInv'
  <2>1. NewOffer(t) \in Offer /\ NewOffer(t).terms = t /\ NewOffer(t).status = "active" /\ ~NewOffer(t).session
    BY DEF NewOffer, Offer, Parties
  <2>2. offer[o].status = "none" /\ BelowAsking(t) /\ offer' = [offer EXCEPT ![o] = NewOffer(t)]
        /\ UNCHANGED <<revised, line, units, sessions, expiring, req, haggleFailures>> /\ StartOffer(o)
    BY <1>1 DEF CreateOffer
  <2>3. line[o] = "none" /\ units[o] = 0
    BY <2>2 DEF NegotiationInv, OfferFits
  <2>4. CountsFit
    BY <2>2 DEF CountsFit, StartOffer
  <2>5. OfferFits(NewOffer(t), line[o], units[o])
    BY <2>1, <2>2, <2>3, NegotiationKinds DEF OfferFits
  <2>6. MovesOn(offer[o], NewOffer(t))
    BY <2>2 DEF MovesOn
  <2> QED BY <2>1, <2>2, <2>4, <2>5, <2>6, FreeOfferChanges
<1>2. ASSUME NEW o \in Offers, Lapse(o) PROVE NegotiationInv'
  <2> DEFINE row == [offer[o] EXCEPT !.lapsed = TRUE]
  <2>1. offer[o] \in Offer
    OBVIOUS
  <2>2. row \in Offer
    BY <2>1 DEF Offer
  <2>3. row.terms = offer[o].terms /\ row.status = offer[o].status
    BY <2>1 DEF Offer
  <2>4. row.session = offer[o].session
    BY <2>1 DEF Offer
  <2>5. offer' = [offer EXCEPT ![o] = row] /\ offer[o].status # "checked-out"
        /\ UNCHANGED <<revised, line, units, sessions, run, expiring, req, haggleFailures>>
    BY <1>2 DEF Lapse, expirableOffer
  <2>6. CountsFit
    BY <2>5 DEF CountsFit
  <2>7. OfferFits(row, line[o], units[o])
    BY <2>3, <2>4 DEF NegotiationInv, OfferFits
  <2>8. MovesOn(offer[o], row)
    BY <2>3 DEF MovesOn
  <2> HIDE DEF row
  <2> QED BY <2>2, <2>5, <2>6, <2>7, <2>8, FreeOfferChanges
<1>3. ASSUME NEW o \in Offers, OfferRun(o) PROVE NegotiationInv'
  <2>1. Copies({o}) \subseteq [o : Offers, row : Offer]
    BY DEF Copies
  <2>2. CountsFit /\ UNCHANGED <<offer, line, units, req>>
    BY <1>3, <2>1 DEF OfferRun, CountsFit
  <2> QED BY <2>2, CountsMove
<1>4. CASE ExpireOffers
  <2>1. Copies(ExpiredOffers) \subseteq [o : Offers, row : Offer]
    BY DEF Copies, ExpiredOffers
  <2>2. CountsFit /\ UNCHANGED <<offer, line, units, req>>
    BY <1>4, <2>1 DEF ExpireOffers, CountsFit
  <2> QED BY <2>2, CountsMove
<1>5. ASSUME NEW e \in expiring, SaveExpired(e) PROVE NegotiationInv'
  <2>1. e.o \in Offers /\ e.row \in Offer
    OBVIOUS
  <2>2. CountsFit /\ UNCHANGED <<line, units, req>>
    BY <1>5 DEF SaveExpired, CountsFit
  <2>3. CASE UNCHANGED offer
    BY <2>2, <2>3, CountsMove
  <2>4. CASE CanExpire(e.row) /\ SaveOfferLands(e.o, expirableOffer)
    <3> DEFINE row == [[e.row EXCEPT !.status = "cancelled"] EXCEPT !.session = offer[e.o].session]
    <3>1. offer[e.o].session \in BOOLEAN
      BY <2>1 DEF Offer
    <3>2. row \in Offer /\ row.status = "cancelled" /\ row.session = offer[e.o].session
      BY <2>1, <3>1 DEF Offer
    <3>3. offer' = [offer EXCEPT ![e.o] = row] /\ offer[e.o].status \in {"active", "accepted"}
      BY <1>5, <2>4 DEF SaveExpired, SaveOffer, SaveOfferLands, expirableOffer
    <3>4. line[e.o] = "none" /\ units[e.o] = 0 /\ ~offer[e.o].session
      BY <2>1, <3>3 DEF NegotiationInv, OfferFits
    <3>5. row.terms.quantity \in Nat
      BY <3>2, NegotiationKinds DEF Offer
    <3>6. OfferFits(row, line[e.o], units[e.o]) /\ MovesOn(offer[e.o], row)
      BY <3>2, <3>4, <3>5 DEF OfferFits, MovesOn
    <3> HIDE DEF row
    <3> QED BY <2>1, <2>2, <3>2, <3>3, <3>6, FreeOfferChanges
  <2> QED BY <1>5, <2>3, <2>4 DEF SaveExpired
<1> QED BY <1>1, <1>2, <1>3, <1>4, <1>5

\* A request reads its offer and decides on the copy.
LEMMA HagglingBegins ==
  ASSUME NegotiationInv, NEW c \in Hagglers, NEW a \in Actors, NEW o \in Offers,
         \/ \E t \in Terms : CounterOffer(c, a, o, t)
         \/ AcceptOffer(c, a, o) \/ CancelOffer(c, a, o) \/ CheckoutOffer(c, a, o)
  PROVE  NegotiationInv'
<1> USE NegotiationTypes
<1>1. ASSUME NEW op \in {"save", "checkout"}, NEW at \in {"save", "claim"}, NEW row \in Offer,
             BeginHaggle(c, op, at, o, row), UNCHANGED <<offer, line, units>>, CountsFit,
             at = "save" => BelowAsking(row.terms) /\ row.status \in {"active", "accepted", "cancelled"},
             at = "claim" => offer[o].status \notin {"none", "active"} /\ row.terms = offer[o].terms
      PROVE  NegotiationInv'
  <2> DEFINE h == [op |-> op, at |-> at, o |-> o, row |-> row]
  <2>1. h \in Haggle /\ h.at = at /\ h.o = o /\ h.row = row /\ h.op = op /\ h.at \notin Past
    BY DEF Haggle, Past
  <2>2. req' = [req EXCEPT ![c] = h]
    BY <1>1 DEF BeginHaggle
  <2> HIDE DEF h
  <2>3. HaggleFits(h, offer[h.o], line[h.o], units[h.o])
    BY <1>1, <2>1 DEF HaggleFits, Past, ReservedAt, Unwritten
  <2> QED BY <1>1, <2>1, <2>2, <2>3, HagglerMoves
<1>2. offer[o] \in Offer
  OBVIOUS
<1>3. offer[o].status = "active" => BelowAsking(offer[o].terms)
  BY DEF NegotiationInv, OfferFits
<1>4. ASSUME NEW t \in Terms, CounterOffer(c, a, o, t) PROVE NegotiationInv'
  <2> DEFINE row == Counter(offer[o], a, t)
  <2>1. a \in Parties /\ offer[o].status = "active" /\ BelowAsking(t)
    BY <1>4 DEF CounterOffer, movable, InvolvesOffer
  <2>2. row \in Offer /\ row.terms = t /\ row.status = "active"
    BY <1>2, <2>1 DEF Counter, Offer
  <2>3. CountsFit
    BY <1>4 DEF CounterOffer, CountsFit
  <2>4. BeginHaggle(c, "save", "save", o, row) /\ UNCHANGED <<offer, line, units>>
    BY <1>4 DEF CounterOffer
  <2> HIDE DEF row
  <2> QED BY <1>1, <2>1, <2>2, <2>3, <2>4
<1>5. CASE AcceptOffer(c, a, o)
  <2> DEFINE row == Accept(offer[o])
  <2>1. offer[o].status = "active"
    BY <1>5 DEF AcceptOffer, movable, InvolvesOffer
  <2>2. row \in Offer /\ row.terms = offer[o].terms /\ row.status = "accepted"
    BY <1>2 DEF Accept, Offer
  <2>3. CountsFit
    BY <1>5 DEF AcceptOffer, CountsFit
  <2>4. BeginHaggle(c, "save", "save", o, row) /\ UNCHANGED <<offer, line, units>>
    BY <1>5 DEF AcceptOffer
  <2> HIDE DEF row
  <2> QED BY <1>1, <1>3, <2>1, <2>2, <2>3, <2>4
<1>6. CASE CancelOffer(c, a, o)
  <2> DEFINE row == [offer[o] EXCEPT !.status = "cancelled"]
  <2>1. offer[o].status = "active"
    BY <1>6 DEF CancelOffer, CanCancelOffer
  <2>2. row \in Offer /\ row.terms = offer[o].terms /\ row.status = "cancelled"
    BY <1>2 DEF Offer
  <2>3. CountsFit
    BY <1>6 DEF CancelOffer, CountsFit
  <2>4. BeginHaggle(c, "save", "save", o, row) /\ UNCHANGED <<offer, line, units>>
    BY <1>6 DEF CancelOffer
  <2> HIDE DEF row
  <2> QED BY <1>1, <1>3, <2>1, <2>2, <2>3, <2>4
<1>7. CASE CheckoutOffer(c, a, o)
  <2>1. CountsFit
    BY <1>7 DEF CheckoutOffer, CountsFit
  <2>2. BeginHaggle(c, "checkout", "claim", o, offer[o]) /\ UNCHANGED <<offer, line, units>>
        /\ offer[o].status = "accepted"
    BY <1>7 DEF CheckoutOffer, CheckoutBy
  <2> QED BY <1>1, <1>2, <2>1, <2>2
<1> QED BY <1>4, <1>5, <1>6, <1>7
\* The write of decided terms lands on an open offer, which no checkout is after.
LEMMA SaveTermsKeeps == ASSUME NegotiationInv, NEW c \in Hagglers, SaveTerms(c) PROVE NegotiationInv'
<1> USE NegotiationTypes
<1>1. PICK g \in Haggle : g = req[c]
  OBVIOUS
<1>2. g.o \in Offers /\ g.row \in Offer /\ NoReq \in Haggle /\ NoReq.at = "idle" /\ NoReq.at \notin Past
  BY NegotiationKinds DEF Haggle, Past
<1>3. g.at = "save" /\ UNCHANGED <<line, units>> /\ req' = [req EXCEPT ![c] = NoReq]
  BY <1>1 DEF SaveTerms, End
<1>4. BelowAsking(g.row.terms) /\ g.row.status \in {"active", "accepted", "cancelled"}
  BY <1>1, <1>3 DEF NegotiationInv, HaggleFits
<1>5. CountsFit
  BY <1>1, <1>2 DEF SaveTerms, CountsFit, StartOffer
<1>6. CASE UNCHANGED offer
  BY <1>2, <1>3, <1>5, <1>6, IdleFits, HagglerMoves
<1>7. CASE offer[g.o].status = "active" /\ SaveOffer(g.o, g.row)
  <2> DEFINE o == g.o
             row == [g.row EXCEPT !.session = offer[o].session]
  <2>1. line[o] = "none" /\ units[o] = 0 /\ offer[o].session = FALSE
    BY <1>2, <1>7 DEF NegotiationInv, OfferFits, Offer
  <2>2. row \in Offer /\ row.status = g.row.status /\ row.terms = g.row.terms
    BY <1>2, <2>1 DEF Offer
  <2>3. row.session = FALSE
    BY <1>2, <2>1 DEF Offer
  <2>4. offer' = [offer EXCEPT ![o] = row]
    BY <1>7 DEF SaveOffer
  <2>5. row.terms.quantity \in Nat
    BY <2>2, NegotiationKinds DEF Offer
  <2> HIDE DEF row
  <2>6. OfferFits(row, "none", 0)
    BY <1>4, <2>2, <2>3, <2>5 DEF OfferFits
  <2>7. MovesOn(offer[o], row)
    BY <1>7 DEF MovesOn
  <2>8. line' = [line EXCEPT ![o] = "none"] /\ units' = [units EXCEPT ![o] = 0]
    BY <1>3, <2>1
  <2>9. Becomes(c, NoReq, o, row, "none", 0)
    BY <1>3, <2>4, <2>8 DEF Becomes
  <2> QED BY <1>1, <1>2, <1>5, <1>7, <2>2, <2>6, <2>7, <2>9, IdleFits, OwnOfferChanges
<1> QED BY <1>1, <1>6, <1>7 DEF SaveTerms, SaveOfferLands

\* A checkout claims its offer, and with what it has reserved goes on or hands the
\* claim and the units back.
LEMMA CheckoutKeeps ==
  ASSUME NegotiationInv, NEW c \in Hagglers,
         \/ ClaimOfferCheckout(c) \/ ReserveUnits(c) \/ QuoteShipping(c)
         \/ OpenCheckout(c) \/ InsertItems(c) \/ AttachOfferSession(c) \/ ReleaseUnits(c) \/ Crash(c)
  PROVE  NegotiationInv'
<1> USE NegotiationTypes
<1>1. PICK g \in Haggle : g = req[c]
  OBVIOUS
<1>2. PICK o \in Offers : o = g.o
  BY DEF Haggle
<1>3. PICK old \in Offer : old = offer[o]
  OBVIOUS
<1>4. HaggleFits(g, old, line[o], units[o]) /\ OfferFits(old, line[o], units[o])
  BY <1>1, <1>2, <1>3 DEF NegotiationInv
<1>5. old.terms \in Terms /\ g.row.terms \in Terms /\ old.terms.quantity \in Nat /\ g.row.terms.quantity \in Nat
  BY NegotiationKinds DEF Haggle, Offer
<1>6. NoReq \in Haggle /\ NoReq.at = "idle" /\ NoReq.at \notin Past
  BY NegotiationKinds DEF Past
<1>7. /\ offer = [offer EXCEPT ![o] = old] /\ line = [line EXCEPT ![o] = line[o]]
      /\ units = [units EXCEPT ![o] = units[o]] /\ line[o] \in {"none", "written"} /\ units[o] \in Nat
  BY <1>3
<1>8. MovesOn(old, old)
  BY DEF MovesOn
<1>9. ASSUME NEW step \in Past \cup {"release"}, To(c, step)
      PROVE  \E h \in Haggle : /\ req' = [req EXCEPT ![c] = h] /\ h.at = step /\ h.o = o
                               /\ h.row = g.row /\ h.op = g.op
  <2> DEFINE h == [g EXCEPT !.at = step]
  <2>1. h \in Haggle /\ h.at = step /\ h.o = o /\ h.row = g.row /\ h.op = g.op
    BY <1>2 DEF Haggle, Past
  <2>2. req' = [req EXCEPT ![c] = h]
    BY <1>1, <1>9 DEF To
  <2> HIDE DEF h
  <2> QED BY <2>1, <2>2
<1>10. ASSUME CountsFit, UNCHANGED <<offer, line, units>>, End(c) PROVE NegotiationInv'
  BY <1>6, <1>10, IdleFits, HagglerMoves DEF End
<1>11. ASSUME g.at \in Past, CountsFit, NEW l \in {"none", "written"}, line' = [line EXCEPT ![o] = l], UNCHANGED <<offer, units>>,
              NEW step \in ReservedAt, To(c, step), g.at \in ReservedAt,
              step \in Unwritten => l = "none"
       PROVE  NegotiationInv'
  <2>1. PICK h \in Haggle : /\ req' = [req EXCEPT ![c] = h] /\ h.at = step /\ h.o = o
                            /\ h.row = g.row /\ h.op = g.op
    BY <1>9, <1>11 DEF Past, ReservedAt
  <2>2. HaggleFits(h, old, l, units[o])
    BY <1>4, <1>11, <2>1 DEF HaggleFits, Past, ReservedAt, Unwritten
  <2>3. OfferFits(old, l, units[o])
    BY <1>4, <1>11 DEF OfferFits, HaggleFits
  <2>4. Becomes(c, h, o, old, l, units[o])
    BY <1>7, <1>11, <2>1 DEF Becomes
  <2> QED BY <1>1, <1>2, <1>3, <1>7, <1>8, <1>11, <2>1, <2>2, <2>3, <2>4, OwnOfferChanges
<1>12. ASSUME g.at \in Unwritten, CountsFit, Unclaim(o), UNCHANGED line, units' = [units EXCEPT ![o] = 0],
              NEW h \in Haggle, req' = [req EXCEPT ![c] = h], h.at = "idle" \/ h.o = o,
              h.at \notin Past, \A row, l, u : HaggleFits(h, row, l, u)
       PROVE  NegotiationInv'
  <2>1. old.status = "checked-out" /\ old.session = FALSE /\ line[o] = "none" /\ g.at \in Past
    BY <1>4, <1>12 DEF HaggleFits, Past, Unwritten, Offer
  <2>2. ASSUME NEW row \in Offer, offer' = [offer EXCEPT ![o] = row], row.terms = old.terms,
               row.status \in {"accepted", "checked-out"}, row.session = FALSE
        PROVE  NegotiationInv'
    <3>1. OfferFits(row, line[o], 0)
      BY <1>5, <2>1, <2>2 DEF OfferFits
    <3>2. MovesOn(offer[o], row)
      BY <1>3, <2>1, <2>2 DEF MovesOn
    <3>3. line' = [line EXCEPT ![o] = line[o]]
      BY <1>7, <1>12
    <3>4. Becomes(c, h, o, row, line[o], 0)
      BY <1>12, <2>2, <3>3 DEF Becomes
    <3>5. CountsFit /\ HaggleFits(h, row, line[o], 0) /\ req[c].at \in Past /\ o = req[c].o
      BY <1>1, <1>2, <1>12, <2>1
    <3>6. (h.at = "idle" \/ h.o = o) /\ line[o] \in {"none", "written"} /\ 0 \in Nat
      BY <1>7, <1>12
    <3>7. req[c].at \in Past \/ offer[o].status # "checked-out"
      BY <3>5
    <3> QED BY <2>2, <3>1, <3>2, <3>4, <3>5, <3>6, <3>7, OwnOfferChanges, SMTT(30)
  <2>3. CASE ReleaseOfferCheckout(o)
    <3> DEFINE row == [old EXCEPT !.status = "accepted"]
    <3>1. row \in Offer /\ row.status = "accepted" /\ row.terms = old.terms
      BY DEF Offer
    <3>2. row.session = FALSE
      BY <2>1 DEF Offer
    <3>3. offer' = [offer EXCEPT ![o] = row]
      BY <1>3, <2>1, <2>3 DEF ReleaseOfferCheckout
    <3> HIDE DEF row
    <3> QED BY <2>2, <3>1, <3>2, <3>3
  <2>4. CASE UNCHANGED offer
    BY <1>7, <2>1, <2>2, <2>4
  <2> QED BY <1>12, <2>3, <2>4 DEF Unclaim
<1>13. CASE ClaimOfferCheckout(c)
  <2>1. g.at = "claim" /\ UNCHANGED <<line, units>> /\ CountsFit
    BY <1>1, <1>13 DEF ClaimOfferCheckout, CountsFit
  <2>2. CASE UNCHANGED offer /\ End(c)
    BY <1>10, <2>1, <2>2
  <2>3. CASE old.status = "accepted" /\ To(c, "reserve") /\ offer' = [offer EXCEPT ![o].status = "checked-out"]
    <3> DEFINE row == [old EXCEPT !.status = "checked-out"]
    <3>1. line[o] = "none" /\ units[o] = 0 /\ old.session = FALSE /\ g.row.terms = old.terms
      BY <1>4, <2>1, <2>3 DEF HaggleFits, OfferFits, Offer
    <3>2. row \in Offer /\ row.status = "checked-out" /\ row.terms = old.terms
      BY DEF Offer
    <3>3. row.session = FALSE
      BY <3>1 DEF Offer
    <3>4. offer' = [offer EXCEPT ![o] = row]
      BY <1>3, <2>3
    <3> HIDE DEF row
    <3>5. PICK h \in Haggle : /\ req' = [req EXCEPT ![c] = h] /\ h.at = "reserve" /\ h.o = o
                              /\ h.row = g.row /\ h.op = g.op
      BY <1>9, <2>3 DEF Past
    <3>6. HaggleFits(h, row, "none", 0)
      BY <1>4, <2>1, <3>1, <3>2, <3>3, <3>5 DEF HaggleFits, Past, ReservedAt, Unwritten
    <3>7. OfferFits(row, "none", 0) /\ MovesOn(old, row)
      BY <1>5, <2>3, <3>2 DEF OfferFits, MovesOn
    <3>8. line' = [line EXCEPT ![o] = "none"] /\ units' = [units EXCEPT ![o] = 0]
      BY <2>1, <3>1
    <3>9. Becomes(c, h, o, row, "none", 0)
      BY <3>4, <3>5, <3>8 DEF Becomes
    <3> QED BY <1>1, <1>2, <1>3, <2>1, <2>3, <3>2, <3>5, <3>6, <3>7, <3>9, OwnOfferChanges
  <2> QED BY <1>1, <1>2, <1>3, <1>13, <2>2, <2>3 DEF ClaimOfferCheckout, ClaimOfferCheckoutLands
<1>14. CASE ReserveUnits(c)
  <2>1. g.at = "reserve" /\ UNCHANGED line /\ CountsFit
    BY <1>1, <1>14 DEF ReserveUnits, CountsFit
  <2>2. units[o] = 0 /\ units = [units EXCEPT ![o] = 0]
    BY <1>4, <1>7, <2>1 DEF HaggleFits
  <2>3. CASE Unclaim(o) /\ End(c) /\ UNCHANGED units
    <3>1. req' = [req EXCEPT ![c] = NoReq]
      BY <2>3 DEF End
    <3> QED BY <1>6, <1>12, <2>1, <2>2, <2>3, <3>1, IdleFits DEF Unwritten
  <2>4. CASE To(c, "quote") /\ UNCHANGED offer /\ units' = [units EXCEPT ![o] = @ + g.row.terms.quantity]
    <3> DEFINE u == g.row.terms.quantity
    <3>1. units' = [units EXCEPT ![o] = u]
      <4>1. units[o] + u = u
        BY <1>5, <2>2
      <4> QED BY <2>4, <4>1
    <3>2. PICK h \in Haggle : /\ req' = [req EXCEPT ![c] = h] /\ h.at = "quote" /\ h.o = o
                              /\ h.row = g.row /\ h.op = g.op
      BY <1>9, <2>4 DEF Past
    <3>3. HaggleFits(h, old, line[o], u)
      BY <1>4, <2>1, <3>2 DEF HaggleFits, Past, ReservedAt, Unwritten
    <3>4. OfferFits(old, line[o], u)
      BY <1>4, <1>5, <2>1 DEF OfferFits, HaggleFits, Past
    <3>5. line' = [line EXCEPT ![o] = line[o]] /\ offer' = [offer EXCEPT ![o] = old] /\ g.at \in Past
      BY <1>7, <2>1, <2>4 DEF Past
    <3> HIDE DEF u
    <3>6. u \in Nat
      BY <1>5 DEF u
    <3>7. Becomes(c, h, o, old, line[o], u)
      BY <3>1, <3>2, <3>5 DEF Becomes
    <3> QED BY <1>1, <1>2, <1>3, <1>7, <1>8, <2>1, <3>2, <3>3, <3>4, <3>5, <3>6, <3>7, OwnOfferChanges
  <2> QED BY <1>1, <1>2, <1>14, <2>3, <2>4 DEF ReserveUnits
<1>15. ASSUME g.at \in {"quote", "open", "insert"}, Release(c), UNCHANGED line, CountsFit PROVE NegotiationInv'
  <2>1. units[o] = g.row.terms.quantity /\ Unclaim(o) /\ To(c, "release")
        /\ units' = [units EXCEPT ![o] = @ - g.row.terms.quantity]
    BY <1>1, <1>2, <1>4, <1>15 DEF Release, HaggleFits, ReservedAt
  <2>2. units' = [units EXCEPT ![o] = 0]
    <3>1. units[o] - g.row.terms.quantity = 0
      BY <1>5, <2>1
    <3> QED BY <2>1, <3>1
  <2>3. PICK h \in Haggle : /\ req' = [req EXCEPT ![c] = h] /\ h.at = "release" /\ h.o = o
                            /\ h.row = g.row /\ h.op = g.op
    BY <1>9, <2>1
  <2>4. g.op # "none" /\ g.at \in Unwritten /\ h.at \notin Past
    BY <1>4, <1>15, <2>3 DEF HaggleFits, Unwritten, Past
  <2>5. \A row, l, u : HaggleFits(h, row, l, u)
    BY <2>3, <2>4, ReleasingFits
  <2> QED BY <1>12, <1>15, <2>1, <2>2, <2>3, <2>4, <2>5
<1>16. ASSUME Release(c), UNCHANGED <<revised, sessions, run, expiring>> PROVE CountsFit
  BY <1>16 DEF Release, CountsFit
<1>17. CASE QuoteShipping(c)
  <2>1. g.at = "quote" /\ UNCHANGED <<revised, line, sessions, run, expiring>>
    BY <1>1, <1>17 DEF QuoteShipping
  <2>2. CASE Release(c)
    BY <1>15, <1>16, <2>1, <2>2
  <2>3. CASE To(c, "open") /\ UNCHANGED <<offer, units, haggleFailures>>
    <3>1. CountsFit /\ line' = [line EXCEPT ![o] = line[o]]
      BY <1>7, <2>1, <2>3 DEF CountsFit
    <3>2. line[o] = "none" /\ g.at \in Past /\ g.at \in ReservedAt /\ "open" \in ReservedAt
      BY <1>4, <2>1 DEF HaggleFits, Unwritten, Past, ReservedAt
    <3> QED BY <1>7, <1>11, <2>3, <3>1, <3>2
  <2> QED BY <1>17, <2>2, <2>3 DEF QuoteShipping
<1>18. CASE OpenCheckout(c)
  <2>1. g.at = "open" /\ UNCHANGED <<revised, line, run, expiring>>
    BY <1>1, <1>18 DEF OpenCheckout
  <2>2. CASE Release(c) /\ UNCHANGED sessions
    BY <1>15, <1>16, <2>1, <2>2
  <2>3. CASE To(c, "insert") /\ UNCHANGED <<offer, units, haggleFailures>>
             /\ sessions' = [sessions EXCEPT ![g.o] = @ + 1]
    <3>1. CountsFit /\ line' = [line EXCEPT ![o] = line[o]]
      BY <1>2, <1>7, <2>1, <2>3 DEF CountsFit
    <3>2. line[o] = "none" /\ g.at \in Past /\ g.at \in ReservedAt /\ "insert" \in ReservedAt
      BY <1>4, <2>1 DEF HaggleFits, Unwritten, Past, ReservedAt
    <3> QED BY <1>7, <1>11, <2>3, <3>1, <3>2
  <2> QED BY <1>1, <1>18, <2>2, <2>3 DEF OpenCheckout
<1>19. CASE InsertItems(c)
  <2>1. g.at = "insert" /\ UNCHANGED <<revised, sessions, run, expiring>>
    BY <1>1, <1>19 DEF InsertItems
  <2>2. CASE Release(c) /\ UNCHANGED line
    BY <1>15, <1>16, <2>1, <2>2
  <2>3. CASE line' = [line EXCEPT ![o] = "written"] /\ To(c, "attach") /\ UNCHANGED <<offer, units, haggleFailures>>
    <3>1. CountsFit /\ g.at \in Past /\ g.at \in ReservedAt /\ "attach" \in ReservedAt /\ "attach" \notin Unwritten
      BY <2>1, <2>3 DEF CountsFit, Past, ReservedAt, Unwritten
    <3> QED BY <1>11, <2>3, <3>1
  <2> QED BY <1>1, <1>2, <1>19, <2>2, <2>3 DEF InsertItems
<1>20. CASE AttachOfferSession(c)
  <2>1. g.at = "attach" /\ UNCHANGED <<revised, line, units, sessions, run, expiring>> /\ End(c) /\ CountsFit
    BY <1>1, <1>20 DEF AttachOfferSession, CountsFit
  <2>2. CASE UNCHANGED offer
    BY <1>10, <2>1, <2>2
  <2>3. CASE offer' = [offer EXCEPT ![o].session = TRUE]
    <3> DEFINE row == [old EXCEPT !.session = TRUE]
    <3>1. old.status = "checked-out" /\ g.at \in Past
      BY <1>4, <2>1 DEF HaggleFits, Past
    <3>2. row \in Offer /\ row.status = "checked-out" /\ row.terms = old.terms
      BY <3>1 DEF Offer
    <3>3. offer' = [offer EXCEPT ![o] = row]
      BY <1>3, <2>3
    <3> HIDE DEF row
    <3>4. OfferFits(row, line[o], units[o]) /\ MovesOn(old, row)
      BY <1>4, <3>1, <3>2 DEF OfferFits, MovesOn
    <3>5. /\ req' = [req EXCEPT ![c] = NoReq] /\ line' = [line EXCEPT ![o] = line[o]]
          /\ units' = [units EXCEPT ![o] = units[o]]
      BY <1>7, <2>1 DEF End
    <3>6. Becomes(c, NoReq, o, row, line[o], units[o])
      BY <3>3, <3>5 DEF Becomes
    <3> QED BY <1>1, <1>2, <1>3, <1>6, <1>7, <2>1, <3>1, <3>2, <3>4, <3>6, IdleFits, OwnOfferChanges
  <2> QED BY <1>1, <1>2, <1>20, <2>2, <2>3 DEF AttachOfferSession
<1>21. CASE Crash(c)
  <2>1. CountsFit /\ UNCHANGED <<offer, line, units>> /\ End(c)
    BY <1>21 DEF Crash, CountsFit
  <2> QED BY <1>10, <2>1
<1>22. CASE ReleaseUnits(c)
  <2>1. CountsFit /\ UNCHANGED <<offer, line, units>> /\ End(c)
    BY <1>22 DEF ReleaseUnits, CountsFit
  <2> QED BY <1>10, <2>1
<1> QED BY <1>13, <1>14, <1>17, <1>18, <1>19, <1>20, <1>21, <1>22
\* Every step of the negotiation keeps the invariant.
LEMMA NegotiationInvKept == NegotiationInv /\ [NegotiationNext]_negotiationVars => NegotiationInv'
<1> SUFFICES ASSUME NegotiationInv, [NegotiationNext]_negotiationVars PROVE NegotiationInv'
  OBVIOUS
<1>1. CASE UNCHANGED negotiationVars
  BY <1>1, NegotiationTypes, CountsMove DEF negotiationVars, CountsFit
<1>2. CASE NegotiationNext
  BY <1>2, DeadlinesKeep, HagglingBegins, SaveTermsKeeps, CheckoutKeeps DEF NegotiationNext
<1> QED BY <1>1, <1>2

\* No offer is made yet.
LEMMA NegotiationInvFirst == NegotiationInit => NegotiationInv
<1> SUFFICES ASSUME NegotiationInit PROVE NegotiationInv
  OBVIOUS
<1>1. HaggleKinds
  BY NegotiationKinds, NegotiationAssumption DEF NegotiationInit, HaggleKinds
<1>2. ASSUME NEW o \in Offers PROVE OfferFits(offer[o], line[o], units[o])
  <2>1. NoOffer.terms \in Terms /\ NoOffer.terms.quantity \in Nat
    BY NegotiationKinds DEF Offer
  <2> QED BY <2>1, NegotiationKinds DEF NegotiationInit, OfferFits
<1>3. \A c \in Hagglers : HaggleFits(req[c], offer[req[c].o], line[req[c].o], units[req[c].o])
  BY IdleFits DEF NegotiationInit
<1>4. \A c \in Hagglers, o \in Offers : ~Holding(c, o)
  BY NegotiationKinds DEF NegotiationInit, Holding, Past
<1> QED BY <1>1, <1>2, <1>3, <1>4 DEF NegotiationInv

\* Behind the claim a request is alone, and the row says so.
LEMMA OneCheckout == NegotiationInv /\ LeftOversFit => NegotiationTypeOK /\ OneCheckoutPerNegotiation
<1>0. NegotiationInv /\ LeftOversFit => NegotiationTypeOK
  BY NegotiationKinds DEF NegotiationInv, LeftOversFit
<1> SUFFICES ASSUME NegotiationInv, LeftOversFit, NEW o \in Offers
             PROVE  /\ Cardinality(PastClaim(o)) <= 1
                    /\ PastClaim(o) # {} \/ line[o] = "written" \/ offer[o].session => offer[o].status = "checked-out"
                    /\ units[o] <= offer[o].terms.quantity
                    /\ \A c \in Hagglers : leftOver[o][c] > 0 => haggleFailures > 0
  BY <1>0 DEF OneCheckoutPerNegotiation
<1>1. OfferFits(offer[o], line[o], units[o])
  BY DEF NegotiationInv
<1>2. \A b \in PastClaim(o) : Holding(b, o) /\ b \in Hagglers
  BY DEF PastClaim, Holding, Past
<1>3. ASSUME NEW b \in PastClaim(o) PROVE offer[o].status = "checked-out" /\ PastClaim(o) = {b}
  BY <1>2 DEF NegotiationInv, HaggleFits, Holding
<1>4. Cardinality(PastClaim(o)) <= 1
  <2>1. CASE PastClaim(o) = {}
    BY <2>1, FS_EmptySet
  <2>2. ASSUME NEW b \in PastClaim(o) PROVE Cardinality(PastClaim(o)) = 1
    BY <1>3, FS_Singleton
  <2> QED BY <2>1, <2>2
<1> QED BY <1>1, <1>3, <1>4 DEF OfferFits, LeftOversFit

\* Requests that hand nothing back leave the left-overs alone.
LEMMA LeftOversStay ==
  ASSUME LeftOversFit, leftOver' = leftOver, haggleFailures' \in Nat, haggleFailures \in Nat,
         haggleFailures' >= haggleFailures,
         \A c \in Hagglers : req'[c] = req[c] \/ req'[c].at # "release"
  PROVE  LeftOversFit'
BY DEF LeftOversFit

\* What a failed checkout leaves is its own, and it hands back no more.
LEMMA LeftOversKept ==
  ASSUME NegotiationInv, LeftOversFit, [NegotiationNext]_negotiationVars
  PROVE  LeftOversFit'
<1> USE NegotiationTypes
<1>1. leftOver \in [Offers -> [Hagglers -> Nat]] /\ haggleFailures \in Nat
  BY DEF LeftOversFit
<1>2. CASE UNCHANGED negotiationVars
  BY <1>1, <1>2, LeftOversStay DEF negotiationVars
<1>3. ASSUME NEW c \in Hagglers, NEW h, h.at # "release", req' = [req EXCEPT ![c] = h], leftOver' = leftOver,
             haggleFailures' = haggleFailures \/ haggleFailures' = haggleFailures + 1
      PROVE  LeftOversFit'
  <2>1. \A d \in Hagglers : req'[d] = req[d] \/ req'[d].at # "release"
    BY <1>3
  <2> QED BY <1>1, <1>3, <2>1, LeftOversStay
<1>4. ASSUME NEW c \in Hagglers, End(c), leftOver' = leftOver,
             haggleFailures' = haggleFailures \/ haggleFailures' = haggleFailures + 1
      PROVE  LeftOversFit'
  <2>1. req' = [req EXCEPT ![c] = NoReq] /\ NoReq.at # "release"
    BY <1>4, NegotiationKinds DEF End
  <2> QED BY <1>3, <1>4, <2>1
<1>5. ASSUME NEW c \in Hagglers, NEW step, step # "release", To(c, step), leftOver' = leftOver,
             haggleFailures' = haggleFailures
      PROVE  LeftOversFit'
  <2> DEFINE h == [req[c] EXCEPT !.at = step]
  <2>1. req[c] \in Haggle
    OBVIOUS
  <2>2. h.at = step /\ req' = [req EXCEPT ![c] = h]
    BY <1>5, <2>1 DEF To, Haggle
  <2> HIDE DEF h
  <2> QED BY <1>3, <1>5, <2>2
<1>6. ASSUME NEW c \in Hagglers, NEW op, NEW at, NEW o, NEW row, at # "release", BeginHaggle(c, op, at, o, row),
             leftOver' = leftOver, haggleFailures' = haggleFailures
      PROVE  LeftOversFit'
  <2> DEFINE h == [op |-> op, at |-> at, o |-> o, row |-> row]
  <2>1. h.at = at /\ req' = [req EXCEPT ![c] = h]
    BY <1>6 DEF BeginHaggle
  <2> HIDE DEF h
  <2> QED BY <1>3, <1>6, <2>1
<1>7. ASSUME leftOver' = leftOver, req' = req, haggleFailures' = haggleFailures PROVE LeftOversFit'
  BY <1>1, <1>7, LeftOversStay
<1>8. ASSUME NEW c \in Hagglers, Release(c) PROVE LeftOversFit'
  <2>1. PICK g \in Haggle : g = req[c]
    OBVIOUS
  <2>2. PICK n \in Nat : n = g.row.terms.quantity
    BY NegotiationKinds DEF Haggle, Offer
  <2>3. PICK o \in Offers : o = g.o
    BY DEF Haggle
  <2>4. /\ leftOver' = [leftOver EXCEPT ![o][c] = @ + n] /\ haggleFailures' = haggleFailures + 1
        /\ To(c, "release")
    BY <1>8, <2>1, <2>2, <2>3 DEF Release
  <2> DEFINE h == [g EXCEPT !.at = "release"]
  <2>5. h.o = o /\ h.row.terms.quantity = n
    BY <2>1, <2>2, <2>3 DEF Haggle
  <2>6. \A d \in Hagglers : req'[d] = IF d = c THEN h ELSE req[d]
    BY <2>1, <2>4 DEF To
  <2> HIDE DEF h
  <2>7. leftOver[o] \in [Hagglers -> Nat] /\ leftOver[o][c] \in Nat
    BY <1>1
  <2>8. leftOver' \in [Offers -> [Hagglers -> Nat]]
    BY <1>1, <2>4, <2>7
  <2>9. /\ leftOver'[o][c] = leftOver[o][c] + n
        /\ \A p \in Offers, d \in Hagglers : p # o \/ d # c => leftOver'[p][d] = leftOver[p][d]
    BY <1>1, <2>4
  <2>10. \A d \in Hagglers : req'[d].at = "release" => leftOver'[req'[d].o][d] >= req'[d].row.terms.quantity
    <3> SUFFICES ASSUME NEW d \in Hagglers, req'[d].at = "release"
                 PROVE  leftOver'[req'[d].o][d] >= req'[d].row.terms.quantity
      OBVIOUS
    <3>1. CASE d = c
      BY <2>2, <2>5, <2>6, <2>7, <2>9, <3>1
    <3>2. CASE d # c
      <4>1. req'[d] = req[d] /\ req[d].o \in Offers
        BY <2>6, <3>2 DEF Haggle
      <4> QED BY <2>9, <3>2, <4>1 DEF LeftOversFit
    <3> QED BY <3>1, <3>2
  <2>11. haggleFailures' > 0
    BY <1>1, <2>4
  <2> QED BY <2>8, <2>10, <2>11 DEF LeftOversFit
<1>9. ASSUME NEW c \in Hagglers, ReleaseUnits(c) PROVE LeftOversFit'
  <2>1. PICK g \in Haggle : g = req[c]
    OBVIOUS
  <2>2. PICK n \in Nat : n = g.row.terms.quantity
    BY NegotiationKinds DEF Haggle, Offer
  <2>3. PICK o \in Offers : o = g.o
    BY DEF Haggle
  <2>4. End(c) /\ haggleFailures' = haggleFailures /\ g.at = "release"
    BY <1>9, <2>1 DEF ReleaseUnits
  <2>5. CASE leftOver' = leftOver
    BY <1>4, <2>4, <2>5
  <2>6. CASE leftOver' = [leftOver EXCEPT ![o][c] = @ - n]
    <3>1. leftOver[o] \in [Hagglers -> Nat] /\ leftOver[o][c] \in Nat /\ leftOver[o][c] >= n
      BY <1>1, <2>1, <2>2, <2>3, <2>4 DEF LeftOversFit
    <3>2. leftOver[o][c] - n \in Nat /\ leftOver[o][c] - n <= leftOver[o][c]
      BY <3>1
    <3>3. leftOver' \in [Offers -> [Hagglers -> Nat]]
      BY <1>1, <2>6, <3>1, <3>2
    <3>4. /\ leftOver'[o][c] = leftOver[o][c] - n
          /\ \A p \in Offers, d \in Hagglers : p # o \/ d # c => leftOver'[p][d] = leftOver[p][d]
      BY <1>1, <2>6
    <3>5. \A d \in Hagglers : req'[d] = IF d = c THEN NoReq ELSE req[d]
      BY <2>4 DEF End
    <3>6. \A d \in Hagglers : req'[d].at = "release" => leftOver'[req'[d].o][d] >= req'[d].row.terms.quantity
      <4> SUFFICES ASSUME NEW d \in Hagglers, req'[d].at = "release"
                   PROVE  leftOver'[req'[d].o][d] >= req'[d].row.terms.quantity
        OBVIOUS
      <4>1. d # c
        BY <3>5, NegotiationKinds
      <4>2. req'[d] = req[d] /\ req[d].o \in Offers
        BY <3>5, <4>1 DEF Haggle
      <4> QED BY <3>4, <4>1, <4>2 DEF LeftOversFit
    <3>7. \A p \in Offers : \A d \in Hagglers : leftOver'[p][d] > 0 => haggleFailures' > 0
      <4> SUFFICES ASSUME NEW p \in Offers, NEW d \in Hagglers, leftOver'[p][d] > 0 PROVE leftOver[p][d] > 0
        BY <2>4 DEF LeftOversFit
      <4>1. CASE p = o /\ d = c
        BY <3>1, <3>2, <3>4, <4>1
      <4>2. CASE p # o \/ d # c
        BY <3>4, <4>2
      <4> QED BY <4>1, <4>2
    <3> QED BY <3>3, <3>6, <3>7 DEF LeftOversFit
  <2> QED BY <1>9, <2>1, <2>2, <2>3, <2>5, <2>6 DEF ReleaseUnits
<1>10. ASSUME NEW o \in Offers, NEW t \in Terms, CreateOffer(o, t) PROVE LeftOversFit'
  BY <1>7, <1>10 DEF CreateOffer
<1>11. ASSUME NEW c \in Hagglers, NEW a \in Actors, NEW o \in Offers,
              \/ \E t \in Terms : CounterOffer(c, a, o, t)
              \/ AcceptOffer(c, a, o) \/ CancelOffer(c, a, o) \/ CheckoutOffer(c, a, o)
       PROVE  LeftOversFit'
  BY <1>6, <1>11 DEF CounterOffer, AcceptOffer, CancelOffer, CheckoutOffer
<1>12. ASSUME NEW c \in Hagglers, SaveTerms(c) PROVE LeftOversFit'
  BY <1>4, <1>12 DEF SaveTerms
<1>13. ASSUME NEW c \in Hagglers, ClaimOfferCheckout(c) PROVE LeftOversFit'
  BY <1>4, <1>5, <1>13 DEF ClaimOfferCheckout
<1>14. ASSUME NEW c \in Hagglers, ReserveUnits(c) PROVE LeftOversFit'
  BY <1>4, <1>5, <1>14 DEF ReserveUnits
<1>15. ASSUME NEW c \in Hagglers, QuoteShipping(c) \/ OpenCheckout(c) \/ InsertItems(c) PROVE LeftOversFit'
  BY <1>5, <1>8, <1>15 DEF QuoteShipping, OpenCheckout, InsertItems
<1>16. ASSUME NEW c \in Hagglers, AttachOfferSession(c) \/ Crash(c) PROVE LeftOversFit'
  BY <1>4, <1>16 DEF AttachOfferSession, Crash
<1>17. ASSUME NEW o \in Offers, Lapse(o) \/ OfferRun(o) PROVE LeftOversFit'
  BY <1>7, <1>17 DEF Lapse, OfferRun
<1>18. ASSUME ExpireOffers \/ \E x \in expiring : SaveExpired(x) PROVE LeftOversFit'
  BY <1>7, <1>18 DEF ExpireOffers, SaveExpired
<1> QED BY <1>2, <1>9, <1>10, <1>11, <1>12, <1>13, <1>14, <1>15, <1>16, <1>17, <1>18 DEF NegotiationNext

\* No checkout has failed yet.
LEMMA LeftOversFirst == NegotiationInit => LeftOversFit
<1>1. NoReq.at # "release"
  BY NegotiationKinds
<1> QED BY <1>1 DEF NegotiationInit, LeftOversFit

\* How a row may change: an open one by terms somebody decided on, an agreed one by
\* the claim, its release and the session, and either by the deadline.
RowMoves(old, row) ==
  \/ row = old
  \/ old.status = "none" /\ row.status = "active" /\ ~old.session
  \/ old.status = "active" /\ BelowAsking(row.terms) /\ row.terms \in Terms /\ ~old.session
  \/ /\ old.status \in {"accepted", "checked-out"} /\ ~old.session
     /\ row.status \in {"accepted", "checked-out"} /\ row.terms = old.terms /\ row.author = old.author
  \/ /\ old.status \in {"active", "accepted"} /\ ~old.session
     /\ row.status = old.status /\ row.terms = old.terms /\ row.author = old.author
  \/ old.status \in {"active", "accepted"} /\ ~old.session /\ row.status = "cancelled"

\* Every step moves every row so.
LEMMA RowsMove ==
  ASSUME NegotiationInv, [NegotiationNext]_negotiationVars, NEW p \in Offers
  PROVE  RowMoves(offer[p], offer'[p])
<1> USE NegotiationTypes
<1>1. \A o \in Offers : offer[o] \in Offer /\ (offer[o].status # "checked-out" => ~offer[o].session)
  BY DEF NegotiationInv, OfferFits
<1>2. ASSUME UNCHANGED offer PROVE RowMoves(offer[p], offer'[p])
  BY <1>2 DEF RowMoves
<1>3. ASSUME NEW o \in Offers, NEW row, offer' = [offer EXCEPT ![o] = row], RowMoves(offer[o], row)
      PROVE  RowMoves(offer[p], offer'[p])
  BY <1>3 DEF RowMoves
<1>4. ASSUME NEW o \in Offers, NEW t \in Terms, CreateOffer(o, t) PROVE RowMoves(offer[p], offer'[p])
  <2>1. offer[o].status = "none" /\ offer' = [offer EXCEPT ![o] = NewOffer(t)]
    BY <1>4 DEF CreateOffer
  <2>2. RowMoves(offer[o], NewOffer(t))
    BY <1>1, <2>1 DEF RowMoves, NewOffer
  <2> QED BY <1>3, <2>1, <2>2
<1>5. ASSUME NEW c \in Hagglers, NEW a \in Actors, NEW o \in Offers,
             \/ \E t \in Terms : CounterOffer(c, a, o, t)
             \/ AcceptOffer(c, a, o) \/ CancelOffer(c, a, o) \/ CheckoutOffer(c, a, o)
      PROVE  UNCHANGED offer
  BY <1>5 DEF CounterOffer, AcceptOffer, CancelOffer, CheckoutOffer
<1>6. ASSUME NEW c \in Hagglers, SaveTerms(c) PROVE RowMoves(offer[p], offer'[p])
  <2>1. PICK g \in Haggle : g = req[c]
    OBVIOUS
  <2>2. CASE offer[g.o].status = "active" /\ SaveOffer(g.o, g.row)
    <3> DEFINE row == [g.row EXCEPT !.session = offer[g.o].session]
    <3>1. g.o \in Offers /\ g.row \in Offer
      BY DEF Haggle
    <3>2. BelowAsking(g.row.terms) /\ g.row.terms \in Terms
      <4>1. g.at = "save"
        BY <1>6, <2>1 DEF SaveTerms
      <4> QED BY <2>1, <3>1, <4>1 DEF NegotiationInv, HaggleFits, Offer
    <3>3. row.terms = g.row.terms
      BY <3>1 DEF Offer
    <3>4. offer' = [offer EXCEPT ![g.o] = row]
      BY <2>2 DEF SaveOffer
    <3> HIDE DEF row
    <3>5. RowMoves(offer[g.o], row)
      BY <1>1, <2>2, <3>1, <3>2, <3>3 DEF RowMoves
    <3> QED BY <1>3, <3>1, <3>4, <3>5
  <2> QED BY <1>2, <1>6, <2>1, <2>2 DEF SaveTerms, SaveOfferLands
<1>7. ASSUME NEW c \in Hagglers, ClaimOfferCheckout(c) PROVE RowMoves(offer[p], offer'[p])
  <2>1. PICK o \in Offers : o = req[c].o
    BY DEF Haggle
  <2>2. CASE offer[o].status = "accepted" /\ offer' = [offer EXCEPT ![o].status = "checked-out"]
    <3> DEFINE row == [offer[o] EXCEPT !.status = "checked-out"]
    <3>1. row.status = "checked-out" /\ row.terms = offer[o].terms /\ row.author = offer[o].author
      BY <1>1 DEF Offer
    <3>2. offer' = [offer EXCEPT ![o] = row]
      BY <2>2
    <3> HIDE DEF row
    <3>3. RowMoves(offer[o], row)
      BY <1>1, <2>2, <3>1 DEF RowMoves
    <3> QED BY <1>3, <3>2, <3>3
  <2> QED BY <1>2, <1>7, <2>1, <2>2 DEF ClaimOfferCheckout, ClaimOfferCheckoutLands
<1>8. ASSUME NEW o \in Offers, ReleaseOfferCheckout(o) PROVE RowMoves(offer[p], offer'[p])
  <2>1. CASE offer[o].status = "checked-out" /\ ~offer[o].session
    <3> DEFINE row == [offer[o] EXCEPT !.status = "accepted"]
    <3>1. row.status = "accepted" /\ row.terms = offer[o].terms /\ row.author = offer[o].author
      BY <1>1 DEF Offer
    <3>2. offer' = [offer EXCEPT ![o] = row]
      BY <1>8, <2>1 DEF ReleaseOfferCheckout
    <3> HIDE DEF row
    <3>3. RowMoves(offer[o], row)
      BY <2>1, <3>1 DEF RowMoves
    <3> QED BY <1>3, <3>2, <3>3
  <2> QED BY <1>2, <1>8, <2>1 DEF ReleaseOfferCheckout
<1>9. ASSUME NEW c \in Hagglers,
             \/ ReserveUnits(c) \/ QuoteShipping(c) \/ OpenCheckout(c) \/ InsertItems(c)
             \/ ReleaseUnits(c) \/ Crash(c)
      PROVE  RowMoves(offer[p], offer'[p])
  <2>1. PICK o \in Offers : o = req[c].o
    BY DEF Haggle
  <2>2. UNCHANGED offer \/ ReleaseOfferCheckout(o)
    BY <1>9, <2>1 DEF ReserveUnits, QuoteShipping, OpenCheckout, InsertItems, Crash, Release, ReleaseUnits, Unclaim
  <2> QED BY <1>2, <1>8, <2>2
<1>10. ASSUME NEW c \in Hagglers, AttachOfferSession(c) PROVE RowMoves(offer[p], offer'[p])
  <2>1. PICK o \in Offers : o = req[c].o
    BY DEF Haggle
  <2>2. CASE offer[o].status = "checked-out" /\ ~offer[o].session /\ offer' = [offer EXCEPT ![o].session = TRUE]
    <3> DEFINE row == [offer[o] EXCEPT !.session = TRUE]
    <3>1. row.status = offer[o].status /\ row.terms = offer[o].terms /\ row.author = offer[o].author
      BY <1>1 DEF Offer
    <3>2. offer' = [offer EXCEPT ![o] = row]
      BY <2>2
    <3> HIDE DEF row
    <3>3. RowMoves(offer[o], row)
      BY <2>2, <3>1 DEF RowMoves
    <3> QED BY <1>3, <3>2, <3>3
  <2> QED BY <1>2, <1>10, <2>1, <2>2 DEF AttachOfferSession, AttachOfferSessionLands
<1>11. ASSUME NEW o \in Offers, Lapse(o) PROVE RowMoves(offer[p], offer'[p])
  <2> DEFINE row == [offer[o] EXCEPT !.lapsed = TRUE]
  <2>1. row.status = offer[o].status /\ row.terms = offer[o].terms /\ row.author = offer[o].author
    BY <1>1 DEF Offer
  <2>2. offer' = [offer EXCEPT ![o] = row] /\ offer[o].status \in {"active", "accepted"}
    BY <1>11 DEF Lapse, expirableOffer
  <2> HIDE DEF row
  <2>3. RowMoves(offer[o], row)
    BY <1>1, <2>1, <2>2 DEF RowMoves
  <2> QED BY <1>3, <2>2, <2>3
<1>12. ASSUME NEW e \in expiring, SaveExpired(e) PROVE RowMoves(offer[p], offer'[p])
  <2>1. CASE SaveOfferLands(e.o, expirableOffer) /\ SaveOffer(e.o, [e.row EXCEPT !.status = "cancelled"])
    <3> DEFINE row == [[e.row EXCEPT !.status = "cancelled"] EXCEPT !.session = offer[e.o].session]
    <3>1. row.status = "cancelled" /\ e.o \in Offers
      BY DEF Offer
    <3>2. offer' = [offer EXCEPT ![e.o] = row] /\ offer[e.o].status \in {"active", "accepted"}
      BY <2>1 DEF SaveOffer, SaveOfferLands, expirableOffer
    <3> HIDE DEF row
    <3>3. RowMoves(offer[e.o], row)
      BY <1>1, <3>1, <3>2 DEF RowMoves
    <3> QED BY <1>3, <3>1, <3>2, <3>3
  <2> QED BY <1>2, <1>12, <2>1 DEF SaveExpired
<1>13. ASSUME ExpireOffers \/ (\E o \in Offers : OfferRun(o)) \/ UNCHANGED negotiationVars PROVE UNCHANGED offer
  BY <1>13 DEF ExpireOffers, OfferRun, negotiationVars
<1>14. CASE NegotiationNext
  BY <1>2, <1>4, <1>5, <1>6, <1>7, <1>9, <1>10, <1>11, <1>12, <1>13, <1>14 DEF NegotiationNext
<1> QED BY <1>2, <1>13, <1>14

\* No step of a row takes agreed terms back or opens what is closed.
LEMMA TermsStay == NegotiationInv /\ [NegotiationNext]_negotiationVars => AgreedTermsFrozen
<1> SUFFICES ASSUME NegotiationInv, [NegotiationNext]_negotiationVars, NEW o \in Offers
             PROVE  /\ offer[o].status \in {"accepted", "checked-out"} /\ offer'[o].status # "cancelled" =>
                         offer'[o].status # "active" /\ offer'[o].terms = offer[o].terms
                           /\ offer'[o].author = offer[o].author
                    /\ UnitPrice > 0 /\ offer[o].status = "active" /\ offer'[o].status = "accepted" =>
                         offer'[o].terms.total < UnitPrice * offer'[o].terms.quantity
                    /\ offer[o].session => offer'[o] = offer[o]
                    /\ offer[o].status = "cancelled" => offer'[o] = offer[o]
  BY DEF AgreedTermsFrozen
<1>1. RowMoves(offer[o], offer'[o])
  BY RowsMove
<1>2. offer[o].status \in {"accepted", "checked-out"} /\ offer'[o].status # "cancelled" =>
        offer'[o].status # "active" /\ offer'[o].terms = offer[o].terms /\ offer'[o].author = offer[o].author
  BY <1>1 DEF RowMoves
<1>3. offer[o].session => offer'[o] = offer[o]
  BY <1>1 DEF RowMoves
<1>4. offer[o].status = "cancelled" => offer'[o] = offer[o]
  BY <1>1 DEF RowMoves
<1>5. ASSUME UnitPrice > 0, offer[o].status = "active", offer'[o].status = "accepted"
      PROVE  offer'[o].terms.total < UnitPrice * offer'[o].terms.quantity
  <2>1. BelowAsking(offer'[o].terms) /\ offer'[o].terms \in Terms
    BY <1>1, <1>5 DEF RowMoves
  <2>2. offer'[o].terms.quantity # 0 /\ UnitPrice # 0
    BY <1>5, <2>1, NegotiationKinds, NegotiationAssumption
  <2> QED BY <2>1, <2>2 DEF BelowAsking
<1> QED BY <1>2, <1>3, <1>4, <1>5

\* One checkout at a time for a negotiation, with no more reserved for it than was
\* agreed: what else the catalog holds was left by a checkout that failed, whose units
\* go back after its claim or never (release()).  Agreed terms stay as agreed.
THEOREM NegotiationsStaySound == Spec => NegotiationHolds
<1> DEFINE I == part = "negotiation" => NegotiationInv /\ LeftOversFit
<1>1. Init => I
  BY NegotiationInvFirst, LeftOversFirst DEF Init
<1>2. I /\ [Next]_platformVars => I'
  BY MarketRuns, NegotiationInvKept, LeftOversKept
<1>3. I => (part = "negotiation" => NegotiationTypeOK /\ OneCheckoutPerNegotiation)
  BY OneCheckout
<1>4. I /\ [Next]_platformVars => [part = "negotiation" => AgreedTermsFrozen]_platformVars
  BY MarketRuns, TermsStay
<1> HIDE DEF I
<1> QED BY <1>1, <1>2, <1>3, <1>4, PTL DEF Spec, NegotiationHolds

-----------------------------------------------------------------------------
(* Payees and tax registrations *)

PayeeCall == [op : {"idle", "insert", "save", "insert-row", "save-row", "withdraw", "verdict"},
              bank : Banks \cup {NoBank}, isDefault : BOOLEAN, cleared : SUBSET Banks,
              filer : Filers \cup {NoBank}, status : {"none", "verified", "rejected"}]
CashOut == [bank : Banks \cup {NoBank}, live : BOOLEAN]
Verdicts == [1 .. MaxFilings -> 0 .. 2]

BanksOK == bank \in [Banks -> BankRow] /\ \A b, d \in Defaults : b = d

CallsOK ==
  /\ payeeCall \in [PayeeCallers -> PayeeCall]
  /\ \A c \in PayeeCallers : payeeCall[c].op = "verdict" =>
       payeeCall[c].filer \in Filers /\ payeeCall[c].status \in {"verified", "rejected"}

\* A filing the row has not reached is undecided, and so is one that is pending.
RowFiled(row, decided) ==
  /\ row.status # "none" => row.filing # 0
  /\ row.status = "pending" => decided[row.filing] = 0
  /\ row.status \in {"verified", "rejected"} => decided[row.filing] = 1
  /\ \A f \in 1 .. MaxFilings : decided[f] <= 1 /\ (f > row.filing => decided[f] = 0)

TaxesOK ==
  /\ tax \in [Filers -> TaxRow] /\ verdicts \in [Filers -> Verdicts]
  /\ \A a \in Filers : RowFiled(tax[a], verdicts[a])
  /\ \A a, o \in Filers : tax[a].status = "verified" /\ tax[o].status = "verified" /\ tax[a].code = tax[o].code
                          => a = o

PayeeInv == BanksOK /\ cashOut \in [Withdrawals -> CashOut] /\ CallsOK /\ TaxesOK

\* The invariant says all the properties say.
LEMMA PayeesAre == PayeeInv => PayeeTypeOK /\ PayeesSound /\ FilingDecidedOnce
<1> SUFFICES ASSUME PayeeInv PROVE PayeeTypeOK /\ PayeesSound /\ FilingDecidedOnce
  OBVIOUS
<1>1. PayeeTypeOK
  BY DEF PayeeInv, BanksOK, CallsOK, TaxesOK, PayeeTypeOK, PayeeCall, CashOut, Verdicts
<1>2. PayeesSound
  BY DEF PayeeInv, BanksOK, TaxesOK, PayeesSound
<1>3. FilingDecidedOnce
  BY DEF PayeeInv, TaxesOK, RowFiled, FilingDecidedOnce
<1> QED BY <1>1, <1>2, <1>3

\* Nothing is registered, asked for or filed yet.
LEMMA PayeeInvFirst == PayeeInit => PayeeInv
<1> SUFFICES ASSUME PayeeInit PROVE PayeeInv
  OBVIOUS
<1>1. BanksOK /\ cashOut \in [Withdrawals -> CashOut]
  BY DEF PayeeInit, BanksOK, Defaults, LiveBanks, BankRow, CashOut
<1>2. CallsOK
  BY DEF PayeeInit, CallsOK, NoPayeeCall, PayeeCall
<1>3. \A a \in Filers : /\ tax[a] = [code |-> NoCode, filing |-> 0, status |-> "none"]
                        /\ verdicts[a] = [f \in 1 .. MaxFilings |-> 0]
  BY DEF PayeeInit
<1>4. tax \in [Filers -> TaxRow] /\ verdicts \in [Filers -> Verdicts]
  <2>1. [code |-> NoCode, filing |-> 0, status |-> "none"] \in TaxRow
    BY PayeeAssumption DEF TaxRow
  <2>2. [f \in 1 .. MaxFilings |-> 0] \in Verdicts
    BY DEF Verdicts
  <2> QED BY <2>1, <2>2 DEF PayeeInit
<1>5. ASSUME NEW a \in Filers PROVE RowFiled(tax[a], verdicts[a]) /\ tax[a].status # "verified"
  <2>1. tax[a].status = "none"
    BY <1>3
  <2>2. verdicts[a] = [f \in 1 .. MaxFilings |-> 0]
    BY <1>3
  <2> QED BY <2>1, <2>2 DEF RowFiled
<1>6. TaxesOK
  BY <1>4, <1>5 DEF TaxesOK
<1> QED BY <1>1, <1>2, <1>6 DEF PayeeInv

\* The default moves in the write that claims it: the rows it clears and the row it
\* writes are all the defaults there are.
LEMMA BanksKept == PayeeInv /\ [PayeeNext]_payeeVars => BanksOK'
<1> SUFFICES ASSUME PayeeInv, [PayeeNext]_payeeVars PROVE BanksOK'
  OBVIOUS
<1>1. bank \in [Banks -> BankRow] /\ \A b, d \in Defaults : b = d
  BY DEF PayeeInv, BanksOK
<1>2. CASE UNCHANGED bank
  BY <1>1, <1>2 DEF BanksOK, Defaults, LiveBanks
<1>3. ASSUME NEW c \in PayeeCallers, WriteBankAccount(c), bank' # bank PROVE BanksOK'
  <2>1. PICK k \in PayeeCall : k = payeeCall[c]
    BY DEF PayeeInv, CallsOK
  <2>2. k.isDefault => Defaults \subseteq k.cleared \cup {k.bank}
    BY <1>3, <2>1 DEF WriteBankAccount, DefaultIndexAllows
  <2>3. bank' = [b \in Banks |->
                   IF b = k.bank THEN [state |-> "live", isDefault |-> k.isDefault]
                   ELSE IF b \in k.cleared THEN [bank[b] EXCEPT !.isDefault = FALSE]
                   ELSE bank[b]]
    BY <1>3, <2>1 DEF WriteBankAccount
  <2>4. bank' \in [Banks -> BankRow]
    <3>1. [state |-> "live", isDefault |-> k.isDefault] \in BankRow
      <4>1. k.isDefault \in BOOLEAN
        BY DEF PayeeCall
      <4> QED BY <4>1 DEF BankRow
    <3>2. ASSUME NEW b \in Banks PROVE [bank[b] EXCEPT !.isDefault = FALSE] \in BankRow
      <4>1. PICK old \in BankRow : old = bank[b]
        BY <1>1
      <4>2. [old EXCEPT !.isDefault = FALSE] \in BankRow
        BY DEF BankRow
      <4> QED BY <4>1, <4>2
    <3>3. \A b \in Banks : bank[b] \in BankRow
      BY <1>1
    <3> QED BY <2>3, <3>1, <3>2, <3>3
  <2>5. ASSUME NEW b \in Defaults'
        PROVE  /\ b \in Banks
               /\ (b = k.bank /\ k.isDefault) \/ (b \in Defaults /\ b \notin k.cleared /\ b # k.bank)
    BY <1>1, <2>3 DEF Defaults, LiveBanks, BankRow
  <2>6. ASSUME NEW b \in Defaults', NEW d \in Defaults' PROVE b = d
    BY <1>1, <2>2, <2>5
  <2> QED BY <2>4, <2>6 DEF BanksOK
<1>4. ASSUME NEW b \in Banks, DeleteBankAccount(b) PROVE BanksOK'
  <2>1. bank' = [bank EXCEPT ![b].state = "deleted"]
    BY <1>4 DEF DeleteBankAccount
  <2>2. bank' \in [Banks -> BankRow] /\ Defaults' \subseteq Defaults
    BY <1>1, <2>1 DEF BankRow, Defaults, LiveBanks
  <2> QED BY <1>1, <2>2 DEF BanksOK
<1> QED BY <1>2, <1>3, <1>4
    DEF PayeeNext, BankNext, TaxNext, CreateBankAccount, UpdateBankAccount, clearDefaultBankAccount,
        NameDestination, InsertWithdrawal, SettleWithdrawal, PayeeCallFails, PutTaxInfo,
        AdminVerifyTaxInfo, SaveTaxInfo, payeeVars

\* A call carries what it read; a verdict on its way is on an account that filed.
LEMMA CallsKept == PayeeInv /\ [PayeeNext]_payeeVars => CallsOK'
<1> SUFFICES ASSUME PayeeInv, [PayeeNext]_payeeVars PROVE CallsOK'
  OBVIOUS
<1>1. CallsOK
  BY DEF PayeeInv
<1>2. CASE UNCHANGED payeeCall
  BY <1>1, <1>2 DEF CallsOK
<1>3. ASSUME NEW c \in PayeeCallers, NEW k \in PayeeCall, payeeCall' = [payeeCall EXCEPT ![c] = k],
             k.op = "verdict" => k.filer \in Filers /\ k.status \in {"verified", "rejected"}
      PROVE  CallsOK'
  BY <1>1, <1>3 DEF CallsOK
<1>4. NoPayeeCall \in PayeeCall /\ NoPayeeCall.op # "verdict"
  BY DEF NoPayeeCall, PayeeCall
<1>5. ASSUME NEW c \in PayeeCallers, EndPayeeCall(c) PROVE CallsOK'
  BY <1>3, <1>4, <1>5 DEF EndPayeeCall
<1>6. ASSUME NEW c \in PayeeCallers, NEW b \in Banks, NEW op \in {"insert", "save"},
             NEW d \in BOOLEAN,
             payeeCall' = [payeeCall EXCEPT ![c] = [NoPayeeCall EXCEPT !.op = op, !.bank = b, !.isDefault = d]]
      PROVE  CallsOK'
  <2> DEFINE k == [NoPayeeCall EXCEPT !.op = op, !.bank = b, !.isDefault = d]
  <2>1. k \in PayeeCall /\ k.op # "verdict"
    BY DEF NoPayeeCall, PayeeCall
  <2> HIDE DEF k
  <2> QED BY <1>3, <1>6, <2>1 DEF k
<1>7. ASSUME NEW c \in PayeeCallers, NEW b \in Banks, NEW wanted \in BOOLEAN,
             CreateBankAccount(c, b, wanted) \/ UpdateBankAccount(c, b, wanted)
      PROVE  CallsOK'
  <2>1. (wanted \/ LiveBanks = {}) \in BOOLEAN
    OBVIOUS
  <2>2. CASE CreateBankAccount(c, b, wanted)
    <3> DEFINE d == wanted \/ LiveBanks = {}
    <3>1. payeeCall' = [payeeCall EXCEPT ![c] = [NoPayeeCall EXCEPT !.op = "insert", !.bank = b, !.isDefault = d]]
      BY <2>2 DEF CreateBankAccount
    <3>2. d \in BOOLEAN
      BY <2>1
    <3> HIDE DEF d
    <3> QED BY <1>6, <3>1, <3>2
  <2>3. CASE UpdateBankAccount(c, b, wanted)
    BY <1>6, <2>3 DEF UpdateBankAccount
  <2> QED BY <1>7, <2>2, <2>3
<1>8. ASSUME NEW c \in PayeeCallers, NEW b \in Banks, NameDestination(c, b) PROVE CallsOK'
  <2> DEFINE k == [NoPayeeCall EXCEPT !.op = "withdraw", !.bank = b]
  <2>1. k \in PayeeCall /\ k.op # "verdict"
    BY DEF NoPayeeCall, PayeeCall
  <2>2. payeeCall' = [payeeCall EXCEPT ![c] = k]
    BY <1>8 DEF NameDestination
  <2> HIDE DEF k
  <2> QED BY <1>3, <2>1, <2>2
<1>9. ASSUME NEW c \in PayeeCallers, clearDefaultBankAccount(c) PROVE CallsOK'
  <2>1. PICK k \in PayeeCall : k = payeeCall[c]
    BY <1>1 DEF CallsOK
  <2> DEFINE gone == IF k.isDefault THEN Defaults ELSE {}
             op == IF k.op = "insert" THEN "insert-row" ELSE "save-row"
             h == [k EXCEPT !.op = op, !.cleared = gone]
  <2>2. gone \subseteq Banks
    BY DEF Defaults, LiveBanks
  <2>3. h \in PayeeCall /\ h.op # "verdict"
    BY <2>2 DEF PayeeCall
  <2>4. payeeCall' = [payeeCall EXCEPT ![c] = h]
    BY <1>1, <1>9, <2>1 DEF clearDefaultBankAccount, CallsOK, PayeeCall
  <2> HIDE DEF h
  <2> QED BY <1>3, <2>3, <2>4
<1>10. ASSUME NEW c \in PayeeCallers, NEW a \in Filers, NEW status \in {"verified", "rejected"},
              AdminVerifyTaxInfo(c, a, status)
       PROVE  CallsOK'
  <2> DEFINE k == [NoPayeeCall EXCEPT !.op = "verdict", !.filer = a, !.status = status]
  <2>1. k \in PayeeCall /\ k.filer \in Filers /\ k.status \in {"verified", "rejected"}
    BY DEF NoPayeeCall, PayeeCall
  <2>2. payeeCall' = [payeeCall EXCEPT ![c] = k]
    BY <1>10 DEF AdminVerifyTaxInfo
  <2> HIDE DEF k
  <2> QED BY <1>3, <2>1, <2>2
<1> QED BY <1>2, <1>5, <1>7, <1>8, <1>9, <1>10
    DEF PayeeNext, BankNext, TaxNext, WriteBankAccount, DeleteBankAccount, InsertWithdrawal,
        SettleWithdrawal, PayeeCallFails, PutTaxInfo, SaveTaxInfo, payeeVars

\* A withdrawal names a destination once.
LEMMA CashOutsKept ==
  PayeeInv /\ [PayeeNext]_payeeVars => cashOut' \in [Withdrawals -> CashOut]
<1> SUFFICES ASSUME PayeeInv, [PayeeNext]_payeeVars PROVE cashOut' \in [Withdrawals -> CashOut]
  OBVIOUS
<1>1. cashOut \in [Withdrawals -> CashOut] /\ payeeCall \in [PayeeCallers -> PayeeCall]
  BY DEF PayeeInv, CallsOK
<1>2. ASSUME NEW c \in PayeeCallers, NEW w \in Withdrawals, InsertWithdrawal(c, w)
      PROVE  cashOut' \in [Withdrawals -> CashOut]
  <2>1. [bank |-> payeeCall[c].bank, live |-> TRUE] \in CashOut
    BY <1>1 DEF PayeeCall, CashOut
  <2> QED BY <1>1, <1>2, <2>1 DEF InsertWithdrawal
<1>3. ASSUME NEW w \in Withdrawals, SettleWithdrawal(w) PROVE cashOut' \in [Withdrawals -> CashOut]
  BY <1>1, <1>3 DEF SettleWithdrawal, CashOut
<1> QED BY <1>1, <1>2, <1>3
    DEF PayeeNext, BankNext, TaxNext, CreateBankAccount, UpdateBankAccount, clearDefaultBankAccount,
        WriteBankAccount, DeleteBankAccount, NameDestination, PayeeCallFails, PutTaxInfo,
        AdminVerifyTaxInfo, SaveTaxInfo, payeeVars

\* Only a pending filing is decided, and a verified code has no second holder.
LEMMA TaxesKept == PayeeInv /\ [PayeeNext]_payeeVars => TaxesOK'
<1> SUFFICES ASSUME PayeeInv, [PayeeNext]_payeeVars PROVE TaxesOK'
  OBVIOUS
<1>1. TaxesOK /\ MaxFilings \in Nat
  BY PayeeAssumption DEF PayeeInv
<1>2. CASE UNCHANGED <<tax, verdicts>>
  BY <1>1, <1>2 DEF TaxesOK
<1>3. ASSUME NEW a \in Filers, NEW row \in TaxRow, NEW decided \in Verdicts,
             tax' = [tax EXCEPT ![a] = row], verdicts' = [verdicts EXCEPT ![a] = decided],
             RowFiled(row, decided),
             row.status = "verified" =>
               \A o \in Filers \ {a} : ~(tax[o].status = "verified" /\ tax[o].code = row.code)
      PROVE  TaxesOK'
  <2>1. tax' \in [Filers -> TaxRow] /\ verdicts' \in [Filers -> Verdicts]
    BY <1>1, <1>3 DEF TaxesOK
  <2>2. \A o \in Filers : /\ tax'[o] = IF o = a THEN row ELSE tax[o]
                          /\ verdicts'[o] = IF o = a THEN decided ELSE verdicts[o]
    BY <1>1, <1>3 DEF TaxesOK
  <2>3. \A o \in Filers : RowFiled(tax'[o], verdicts'[o])
    BY <1>1, <1>3, <2>2 DEF TaxesOK
  <2>4. \A o, p \in Filers : tax'[o].status = "verified" /\ tax'[p].status = "verified" /\ tax'[o].code = tax'[p].code
                             => o = p
    BY <1>1, <1>3, <2>2 DEF TaxesOK
  <2>5. (\A o \in Filers : RowFiled(tax[o], verdicts[o]))'
    BY <2>3 DEF RowFiled
  <2> QED BY <2>1, <2>4, <2>5 DEF TaxesOK
<1>4. ASSUME NEW a \in Filers, NEW code \in TaxCodes, PutTaxInfo(a, code) PROVE TaxesOK'
  <2> DEFINE row == NewTaxInfo(tax[a], code)
  <2>1. tax[a] \in TaxRow /\ verdicts[a] \in Verdicts /\ RowFiled(tax[a], verdicts[a])
    BY <1>1 DEF TaxesOK
  <2>2. row \in TaxRow /\ row.status = "pending" /\ row.filing = tax[a].filing + 1
    BY <1>1, <1>4, <2>1 DEF PutTaxInfo, NewTaxInfo, TaxRow
  <2>3. row.filing \in 1 .. MaxFilings
    BY <1>1, <1>4, <2>1, <2>2 DEF PutTaxInfo, TaxRow
  <2>4. \A f \in 1 .. MaxFilings : f > row.filing => f > tax[a].filing
    BY <1>1, <2>1, <2>2 DEF TaxRow
  <2>5. RowFiled(row, verdicts[a])
    BY <1>1, <2>1, <2>2, <2>3, <2>4 DEF RowFiled, TaxRow
  <2>6. verdicts' = [verdicts EXCEPT ![a] = verdicts[a]] /\ tax' = [tax EXCEPT ![a] = row]
    BY <1>1, <1>4 DEF PutTaxInfo, TaxesOK
  <2> HIDE DEF row
  <2> QED BY <1>3, <2>1, <2>2, <2>5, <2>6
<1>5. ASSUME NEW c \in PayeeCallers, SaveTaxInfo(c) PROVE TaxesOK'
  <2>1. PICK a \in Filers : a = payeeCall[c].filer /\ payeeCall[c].status \in {"verified", "rejected"}
    BY <1>5 DEF PayeeInv, CallsOK, SaveTaxInfo
  <2>2. CASE StillPending(a) /\ ~CodeTaken(a, payeeCall[c].status)
    <3> DEFINE row == [tax[a] EXCEPT !.status = payeeCall[c].status]
               n == tax[a].filing
               decided == [verdicts[a] EXCEPT ![n] = 1]
    <3>1. tax[a] \in TaxRow /\ verdicts[a] \in Verdicts /\ RowFiled(tax[a], verdicts[a])
      BY <1>1 DEF TaxesOK
    <3>2. row \in TaxRow /\ row.status = payeeCall[c].status /\ row.filing = tax[a].filing /\ row.code = tax[a].code
      BY <2>1, <3>1 DEF TaxRow
    <3>3. tax[a].filing \in 1 .. MaxFilings /\ verdicts[a][tax[a].filing] = 0
      BY <1>1, <2>2, <3>1 DEF RowFiled, StillPending, TaxRow
    <3>4. ASSUME NEW old \in Verdicts, NEW m \in 1 .. MaxFilings
          PROVE  /\ [old EXCEPT ![m] = 1] \in Verdicts /\ [old EXCEPT ![m] = 1][m] = 1
                 /\ \A f \in 1 .. MaxFilings : f # m => [old EXCEPT ![m] = 1][f] = old[f]
      BY DEF Verdicts
    <3>8. /\ decided \in Verdicts /\ decided[n] = 1
          /\ \A f \in 1 .. MaxFilings : f # n => decided[f] = verdicts[a][f]
      BY <3>1, <3>3, <3>4
    <3>5. tax' = [tax EXCEPT ![a] = row] /\ verdicts' = [verdicts EXCEPT ![a] = decided]
      <4>1. tax' = [tax EXCEPT ![a].status = payeeCall[c].status]
            /\ verdicts' = [verdicts EXCEPT ![a][tax[a].filing] = @ + 1]
        BY <1>5, <2>1, <2>2 DEF SaveTaxInfo
      <4> QED BY <1>1, <3>3, <4>1 DEF TaxesOK
    <3> HIDE DEF row, decided
    <3>6. RowFiled(row, decided)
      BY <1>1, <2>1, <3>1, <3>2, <3>3, <3>8 DEF RowFiled
    <3>7. row.status = "verified" =>
            \A o \in Filers \ {a} : ~(tax[o].status = "verified" /\ tax[o].code = row.code)
      BY <2>2, <3>2 DEF CodeTaken
    <3> QED BY <1>3, <3>2, <3>5, <3>6, <3>7, <3>8
  <2> QED BY <1>2, <1>5, <2>1, <2>2 DEF SaveTaxInfo
<1> QED BY <1>2, <1>4, <1>5
    DEF PayeeNext, BankNext, TaxNext, CreateBankAccount, UpdateBankAccount, clearDefaultBankAccount,
        WriteBankAccount, DeleteBankAccount, NameDestination, InsertWithdrawal, SettleWithdrawal,
        PayeeCallFails, AdminVerifyTaxInfo, payeeVars

\* One destination is the default, a tax code has one verified holder, and every
\* filing is decided at most once, whatever calls were in between.
THEOREM PayeesStaySound == Spec => []PayeesHold
<1> DEFINE runs == part \in {"banks", "taxes"}
<1>1. Init => (runs => PayeeInv)
  BY PayeeInvFirst DEF Init
<1>2. (runs => PayeeInv) /\ [Next]_platformVars => (runs => PayeeInv)'
  BY MarketRuns, BanksKept, CallsKept, CashOutsKept, TaxesKept DEF PayeeInv
<1>3. (runs => PayeeInv) => PayeesHold
  BY PayeesAre DEF PayeesHold
<1> HIDE DEF runs
<1> QED BY <1>1, <1>2, <1>3, PTL DEF Spec

-----------------------------------------------------------------------------
(* A listing and its variants *)

\* The row, the copies a command saves, and the calls that carry them.
ListingRow == [status : Statuses \cup {"none"}, content : Content, pendingEdit : PendingEdit \cup {NoEdit},
               located : BOOLEAN, takenDown : BOOLEAN, deleted : BOOLEAN, version : Nat]
CopyRows == [row : ListingRow, set : [SellerVariants -> VariantRow]]
DeskCall == [op : {"save", "approve", "delete"}, version : 0 .. MaxVersionOf, copy : CopyRows, shown : Content]

DeskRows ==
  /\ listing \in ListingRow /\ listing.version <= MaxVersionOf + 1
  /\ listing.version <= MaxVersionOf \/ listing.deleted
  /\ variants \in [SellerVariants -> VariantRow]
  /\ desk \in [ListingCallers -> {DeskIdle} \cup DeskCall]
  /\ screen \in [version : Nat, content : Content] /\ reviewed \in Content

\* An edit is held only while the listing is live, one taken down is hidden, and a
\* listing in the queue or live has a pickup place.
RowFits(l) ==
  /\ l.pendingEdit # NoEdit => l.status = "active"
  /\ l.takenDown => l.status = "hidden"
  /\ l.status \in {"pending", "active"} => l.located

\* One variant is featured once the listing has left its draft.
FeaturedFits(l, vs) == l.status \in {"pending", "active"} => Cardinality(Featured(vs)) = 1

\* A call read the row at a version that is past or still the row's; what it will
\* save is live only with the words that were reviewed, or with those its approval
\* was shown.
CallFits(held) ==
  held.op # "idle" =>
    /\ held.version <= listing.version /\ held.version < MaxVersionOf
    /\ held.op \in {"save", "approve"} =>
         RowFits(held.copy.row) /\ FeaturedFits(held.copy.row, held.copy.set)
         /\ ~held.copy.row.deleted /\ held.copy.row.status # "none"
    /\ held.op = "approve" => held.copy.row.content = held.shown
    /\ held.op = "save" /\ held.version = listing.version /\ held.copy.row.status = "active" =>
         held.copy.row.content = reviewed

\* The moderator's screen shows the row of its version as it would be approved.
ScreenFits ==
  /\ screen.version <= listing.version
  /\ screen.version = listing.version => screen.content = ApplyPendingEdit(listing).content

\* Until the listing is made nobody works on it.
UnmadeFits == listing.status = "none" => listing.version = 0 /\ \A c \in ListingCallers : desk[c] = DeskIdle

ListingInv ==
  /\ UnmadeFits /\ DeskRows /\ RowFits(listing) /\ FeaturedFits(listing, variants) /\ ScreenFits /\ ListingUnitsBacked
  /\ listing.status = "active" => listing.content = reviewed
  /\ \A c \in ListingCallers : CallFits(desk[c])

\* What is no listing and no variant; an edit is not the absence of one.
LEMMA ListingKinds ==
  /\ NoListing \in ListingRow /\ NoListing.status = "none" /\ NoListing.pendingEdit = NoEdit
  /\ ~NoListing.takenDown /\ ~NoListing.deleted /\ NoListing.version = 0
  /\ NoVariant \in VariantRow /\ NoEdit \notin PendingEdit /\ DeskIdle.op = "idle"
  /\ MaxVersionOf \in Nat \ {0} /\ MaxUnits \in Nat
<1>1. NoEdit \notin PendingEdit
  BY ListingAssumption DEF PendingEdit
<1>2. PICK c \in Content : c = CHOOSE x \in Content : TRUE
  <2>1. PICK w \in Wordings : TRUE
    BY ListingAssumption
  <2>2. [f \in Fields |-> w] \in Content
    BY DEF Content
  <2> QED BY <2>2
<1>3. NoListing = [status |-> "none", content |-> c, pendingEdit |-> NoEdit, located |-> FALSE,
                   takenDown |-> FALSE, deleted |-> FALSE, version |-> 0]
  BY <1>2 DEF NoListing
<1>4. NoListing \in ListingRow /\ NoListing.status = "none" /\ NoListing.pendingEdit = NoEdit
      /\ ~NoListing.takenDown /\ ~NoListing.deleted /\ NoListing.version = 0
  BY <1>3 DEF ListingRow
<1>5. NoVariant \in VariantRow
  BY ListingAssumption DEF NoVariant, VariantRow
<1> QED BY <1>1, <1>4, <1>5, ListingAssumption DEF DeskIdle

\* The invariant says all the properties say.
LEMMA ListingIs == ListingInv => ListingTypeOK /\ OnlyReviewedIsLive /\ ListingUnitsBacked
<1> SUFFICES ASSUME ListingInv PROVE ListingTypeOK /\ OnlyReviewedIsLive
  BY DEF ListingInv
<1>1. OnlyReviewedIsLive
  BY DEF ListingInv, RowFits, FeaturedFits, OnlyReviewedIsLive
<1>2. PICK l \in ListingRow : l = listing /\ l.version <= MaxVersionOf + 1
  BY DEF ListingInv, DeskRows
<1>3. /\ l.status \in Statuses \cup {"none"} /\ l.content \in Content
      /\ l.pendingEdit \in PendingEdit \cup {NoEdit} /\ l.version \in 0 .. MaxVersionOf + 1
  BY <1>2, ListingKinds DEF ListingRow
<1>4. \A c \in ListingCallers : desk[c].op \in {"idle", "save", "approve", "delete"}
  BY DEF ListingInv, DeskRows, DeskIdle, DeskCall
<1>5. variants \in [SellerVariants -> VariantRow] /\ reviewed \in Content
  BY DEF ListingInv, DeskRows
<1> QED BY <1>1, <1>2, <1>3, <1>4, <1>5 DEF ListingTypeOK

\* No listing yet.
LEMMA ListingInvFirst == ListingInit => ListingInv
<1> SUFFICES ASSUME ListingInit PROVE ListingInv
  OBVIOUS
<1>1. listing = NoListing /\ variants = [v \in SellerVariants |-> NoVariant] /\ reviewed = NoListing.content
      /\ screen = [version |-> 0, content |-> NoListing.content] /\ \A c \in ListingCallers : desk[c] = DeskIdle
  BY DEF ListingInit
<1>2. NoListing.content \in Content
  BY ListingKinds DEF ListingRow
<1>3. DeskRows
  BY <1>1, <1>2, ListingKinds DEF ListingInit, DeskRows
<1>4. RowFits(listing) /\ FeaturedFits(listing, variants)
  BY <1>1, ListingKinds DEF RowFits, FeaturedFits
<1>5. ScreenFits
  BY <1>1, ListingKinds DEF ScreenFits, ApplyPendingEdit
<1>6. ListingUnitsBacked
  BY <1>1 DEF ListingUnitsBacked, Committed, NoVariant
<1> QED BY <1>1, <1>3, <1>4, <1>5, <1>6, ListingKinds DEF ListingInv, CallFits, UnmadeFits

\* An edit replaces words alone; a held one is on its own as good as applied.
LEMMA EditsApply ==
  ASSUME NEW l \in ListingRow, NEW edit \in PendingEdit
  PROVE  \E k \in Content : k = apply(l, edit).content /\ apply(l, edit) = [l EXCEPT !.content = k]
<1> DEFINE k == [f \in Fields |-> IF f \in DOMAIN edit THEN edit[f] ELSE l.content[f]]
<1>1. PICK F \in SUBSET Fields : edit \in [F -> Wordings]
  BY DEF PendingEdit
<1>2. l.content \in [Fields -> Wordings]
  BY DEF ListingRow, Content
<1>3. k \in Content
  BY <1>1, <1>2 DEF Content
<1>4. apply(l, edit) = [l EXCEPT !.content = k]
  BY DEF apply
<1> HIDE DEF k
<1>5. apply(l, edit).content = k
  BY <1>4 DEF ListingRow
<1> QED BY <1>3, <1>4, <1>5

\* The row with its held edit applied: nothing else changes.
LEMMA EditApplied ==
  ASSUME NEW l \in ListingRow
  PROVE  \E k \in Content : /\ k = ApplyPendingEdit(l).content
                            /\ ApplyPendingEdit(l) = [l EXCEPT !.content = k, !.pendingEdit = NoEdit]
<1>1. CASE l.pendingEdit = NoEdit
  <2>1. ApplyPendingEdit(l) = l /\ l.content \in Content
    BY <1>1 DEF ApplyPendingEdit, ListingRow
  <2>2. l = [l EXCEPT !.content = l.content, !.pendingEdit = NoEdit]
    BY <1>1 DEF ListingRow
  <2> QED BY <2>1, <2>2
<1>2. CASE l.pendingEdit # NoEdit
  <2>1. PICK edit \in PendingEdit : edit = l.pendingEdit
    BY <1>2 DEF ListingRow
  <2>2. PICK k \in Content : apply(l, edit) = [l EXCEPT !.content = k]
    BY EditsApply
  <2>3. ApplyPendingEdit(l) = [[l EXCEPT !.content = k] EXCEPT !.pendingEdit = NoEdit]
    BY <1>2, <2>1, <2>2 DEF ApplyPendingEdit
  <2>4. ApplyPendingEdit(l) = [l EXCEPT !.content = k, !.pendingEdit = NoEdit]
    BY <2>3 DEF ListingRow
  <2>5. ApplyPendingEdit(l).content = k
    BY <2>4 DEF ListingRow
  <2> QED BY <2>4, <2>5
<1> QED BY <1>1, <1>2

\* What each command makes of the row.
LEMMA CommandsMake ==
  ASSUME NEW l \in ListingRow, RowFits(l)
  PROVE  /\ \A edit \in PendingEdit :
              LET m == SubmitEdit(l, edit) IN
              m \in ListingRow /\ RowFits(m) /\ m.deleted = l.deleted /\ m.status = l.status
              /\ (l.status = "active" => m.content = l.content)
         /\ Publish(l) \in ListingRow /\ Publish(l).deleted = l.deleted /\ Publish(l).status = "pending"
         /\ (l.status # "active" => RowFits(Publish(l)))
         /\ Hide(l) \in ListingRow /\ RowFits(Hide(l)) /\ Hide(l).deleted = l.deleted /\ Hide(l).status = "hidden"
         /\ Approve(l) \in ListingRow /\ Approve(l).deleted = l.deleted
         /\ Approve(l).status = "active" /\ Approve(l).content = ApplyPendingEdit(l).content
         /\ (CanApprove(l) => RowFits(Approve(l)))
         /\ Takedown(l) \in ListingRow /\ RowFits(Takedown(l)) /\ Takedown(l).deleted = l.deleted
         /\ Takedown(l).status = "hidden"
<1>1. ASSUME NEW edit \in PendingEdit
      PROVE  LET m == SubmitEdit(l, edit) IN
              m \in ListingRow /\ RowFits(m) /\ m.deleted = l.deleted /\ m.status = l.status
              /\ (l.status = "active" => m.content = l.content)
  <2>1. CASE l.status = "active"
    <3>1. SubmitEdit(l, edit) = [l EXCEPT !.pendingEdit = edit]
      BY <2>1 DEF SubmitEdit
    <3> QED BY <2>1, <3>1 DEF ListingRow, RowFits
  <2>2. CASE l.status # "active"
    <3>1. PICK k \in Content : apply(l, edit) = [l EXCEPT !.content = k]
      BY EditsApply
    <3>2. SubmitEdit(l, edit) = [[l EXCEPT !.content = k] EXCEPT !.pendingEdit = NoEdit]
      BY <2>2, <3>1 DEF SubmitEdit
    <3> QED BY <2>2, <3>2 DEF ListingRow, RowFits
  <2> QED BY <2>1, <2>2
<1>2. /\ Publish(l) \in ListingRow /\ Publish(l).deleted = l.deleted /\ Publish(l).status = "pending"
      /\ (l.status # "active" => RowFits(Publish(l)))
  BY DEF Publish, ListingRow, RowFits, Statuses
<1>3. PICK k \in Content : /\ k = ApplyPendingEdit(l).content
                          /\ ApplyPendingEdit(l) = [l EXCEPT !.content = k, !.pendingEdit = NoEdit]
  BY EditApplied
<1> DEFINE e == [l EXCEPT !.content = k, !.pendingEdit = NoEdit]
<1>4. /\ e \in ListingRow /\ e.pendingEdit = NoEdit /\ e.content = k /\ e.deleted = l.deleted
      /\ e.located = l.located /\ e.takenDown = l.takenDown
  BY DEF ListingRow
<1>5. ApplyPendingEdit(l) = e
  BY <1>3
<1> HIDE DEF e
<1>6. Hide(l) \in ListingRow /\ RowFits(Hide(l)) /\ Hide(l).deleted = l.deleted /\ Hide(l).status = "hidden"
  <2>1. Hide(l) = [e EXCEPT !.status = "hidden"]
    BY <1>5 DEF Hide
  <2> QED BY <1>4, <2>1 DEF ListingRow, RowFits, Statuses
<1>7. /\ Approve(l) \in ListingRow /\ Approve(l).deleted = l.deleted /\ Approve(l).content = k
      /\ Approve(l).status = "active"
      /\ (CanApprove(l) => RowFits(Approve(l)))
  <2>1. Approve(l) = [e EXCEPT !.status = "active"]
    BY <1>5 DEF Approve
  <2>2. /\ Approve(l) \in ListingRow /\ Approve(l).deleted = l.deleted /\ Approve(l).content = k
        /\ Approve(l).located = l.located /\ Approve(l).takenDown = l.takenDown /\ Approve(l).status = "active"
    BY <1>4, <2>1 DEF ListingRow, Statuses
  <2>3. CanApprove(l) => l.status \in {"pending", "active"}
    BY DEF CanApprove
  <2> QED BY <2>2, <2>3 DEF RowFits
<1>8. /\ Takedown(l) \in ListingRow /\ RowFits(Takedown(l)) /\ Takedown(l).deleted = l.deleted
      /\ Takedown(l).status = "hidden"
  BY DEF Takedown, ListingRow, RowFits, Statuses
<1> QED BY <1>1, <1>2, <1>3, <1>6, <1>7, <1>8

\* A copy of the aggregate.
LEMMA CopyIs ==
  ASSUME NEW l \in ListingRow, NEW vs \in [SellerVariants -> VariantRow]
  PROVE  Aggregate(l, vs) \in CopyRows /\ Aggregate(l, vs).row = l
<1> DEFINE s == [v \in SellerVariants |-> [vs[v] EXCEPT !.reserved = 0, !.sold = 0]]
<1>1. \A v \in SellerVariants : [vs[v] EXCEPT !.reserved = 0, !.sold = 0] \in VariantRow
  <2>1. 0 \in 0 .. MaxUnits
    BY ListingKinds
  <2> QED BY <2>1 DEF VariantRow
<1>2. s \in [SellerVariants -> VariantRow]
  BY <1>1
<1>3. Aggregate(l, vs) = [row |-> l, set |-> s]
  BY DEF Aggregate
<1> HIDE DEF s
<1> QED BY <1>2, <1>3 DEF CopyRows

\* What each command makes of the variants.
LEMMA VariantsMake ==
  ASSUME NEW vs \in [SellerVariants -> VariantRow], NEW v \in SellerVariants
  PROVE  /\ \A n \in 0 .. MaxUnits : AddVariant(vs, v, n) \in [SellerVariants -> VariantRow]
         /\ \A n \in 0 .. MaxUnits : [vs EXCEPT ![v].quantity = n] \in [SellerVariants -> VariantRow]
         /\ RemoveVariant(vs, v) \in [SellerVariants -> VariantRow]
         /\ SetFeatured(vs, v) \in [SellerVariants -> VariantRow]
<1>1. ASSUME NEW n \in 0 .. MaxUnits PROVE AddVariant(vs, v, n) \in [SellerVariants -> VariantRow]
  <2> DEFINE w == [NoVariant EXCEPT !.live = TRUE, !.quantity = n, !.featured = LiveVariants(vs) = {}]
  <2>1. w \in VariantRow
    <3>1. (LiveVariants(vs) = {}) \in BOOLEAN
      OBVIOUS
    <3> QED BY <3>1, ListingKinds DEF VariantRow
  <2>2. AddVariant(vs, v, n) = [vs EXCEPT ![v] = w]
    BY DEF AddVariant
  <2> HIDE DEF w
  <2> QED BY <2>1, <2>2
<1>2. ASSUME NEW n \in 0 .. MaxUnits PROVE [vs EXCEPT ![v].quantity = n] \in [SellerVariants -> VariantRow]
  <2>1. PICK g \in VariantRow : g = vs[v]
    OBVIOUS
  <2>2. [g EXCEPT !.quantity = n] \in VariantRow
    BY DEF VariantRow
  <2> QED BY <2>1, <2>2
<1>3. RemoveVariant(vs, v) \in [SellerVariants -> VariantRow]
  <2>1. \A x \in SellerVariants : /\ [vs[x] EXCEPT !.live = FALSE, !.featured = FALSE] \in VariantRow
                                  /\ [vs[x] EXCEPT !.featured = TRUE] \in VariantRow
    BY DEF VariantRow
  <2>2. ASSUME NEW heir, v \notin heir
        PROVE  [x \in SellerVariants |->
                  CASE x = v -> [vs[x] EXCEPT !.live = FALSE, !.featured = FALSE]
                    [] x \in heir -> [vs[x] EXCEPT !.featured = TRUE]
                    [] OTHER -> vs[x]] \in [SellerVariants -> VariantRow]
    <3>1. ASSUME NEW x \in SellerVariants
          PROVE (CASE x = v -> [vs[x] EXCEPT !.live = FALSE, !.featured = FALSE]
                   [] x \in heir -> [vs[x] EXCEPT !.featured = TRUE]
                   [] OTHER -> vs[x]) \in VariantRow
      BY <2>1, <2>2
    <3> QED BY <3>1
  <2> DEFINE rest == LiveVariants(vs) \ {v}
             heir == IF rest \cap Featured(vs) # {} \/ rest = {} THEN {} ELSE {CHOOSE x \in rest : TRUE}
  <2>3. v \notin heir
    <3>1. rest # {} => (CHOOSE x \in rest : TRUE) \in rest
      OBVIOUS
    <3> QED BY <3>1
  <2>4. RemoveVariant(vs, v) = [x \in SellerVariants |->
                  CASE x = v -> [vs[x] EXCEPT !.live = FALSE, !.featured = FALSE]
                    [] x \in heir -> [vs[x] EXCEPT !.featured = TRUE]
                    [] OTHER -> vs[x]]
    BY DEF RemoveVariant
  <2> HIDE DEF heir
  <2> QED BY <2>2, <2>3, <2>4
<1>4. SetFeatured(vs, v) \in [SellerVariants -> VariantRow]
  <2>1. \A x \in SellerVariants : [vs[x] EXCEPT !.featured = (x = v)] \in VariantRow
    <3> SUFFICES ASSUME NEW x \in SellerVariants PROVE [vs[x] EXCEPT !.featured = (x = v)] \in VariantRow
      OBVIOUS
    <3>1. (x = v) \in BOOLEAN
      OBVIOUS
    <3> QED BY <3>1 DEF VariantRow
  <2> QED BY <2>1 DEF SetFeatured
<1> QED BY <1>1, <1>2, <1>3, <1>4
\* A request waits with a copy it may save, or is answered.
LEMMA DeskTurns ==
  ASSUME ListingInv, NEW c \in ListingCallers, NEW w \in {DeskIdle} \cup DeskCall, CallFits(w),
         w = DeskIdle \/ listing.status # "none",
         desk' = [desk EXCEPT ![c] = w], UNCHANGED <<listing, variants, screen, reviewed>>
  PROVE  ListingInv'
<1>1. desk' \in [ListingCallers -> {DeskIdle} \cup DeskCall]
      /\ \A d \in ListingCallers : desk'[d] = IF d = c THEN w ELSE desk[d]
  BY DEF ListingInv, DeskRows
<1>2. DeskRows'
  BY <1>1 DEF ListingInv, DeskRows
<1>3. \A d \in ListingCallers : CallFits(desk'[d])
  BY <1>1 DEF ListingInv
<1>4. (\A d \in ListingCallers : CallFits(desk[d]))'
  BY <1>3 DEF CallFits
<1>5. UnmadeFits'
  BY <1>1 DEF ListingInv, UnmadeFits
<1> QED BY <1>2, <1>4, <1>5 DEF ListingInv, RowFits, FeaturedFits, Featured, LiveVariants, ScreenFits,
           ApplyPendingEdit, apply, ListingUnitsBacked, Committed

\* A command holds its copy: validated, and of what it read.
LEMMA HoldKeeps ==
  ASSUME ListingInv, NEW c \in ListingCallers, NEW by \in {"save", "approve", "delete"},
         NEW a \in CopyRows, Hold(c, by, a), RowFits(a.row), ~a.row.deleted,
         a.row.status # "none", listing.status # "none",
         by = "approve" => a.row.content = screen.content,
         by = "save" /\ a.row.status = "active" => a.row.content = reviewed
  PROVE  ListingInv'
<1> DEFINE w == [op |-> by, version |-> listing.version, copy |-> a, shown |-> screen.content]
<1>1. /\ desk' = [desk EXCEPT ![c] = w] /\ UNCHANGED <<listing, variants, screen, reviewed>>
      /\ Validate(a) /\ listing.version < MaxVersionOf
  BY DEF Hold
<1>2. listing.version \in Nat /\ screen.content \in Content
  BY DEF ListingInv, DeskRows, ListingRow
<1>3. listing.version \in 0 .. MaxVersionOf
  BY <1>1, <1>2, ListingKinds
<1>4. w \in DeskCall
  BY <1>2, <1>3 DEF DeskCall
<1>5. FeaturedFits(a.row, a.set)
  BY <1>1 DEF Validate, FeaturedFits
<1>6. CallFits(w)
  BY <1>1, <1>2, <1>5 DEF CallFits
<1> HIDE DEF w
<1> QED BY <1>1, <1>4, <1>6, DeskTurns

\* A copy whose row is as it was, with other variants.
LEMMA VariantCommands ==
  ASSUME ListingInv, NEW c \in ListingCallers, NEW v \in SellerVariants,
         FeatureVariant(c, v) \/ CreateVariant(c, v) \/ UpdateVariant(c, v) \/ DeleteVariant(c, v)
  PROVE  ListingInv'
<1>1. listing \in ListingRow /\ variants \in [SellerVariants -> VariantRow] /\ ~listing.deleted /\ listing.status # "none"
      /\ RowFits(listing) /\ (listing.status = "active" => listing.content = reviewed)
  BY DEF ListingInv, DeskRows, FeatureVariant, CreateVariant, UpdateVariant, DeleteVariant, OwnListing
<1>2. ASSUME NEW vs \in [SellerVariants -> VariantRow], Hold(c, "save", Aggregate(listing, vs))
      PROVE  ListingInv'
  <2>1. PICK a : a = Aggregate(listing, vs) /\ a \in CopyRows /\ a.row = listing
    BY <1>1, CopyIs
  <2>2. Hold(c, "save", a)
    BY <1>2, <2>1
  <2> QED BY <1>1, <2>1, <2>2, HoldKeeps
<1>3. \E vs \in [SellerVariants -> VariantRow] : Hold(c, "save", Aggregate(listing, vs))
  <2>1. CASE FeatureVariant(c, v)
    BY <1>1, <2>1, VariantsMake DEF FeatureVariant
  <2>2. CASE CreateVariant(c, v)
    BY <1>1, <2>2, VariantsMake DEF CreateVariant
  <2>3. CASE UpdateVariant(c, v)
    <3>1. PICK n \in Committed(variants[v]) .. MaxUnits :
              Hold(c, "save", Aggregate(listing, [variants EXCEPT ![v].quantity = n]))
      BY <2>3 DEF UpdateVariant
    <3>2. Committed(variants[v]) \in Nat
      BY <1>1, ListingKinds DEF Committed, VariantRow
    <3>3. n \in 0 .. MaxUnits
      BY <3>1, <3>2, ListingKinds
    <3> QED BY <1>1, <3>1, <3>3, VariantsMake
  <2>4. CASE DeleteVariant(c, v)
    BY <1>1, <2>4, VariantsMake DEF DeleteVariant
  <2> QED BY <2>1, <2>2, <2>3, <2>4
<1> QED BY <1>2, <1>3

\* A copy of another row, with the variants as they were.
LEMMA RowCommands ==
  ASSUME ListingInv, NEW c \in ListingCallers,
         UpdateListing(c) \/ PublishListing(c) \/ HideListing(c) \/ DeleteListing(c)
         \/ AdminApproveListing(c) \/ AdminTakedownListing(c)
  PROVE  ListingInv'
<1>1. /\ listing \in ListingRow /\ variants \in [SellerVariants -> VariantRow] /\ ~listing.deleted
      /\ listing.status # "none"
      /\ RowFits(listing) /\ (listing.status = "active" => listing.content = reviewed)
  BY DEF ListingInv, DeskRows, UpdateListing, PublishListing, HideListing, DeleteListing, AdminApproveListing,
         AdminTakedownListing, OwnListing, CanApprove
<1>2. ASSUME NEW l \in ListingRow, NEW by \in {"save", "approve", "delete"}, RowFits(l), ~l.deleted, l.status # "none",
             by = "approve" => l.content = screen.content,
             by = "save" /\ l.status = "active" => l.content = reviewed,
             Hold(c, by, Aggregate(l, variants))
      PROVE  ListingInv'
  <2>1. PICK a : a = Aggregate(l, variants) /\ a \in CopyRows /\ a.row = l
    BY <1>1, CopyIs
  <2>2. Hold(c, by, a)
    BY <1>2, <2>1
  <2> QED BY <1>1, <1>2, <2>1, <2>2, HoldKeeps
<1>3. PICK l \in ListingRow : l = listing
  BY <1>1
<1>4. CASE UpdateListing(c)
  <2>1. PICK edit \in PendingEdit : Hold(c, "save", Aggregate(SubmitEdit(listing, edit), variants))
    BY <1>4 DEF UpdateListing
  <2>2. PICK m \in ListingRow : /\ m = SubmitEdit(l, edit) /\ RowFits(m) /\ ~m.deleted /\ m.status # "none"
                                /\ (m.status = "active" => m.content = reviewed)
    BY <1>1, <1>3, CommandsMake
  <2>3. Hold(c, "save", Aggregate(m, variants))
    BY <1>3, <2>1, <2>2
  <2> QED BY <1>2, <2>2, <2>3
<1>5. CASE PublishListing(c)
  <2>1. PICK m \in ListingRow : m = Publish(l) /\ RowFits(m) /\ ~m.deleted /\ m.status = "pending"
    BY <1>1, <1>3, <1>5, CommandsMake DEF PublishListing
  <2>2. Hold(c, "save", Aggregate(m, variants))
    BY <1>3, <1>5, <2>1 DEF PublishListing
  <2> QED BY <1>2, <2>1, <2>2
<1>6. CASE HideListing(c)
  <2>1. PICK m \in ListingRow : m = Hide(l) /\ RowFits(m) /\ ~m.deleted /\ m.status = "hidden"
    BY <1>1, <1>3, CommandsMake
  <2>2. Hold(c, "save", Aggregate(m, variants))
    BY <1>3, <1>6, <2>1 DEF HideListing
  <2> QED BY <1>2, <2>1, <2>2
<1>7. CASE DeleteListing(c)
  BY <1>1, <1>2, <1>3, <1>7 DEF DeleteListing
<1>8. CASE AdminApproveListing(c)
  <2>1. PICK m \in ListingRow : /\ m = Approve(l) /\ RowFits(m) /\ ~m.deleted /\ m.status = "active"
                                /\ m.content = ApplyPendingEdit(l).content
    BY <1>1, <1>3, <1>8, CommandsMake DEF AdminApproveListing
  <2>2. Hold(c, "approve", Aggregate(m, variants)) /\ screen.version = listing.version
    BY <1>3, <1>8, <2>1 DEF AdminApproveListing, ReadRevision
  <2>3. screen.content = m.content
    BY <1>3, <2>1, <2>2 DEF ListingInv, ScreenFits
  <2> QED BY <1>2, <2>1, <2>2, <2>3
<1>9. CASE AdminTakedownListing(c)
  <2>1. PICK m \in ListingRow : m = Takedown(l) /\ RowFits(m) /\ ~m.deleted /\ m.status = "hidden"
    BY <1>1, <1>3, CommandsMake
  <2>2. Hold(c, "save", Aggregate(m, variants))
    BY <1>3, <1>9, <2>1 DEF AdminTakedownListing
  <2> QED BY <1>2, <2>1, <2>2
<1> QED BY <1>4, <1>5, <1>6, <1>7, <1>8, <1>9

\* A row that was saved under a new version: every other call and the screen are now
\* of a version that is past.
LEMMA RowTurns ==
  ASSUME ListingInv, NEW l \in ListingRow, listing' = l, l.status # "none", l.version = listing.version + 1,
         l.version <= MaxVersionOf \/ (l.deleted /\ l.version <= MaxVersionOf + 1),
         variants' \in [SellerVariants -> VariantRow], reviewed' \in Content, screen' = screen,
         RowFits(l), FeaturedFits(l, variants'), l.status = "active" => l.content = reviewed',
         \A v \in SellerVariants : Committed(variants'[v]) <= variants'[v].quantity,
         \/ desk' = desk
         \/ \E c \in ListingCallers : desk' = [desk EXCEPT ![c] = DeskIdle]
  PROVE  ListingInv'
<1>1. /\ desk' \in [ListingCallers -> {DeskIdle} \cup DeskCall]
      /\ \A d \in ListingCallers : desk'[d] = DeskIdle \/ desk'[d] = desk[d]
  BY DEF ListingInv, DeskRows
<1>2. PICK n \in Nat : n = listing.version
  BY DEF ListingInv, DeskRows, ListingRow
<1>3. DeskRows'
  BY <1>1, <1>2, ListingKinds DEF ListingInv, DeskRows
<1>4. RowFits(listing)' /\ FeaturedFits(listing, variants)' /\ ListingUnitsBacked'
      /\ (listing'.status = "active" => listing'.content = reviewed')
  BY DEF RowFits, FeaturedFits, Featured, LiveVariants, ListingUnitsBacked, Committed
<1>5. ScreenFits'
  <2>1. screen.version \in Nat /\ screen.version <= n /\ l.version = n + 1
    BY <1>2 DEF ListingInv, DeskRows, ScreenFits
  <2> QED BY <2>1 DEF ScreenFits
<1>6. ASSUME NEW c \in ListingCallers PROVE CallFits(desk[c])'
  <2>1. CASE desk'[c] = DeskIdle
    BY <2>1, ListingKinds DEF CallFits
  <2>2. CASE desk'[c] = desk[c] /\ desk[c] # DeskIdle
    <3>1. PICK g \in DeskCall : g = desk[c]
      BY <2>2 DEF ListingInv, DeskRows
    <3>2. CallFits(g) /\ g.version \in Nat /\ g.op # "idle"
      BY <3>1, ListingKinds DEF ListingInv, DeskCall
    <3>3. g.version <= n /\ l.version = n + 1
      BY <1>2, <3>2 DEF CallFits
    <3>4. g.version <= l.version /\ g.version # l.version
      BY <3>2, <3>3
    <3>5. desk'[c] = g
      BY <2>2, <3>1
    <3> QED BY <3>2, <3>4, <3>5 DEF CallFits, RowFits, FeaturedFits, Featured, LiveVariants
  <2> QED BY <1>1, <2>1, <2>2
<1> QED BY <1>3, <1>4, <1>5, <1>6 DEF ListingInv, UnmadeFits

\* The save of a copy: under the version it was read at, or nothing.
LEMMA SaveKeeps == ASSUME ListingInv, NEW c \in ListingCallers, SaveListing(c) PROVE ListingInv'
<1>1. PICK g \in DeskCall : g = desk[c] /\ g.op \in {"save", "approve"}
  BY DEF SaveListing, ListingInv, DeskRows, DeskIdle
<1>2. CallFits(g)
  BY <1>1 DEF ListingInv
<1>3. PICK row \in ListingRow, set \in [SellerVariants -> VariantRow] :
          row = g.copy.row /\ set = g.copy.set /\ g.copy \in CopyRows
  BY DEF DeskCall, CopyRows
<1>4. variants \in [SellerVariants -> VariantRow] /\ listing \in ListingRow /\ reviewed \in Content
  BY DEF ListingInv, DeskRows
<1>5. CASE UNCHANGED <<listing, variants, reviewed>>
  <2>1. desk' = [desk EXCEPT ![c] = DeskIdle] /\ screen' = screen /\ CallFits(DeskIdle)
    BY ListingKinds DEF SaveListing, CallFits
  <2> QED BY <1>5, <2>1, DeskTurns
<1>6. CASE ~UNCHANGED <<listing, variants, reviewed>>
  <2>1. /\ g.version = listing.version /\ ~listing.deleted
        /\ \A v \in SellerVariants : set[v].live => set[v].quantity >= Committed(variants[v])
        /\ desk' = [desk EXCEPT ![c] = DeskIdle] /\ screen' = screen
        /\ listing' = [row EXCEPT !.version = listing.version + 1]
        /\ variants' = [v \in SellerVariants |-> Saved(variants[v], set[v])]
        /\ reviewed' = IF g.op = "approve" THEN g.shown ELSE reviewed
    BY <1>1, <1>3, <1>6 DEF SaveListing, SaveListingLands, QuantityStands
  <2> DEFINE l == [row EXCEPT !.version = listing.version + 1]
  <2>2. PICK n \in Nat : n = listing.version /\ n + 1 <= MaxVersionOf
    <3>1. listing.version \in Nat /\ g.version < MaxVersionOf
      BY <1>1, <1>2, <1>4 DEF CallFits, ListingRow
    <3> QED BY <2>1, <3>1, ListingKinds
  <2>3. /\ l \in ListingRow /\ l.version = n + 1 /\ l.content = row.content /\ l.status = row.status
        /\ l.pendingEdit = row.pendingEdit /\ l.takenDown = row.takenDown /\ l.located = row.located
    BY <2>2 DEF ListingRow
  <2>4. listing' = l
    BY <2>1
  <2> HIDE DEF l
  <2>5. RowFits(row) /\ FeaturedFits(row, set)
    BY <1>1, <1>2, <1>3 DEF CallFits
  <2>6. RowFits(l)
    BY <2>3, <2>5 DEF RowFits
  <2>7. ASSUME NEW v \in SellerVariants
        PROVE  /\ variants'[v] \in VariantRow /\ (variants'[v].live <=> set[v].live)
               /\ (set[v].live => variants'[v].featured = set[v].featured)
               /\ Committed(variants'[v]) <= variants'[v].quantity
    <3>1. PICK o \in VariantRow, s \in VariantRow : o = variants[v] /\ s = set[v]
      BY <1>3, <1>4
    <3>2. Committed(o) <= o.quantity
      BY <3>1 DEF ListingInv, ListingUnitsBacked
    <3>3. variants'[v] = Saved(o, s)
      BY <2>1, <3>1
    <3>4. CASE s.live
      <4>1. s.quantity >= Committed(o)
        BY <2>1, <3>1, <3>4
      <4>2. variants'[v] = [s EXCEPT !.reserved = o.reserved, !.sold = o.sold]
        BY <3>3, <3>4 DEF Saved
      <4>3. /\ variants'[v] \in VariantRow /\ variants'[v].live = s.live /\ variants'[v].featured = s.featured
            /\ variants'[v].quantity = s.quantity /\ variants'[v].reserved = o.reserved
            /\ variants'[v].sold = o.sold
        BY <4>2 DEF VariantRow
      <4>4. Committed(variants'[v]) = Committed(o) /\ s.quantity \in Nat /\ Committed(o) \in Nat
        BY <4>3, ListingKinds DEF Committed, VariantRow
      <4> QED BY <3>1, <4>1, <4>3, <4>4
    <3>5. CASE ~s.live
      <4>1. variants'[v] = [o EXCEPT !.live = FALSE, !.featured = FALSE]
        BY <3>3, <3>5 DEF Saved
      <4>2. /\ variants'[v] \in VariantRow /\ ~variants'[v].live /\ variants'[v].quantity = o.quantity
            /\ variants'[v].reserved = o.reserved /\ variants'[v].sold = o.sold
        BY <4>1 DEF VariantRow
      <4> QED BY <3>1, <3>2, <3>5, <4>2 DEF Committed
    <3> QED BY <3>4, <3>5
  <2>8. variants' \in [SellerVariants -> VariantRow]
    BY <2>1, <2>7
  <2>9. Featured(variants') = Featured(set)
    BY <2>7 DEF Featured, LiveVariants
  <2>10. FeaturedFits(l, variants')
    BY <2>3, <2>5, <2>9 DEF FeaturedFits
  <2>11. reviewed' \in Content
    BY <1>4, <2>1 DEF DeskCall
  <2>12. l.status # "none" /\ (l.status = "active" => l.content = reviewed')
    BY <1>1, <1>2, <1>3, <2>1, <2>3 DEF CallFits
  <2> QED BY <2>1, <2>2, <2>3, <2>4, <2>6, <2>7, <2>8, <2>10, <2>11, <2>12, RowTurns
<1> QED BY <1>5, <1>6

\* The seller's delete, which asks for the reserved units again, or nothing.
LEMMA ListingDeleteKeeps == ASSUME ListingInv, NEW c \in ListingCallers, SoftDeleteListing(c) PROVE ListingInv'
<1>1. /\ desk' = [desk EXCEPT ![c] = DeskIdle] /\ UNCHANGED <<variants, screen, reviewed>>
      /\ \/ listing' = listing
         \/ ~listing.deleted /\ listing' = [listing EXCEPT !.deleted = TRUE, !.version = listing.version + 1]
  BY DEF SoftDeleteListing
<1>2. CallFits(DeskIdle)
  BY ListingKinds DEF CallFits
<1>3. CASE listing' = listing
  BY <1>1, <1>2, <1>3, DeskTurns
<1>4. CASE listing' # listing
  <2>1. PICK r \in ListingRow : r = listing /\ r.status # "none"
    <3>1. listing.status # "none"
      BY DEF SoftDeleteListing, ListingInv, UnmadeFits, DeskIdle
    <3> QED BY <3>1 DEF ListingInv, DeskRows
  <2> DEFINE l == [r EXCEPT !.deleted = TRUE, !.version = r.version + 1]
  <2>2. r.version \in Nat /\ r.version <= MaxVersionOf
    BY <1>1, <1>4, <2>1 DEF ListingInv, DeskRows, ListingRow
  <2>3. /\ l \in ListingRow /\ l.version = r.version + 1 /\ l.content = r.content /\ l.status = r.status
        /\ l.pendingEdit = r.pendingEdit /\ l.takenDown = r.takenDown /\ l.located = r.located /\ l.deleted
    <3>1. r.version + 1 \in Nat
      BY <2>2
    <3> QED BY <3>1 DEF ListingRow
  <2>4. listing' = l
    BY <1>1, <1>4, <2>1
  <2> HIDE DEF l
  <2>5. RowFits(l) /\ FeaturedFits(l, variants') /\ (l.status = "active" => l.content = reviewed')
    BY <1>1, <2>1, <2>3 DEF ListingInv, RowFits, FeaturedFits
  <2>6. l.version <= MaxVersionOf + 1
    BY <2>2, <2>3, ListingKinds
  <2>7. /\ variants' \in [SellerVariants -> VariantRow] /\ reviewed' \in Content
        /\ \A v \in SellerVariants : Committed(variants'[v]) <= variants'[v].quantity
    BY <1>1 DEF ListingInv, DeskRows, ListingUnitsBacked
  <2> QED BY <1>1, <2>1, <2>3, <2>4, <2>5, <2>6, <2>7, RowTurns
<1> QED BY <1>3, <1>4

\* The first draft.
LEMMA ListingCreateKeeps == ASSUME ListingInv, CreateListing PROVE ListingInv'
<1>1. PICK content \in Content, first \in SellerVariants, n \in 0 .. MaxUnits :
        /\ listing' = [NoListing EXCEPT !.status = "draft", !.content = content, !.version = 1]
        /\ variants' = AddVariant(variants, first, n)
        /\ UNCHANGED <<desk, screen, reviewed>>
  BY DEF CreateListing
<1> DEFINE l == [NoListing EXCEPT !.status = "draft", !.content = content, !.version = 1]
<1>2. /\ l \in ListingRow /\ l.version = 1 /\ l.status = "draft" /\ l.pendingEdit = NoEdit /\ ~l.takenDown
  BY ListingKinds DEF ListingRow, Statuses
<1> HIDE DEF l
<1>3. /\ listing.version = 0 /\ variants \in [SellerVariants -> VariantRow] /\ reviewed \in Content
      /\ \A v \in SellerVariants : Committed(variants[v]) <= variants[v].quantity
  <2>1. listing.status = "none"
    BY DEF CreateListing
  <2> QED BY <2>1 DEF ListingInv, UnmadeFits, DeskRows, ListingUnitsBacked
<1>4. variants' \in [SellerVariants -> VariantRow]
  BY <1>1, <1>3, VariantsMake
<1>5. ASSUME NEW v \in SellerVariants PROVE Committed(variants'[v]) <= variants'[v].quantity
  <2> DEFINE w == [NoVariant EXCEPT !.live = TRUE, !.quantity = n, !.featured = LiveVariants(variants) = {}]
  <2>1. w.reserved = 0 /\ w.sold = 0 /\ w.quantity = n /\ n \in Nat
    BY ListingKinds DEF NoVariant
  <2>2. variants' = [variants EXCEPT ![first] = w]
    BY <1>1 DEF AddVariant
  <2> HIDE DEF w
  <2>3. variants'[v] = IF v = first THEN w ELSE variants[v]
    BY <1>3, <2>2
  <2> QED BY <1>3, <2>1, <2>3 DEF Committed
<1>6. RowFits(l) /\ FeaturedFits(l, variants')
  BY <1>2 DEF RowFits, FeaturedFits
<1>7. l.version = listing.version + 1 /\ l.version <= MaxVersionOf /\ listing' = l
  BY <1>1, <1>2, <1>3, ListingKinds DEF l
<1> QED BY <1>1, <1>2, <1>3, <1>4, <1>5, <1>6, <1>7, RowTurns

\* The stock statements change the counters of one variant, and never past its
\* quantity.
LEMMA StockKeeps ==
  ASSUME ListingInv, NEW v \in SellerVariants,
         ReserveStock(v) \/ ReleaseStock(v) \/ CommitStock(v) \/ UncommitStock(v)
  PROVE  ListingInv'
<1>1. variants \in [SellerVariants -> VariantRow] /\ UNCHANGED <<listing, desk, screen, reviewed>>
  BY DEF ListingInv, DeskRows, ReserveStock, ReleaseStock, CommitStock, UncommitStock, StockMove
<1>2. PICK o \in VariantRow : o = variants[v] /\ Committed(o) <= o.quantity
  BY <1>1 DEF ListingInv, ListingUnitsBacked
<1>3. o.reserved \in 0 .. MaxUnits /\ o.sold \in 0 .. MaxUnits /\ o.quantity \in 0 .. MaxUnits
  BY DEF VariantRow
<1>4. PICK r \in 0 .. MaxUnits, s \in 0 .. MaxUnits :
        variants' = [variants EXCEPT ![v] = [o EXCEPT !.reserved = r, !.sold = s]] /\ r + s <= o.quantity
  <2>1. o = [o EXCEPT !.reserved = o.reserved, !.sold = o.sold]
    BY DEF VariantRow
  <2>2. CASE ReserveStock(v)
    <3>1. o.reserved + 1 \in 0 .. MaxUnits /\ o.reserved + 1 + o.sold <= o.quantity
      BY <1>2, <1>3, <2>2, ListingKinds DEF ReserveStock, Committed
    <3>2. variants' = [variants EXCEPT ![v] = [o EXCEPT !.reserved = o.reserved + 1]]
      BY <1>2, <2>2 DEF ReserveStock, StockMove
    <3>3. [o EXCEPT !.reserved = o.reserved + 1] = [o EXCEPT !.reserved = o.reserved + 1, !.sold = o.sold]
      BY DEF VariantRow
    <3> QED BY <1>3, <3>1, <3>2, <3>3
  <2>3. CASE ReleaseStock(v)
    <3>1. o.reserved - 1 \in 0 .. MaxUnits /\ o.reserved - 1 + o.sold <= o.quantity
      BY <1>2, <1>3, <2>3, ListingKinds DEF ReleaseStock, Committed
    <3>2. variants' = [variants EXCEPT ![v] = [o EXCEPT !.reserved = o.reserved - 1]]
      BY <1>2, <2>3 DEF ReleaseStock, StockMove
    <3>3. [o EXCEPT !.reserved = o.reserved - 1] = [o EXCEPT !.reserved = o.reserved - 1, !.sold = o.sold]
      BY DEF VariantRow
    <3> QED BY <1>3, <3>1, <3>2, <3>3
  <2>4. CASE CommitStock(v)
    <3>1. /\ o.reserved - 1 \in 0 .. MaxUnits /\ o.sold + 1 \in 0 .. MaxUnits
          /\ o.reserved - 1 + (o.sold + 1) <= o.quantity
      BY <1>2, <1>3, <2>4, ListingKinds DEF CommitStock, Committed
    <3>2. variants' = [variants EXCEPT ![v] = [o EXCEPT !.reserved = o.reserved - 1, !.sold = o.sold + 1]]
      BY <1>2, <2>4 DEF CommitStock, StockMove
    <3> QED BY <3>1, <3>2
  <2>5. CASE UncommitStock(v)
    <3>1. o.sold - 1 \in 0 .. MaxUnits /\ o.reserved + (o.sold - 1) <= o.quantity
      BY <1>2, <1>3, <2>5, ListingKinds DEF UncommitStock, Committed
    <3>2. variants' = [variants EXCEPT ![v] = [o EXCEPT !.sold = o.sold - 1]]
      BY <1>2, <2>5 DEF UncommitStock, StockMove
    <3>3. [o EXCEPT !.sold = o.sold - 1] = [o EXCEPT !.reserved = o.reserved, !.sold = o.sold - 1]
      BY DEF VariantRow
    <3> QED BY <1>3, <3>1, <3>2, <3>3
  <2> QED BY <2>2, <2>3, <2>4, <2>5
<1> DEFINE w == [o EXCEPT !.reserved = r, !.sold = s]
<1>5. /\ w \in VariantRow /\ w.live = o.live /\ w.featured = o.featured /\ w.quantity = o.quantity
      /\ w.reserved = r /\ w.sold = s
  BY DEF VariantRow
<1>6. variants' = [variants EXCEPT ![v] = w]
  BY <1>4
<1> HIDE DEF w
<1>7. variants' \in [SellerVariants -> VariantRow]
      /\ \A x \in SellerVariants : variants'[x] = IF x = v THEN w ELSE variants[x]
  BY <1>1, <1>5, <1>6
<1>8. Featured(variants') = Featured(variants)
  BY <1>2, <1>5, <1>7 DEF Featured, LiveVariants
<1>9. ListingUnitsBacked'
  <2>1. Committed(w) <= w.quantity
    BY <1>4, <1>5 DEF Committed
  <2>2. \A x \in SellerVariants : Committed(variants'[x]) <= variants'[x].quantity
    BY <1>7, <2>1 DEF ListingInv, ListingUnitsBacked
  <2> QED BY <2>2 DEF ListingUnitsBacked, Committed
<1>10. DeskRows'
  BY <1>1, <1>7 DEF ListingInv, DeskRows
<1>11. FeaturedFits(listing, variants')
  BY <1>8 DEF ListingInv, FeaturedFits
<1>12. FeaturedFits(listing, variants)'
  BY <1>1, <1>11 DEF FeaturedFits, Featured, LiveVariants
<1>13. (\A c \in ListingCallers : CallFits(desk[c]))'
  BY <1>1 DEF ListingInv, CallFits, RowFits, FeaturedFits, Featured, LiveVariants
<1> QED BY <1>1, <1>9, <1>10, <1>12, <1>13 DEF ListingInv, RowFits, ScreenFits, ApplyPendingEdit, apply, UnmadeFits

\* A moderator opens the queue.
LEMMA ReadKeeps == ASSUME ListingInv, ReadQueue PROVE ListingInv'
<1>1. /\ UNCHANGED <<listing, variants, desk, reviewed>>
      /\ screen' = [version |-> listing.version, content |-> ApplyPendingEdit(listing).content]
  BY DEF ReadQueue
<1>2. PICK l \in ListingRow : l = listing
  BY DEF ListingInv, DeskRows
<1>3. PICK k \in Content : k = ApplyPendingEdit(l).content
  BY EditApplied
<1>4. screen' = [version |-> l.version, content |-> k] /\ l.version \in Nat
  BY <1>1, <1>2, <1>3 DEF ListingRow
<1>5. screen' \in [version : Nat, content : Content] /\ screen'.version = l.version /\ screen'.content = k
  BY <1>4
<1>6. DeskRows'
  BY <1>1, <1>5 DEF ListingInv, DeskRows
<1>7. ScreenFits'
  <2>1. ApplyPendingEdit(listing)'.content = k
    BY <1>1, <1>2, <1>3 DEF ApplyPendingEdit, apply
  <2>2. listing'.version = l.version
    BY <1>1, <1>2
  <2> QED BY <1>4, <1>5, <2>1, <2>2 DEF ScreenFits
<1>8. (\A c \in ListingCallers : CallFits(desk[c]))'
  BY <1>1 DEF ListingInv, CallFits, RowFits, FeaturedFits, Featured, LiveVariants
<1> QED BY <1>1, <1>6, <1>7, <1>8
       DEF ListingInv, RowFits, FeaturedFits, Featured, LiveVariants, ListingUnitsBacked, Committed, UnmadeFits

\* Every step keeps the invariant.
LEMMA ListingInvKept == ListingInv /\ [ListingNext]_listingVars => ListingInv'
<1> SUFFICES ASSUME ListingInv, ListingNext \/ UNCHANGED listingVars PROVE ListingInv'
  OBVIOUS
<1>1. ASSUME NEW c \in ListingCallers, GiveUp(c) PROVE ListingInv'
  <2>1. CallFits(DeskIdle)
    BY ListingKinds DEF CallFits
  <2> QED BY <1>1, <2>1, DeskTurns DEF GiveUp
<1>2. CASE UNCHANGED listingVars
  <2>1. UNCHANGED <<listing, variants, desk, screen, reviewed>>
    BY <1>2 DEF listingVars
  <2>2. DeskRows'
    BY <2>1 DEF ListingInv, DeskRows
  <2>3. (\A c \in ListingCallers : CallFits(desk[c]))'
    BY <2>1 DEF ListingInv, CallFits, RowFits, FeaturedFits, Featured, LiveVariants
  <2>4. ScreenFits'
    BY <2>1 DEF ListingInv, ScreenFits, ApplyPendingEdit, apply
  <2> QED BY <2>1, <2>2, <2>3, <2>4
         DEF ListingInv, UnmadeFits, RowFits, FeaturedFits, Featured, LiveVariants, ListingUnitsBacked, Committed
<1> QED BY <1>1, <1>2, ListingCreateKeeps, ReadKeeps, RowCommands, SaveKeeps, ListingDeleteKeeps, VariantCommands, StockKeeps
       DEF ListingNext

\* What buyers see is what a moderator approved, whatever edits, screens and saves
\* overlap, and no edit takes reserved or sold units away (listing.go, stock.go).
THEOREM ListingsStaySound == Spec => []ListingHolds
<1> DEFINE runs == part = "listing"
<1>1. Init => (runs => ListingInv)
  BY ListingInvFirst DEF Init
<1>2. (runs => ListingInv) /\ [Next]_platformVars => (runs => ListingInv)'
  BY MarketRuns, ListingInvKept
<1>3. (runs => ListingInv) => ListingHolds
  BY ListingIs DEF ListingHolds
<1> HIDE DEF runs
<1> QED BY <1>1, <1>2, <1>3, PTL DEF Spec

-----------------------------------------------------------------------------
(* The interests of an account *)

Times == Nat \cup {Never}
RowsInFlight == [kind : {"favorite", "signal", "vector"}, good : Goods, at : Nat]
Saving == [step : {"saving"}, row : RowsInFlight]
Folding == [step : {"folded"}, at : Nat, from : SUBSET Goods, overtaken : BOOLEAN,
            astride : SUBSET Goods]
Works == {Resting, [step |-> "due"]} \cup Saving \cup Folding
SlotRows == [from : SUBSET Goods, at : 0 .. now \cup {Never}, astride : SUBSET Goods]

TasteRows ==
  /\ now \in Nat
  /\ favorite \in [Goods -> 1 .. now \cup {Never}] /\ signal \in [Goods -> 1 .. now \cup {Never}]
  /\ embedded \in [Goods -> 1 .. now \cup {Never}]
  /\ landing \subseteq RowsInFlight /\ \A w \in landing : w.at \in 1 .. now /\ w.kind # "favorite"
  /\ slots \in SlotRows
  /\ recomputing \in [Refreshes -> Works]
  /\ \A r \in Refreshes : recomputing[r].step = "folded" => recomputing[r].at <= now
  /\ \A r \in Refreshes : recomputing[r].step = "saving" => recomputing[r].row.at \in 1 .. now

\* What has not happened, or only after a fold.
Since(t, at) == t = Never \/ t > at

\* A listing a fold left out had no vector then, or was neither saved nor acted on:
\* what it lacked it got since.
LeftOut(l, at) == Since(embedded[l], at) \/ (Since(favorite[l], at) /\ Since(signal[l], at))

\* What a fold knows of a row in flight: it carries a later time than the fold, or its
\* listing is one of those whose rows were being written then.
Known(w, at, astride) == w.at > at \/ w.good \in astride

FoldFits(from, at, astride) ==
  /\ \A l \in Goods : l \in from \/ l \in astride \/ LeftOut(l, at)
  /\ \A w \in InFlight : Known(w, at, astride)

InterestInv ==
  /\ TasteRows
  /\ slots.at # Never => FoldFits(slots.from, slots.at, slots.astride)
  /\ \A r \in Refreshes : recomputing[r].step = "folded" =>
       FoldFits(recomputing[r].from, recomputing[r].at, recomputing[r].astride)

\* The steps of a recompute are told apart.
LEMMA WorkKinds ==
  ASSUME NEW w \in Works
  PROVE  /\ w.step \in {"rest", "due", "saving", "folded"}
         /\ w.step = "saving" => w \in Saving
         /\ w.step = "folded" => w \in Folding
BY DEF Works, Saving, Folding, Resting

\* The invariant says all the property says.
LEMMA InterestsAre == InterestInv => InterestTypeOK /\ NothingAddedIsMissed
<1> SUFFICES ASSUME InterestInv PROVE InterestTypeOK /\ NothingAddedIsMissed
  OBVIOUS
<1>1. InterestTypeOK
  <2>1. \A l \in Goods : {favorite[l], signal[l], embedded[l]} \subseteq 1 .. now \cup {Never}
    BY DEF InterestInv, TasteRows
  <2>2. slots.from \subseteq Goods /\ slots.astride \subseteq Goods /\ slots.at \in 0 .. now \cup {Never}
    BY DEF InterestInv, TasteRows, SlotRows
  <2>3. \A r \in Refreshes : recomputing[r].step \in {"rest", "saving", "due", "folded"}
    BY WorkKinds DEF InterestInv, TasteRows
  <2>4. landing \subseteq [kind : {"signal", "vector"}, good : Goods, at : 1 .. now]
    BY DEF InterestInv, TasteRows, RowsInFlight
  <2> QED BY <2>1, <2>2, <2>3, <2>4 DEF InterestTypeOK
<1>2. ASSUME NEW l \in interestSignals, l \notin slots.from, l \notin slots.astride PROVE StaleInterests
  <2>1. l \in Goods /\ embedded[l] # Never /\ (favorite[l] # Never \/ signal[l] # Never)
    BY <1>2 DEF interestSignals
  <2>2. \E t \in {favorite[l], signal[l], embedded[l]} : Later(t, slots.at)
    <3>1. CASE slots.at = Never
      BY <2>1, <3>1 DEF Later
    <3>2. CASE slots.at # Never
      <4>1. LeftOut(l, slots.at)
        BY <1>2, <2>1, <3>2 DEF InterestInv, FoldFits
      <4> QED BY <2>1, <3>2, <4>1 DEF LeftOut, Since, Later
    <3> QED BY <3>1, <3>2
  <2> QED BY <1>2, <2>2 DEF StaleInterests
<1> QED BY <1>1, <1>2 DEF NothingAddedIsMissed

\* Nothing was saved, done or computed yet.
LEMMA InterestInvFirst == InterestInit => InterestInv
<1> SUFFICES ASSUME InterestInit PROVE InterestInv
  OBVIOUS
<1>1. slots.at = Never /\ \A r \in Refreshes : recomputing[r].step = "rest"
  BY DEF InterestInit, NoSlots, Resting
<1>2. slots \in SlotRows
  BY DEF InterestInit, NoSlots, SlotRows
<1>3. TasteRows
  BY <1>1, <1>2 DEF InterestInit, TasteRows, Works
<1> QED BY <1>1, <1>3 DEF InterestInv

\* The times of the rows of a listing in flight.
FlightTimes(l) == {w.at : w \in {v \in InFlight : v.good = l}}

\* What one step can make of the times of a listing.
SavedNext(l) == {favorite[l], Never} \cup FlightTimes(l)
SignalNext(l) == {signal[l]} \cup FlightTimes(l)
VectorNext(l) == {embedded[l]} \cup FlightTimes(l)

\* Every row in flight is one, stamped in the past.
LEMMA FlightPast == TasteRows => InFlight \subseteq RowsInFlight /\ \A w \in InFlight : w.at \in 1 .. now
<1> SUFFICES ASSUME TasteRows, NEW w \in InFlight PROVE w \in RowsInFlight /\ w.at \in 1 .. now
  OBVIOUS
<1>1. CASE w \in landing
  BY <1>1 DEF TasteRows
<1>2. ASSUME NEW r \in Refreshes, recomputing[r].step = "saving", w = recomputing[r].row
      PROVE  w \in RowsInFlight /\ w.at \in 1 .. now
  BY <1>2, WorkKinds DEF TasteRows, Saving
<1> QED BY <1>1, <1>2 DEF InFlight

\* The rows and the writes in flight change; each new time of a row is one of a write
\* that was in flight, or none, and what comes to be in flight carries the next time.
LEMMA TasteKeeps ==
  ASSUME InterestInv, NEW l \in Goods, now' \in {now, now + 1}, slots' = slots,
         recomputing' \in [Refreshes -> Works],
         \A q \in Refreshes : recomputing'[q].step = "folded" => recomputing'[q] = recomputing[q],
         \A q \in Refreshes : recomputing'[q].step = "saving" =>
           recomputing'[q] = recomputing[q] \/ (recomputing'[q].row.at = now + 1 /\ now' = now + 1),
         landing' \subseteq RowsInFlight,
         \A w \in landing' : w.kind # "favorite" /\ (w \in landing \/ (w.at = now + 1 /\ now' = now + 1)),
         NEW f \in SavedNext(l), favorite' = [favorite EXCEPT ![l] = f],
         NEW s \in SignalNext(l), signal' = [signal EXCEPT ![l] = s],
         NEW e \in VectorNext(l), embedded' = [embedded EXCEPT ![l] = e]
  PROVE  InterestInv'
<1>1. TasteRows
  BY DEF InterestInv
<1>2. /\ FlightTimes(l) \subseteq 1 .. now
      /\ f \in {favorite[l], Never} \cup FlightTimes(l)
      /\ s \in {signal[l]} \cup FlightTimes(l) /\ e \in {embedded[l]} \cup FlightTimes(l)
  BY <1>1, FlightPast DEF FlightTimes, SavedNext, SignalNext, VectorNext
<1>3. 1 .. now \subseteq 1 .. now' /\ 0 .. now \subseteq 0 .. now' /\ now' \in Nat /\ now \in Nat
  BY <1>1 DEF TasteRows
<1>4. /\ favorite' \in [Goods -> 1 .. now' \cup {Never}] /\ signal' \in [Goods -> 1 .. now' \cup {Never}]
      /\ embedded' \in [Goods -> 1 .. now' \cup {Never}]
  <2>1. f \in 1 .. now' \cup {Never} /\ s \in 1 .. now' \cup {Never} /\ e \in 1 .. now' \cup {Never}
    BY <1>1, <1>2, <1>3 DEF TasteRows
  <2> QED BY <1>1, <1>3, <2>1 DEF TasteRows
<1>5. /\ \A k \in Goods : favorite'[k] = IF k = l THEN f ELSE favorite[k]
      /\ \A k \in Goods : signal'[k] = IF k = l THEN s ELSE signal[k]
      /\ \A k \in Goods : embedded'[k] = IF k = l THEN e ELSE embedded[k]
  BY <1>1 DEF TasteRows
<1>6. ASSUME NEW from, NEW at \in 0 .. now, NEW astride, FoldFits(from, at, astride)
      PROVE  FoldFits(from, at, astride)'
  <2>1. now + 1 > at /\ \A t \in FlightTimes(l) : t > at \/ l \in astride
    BY <1>1, <1>6 DEF FoldFits, TasteRows, FlightTimes, Known
  <2>2. ASSUME NEW k \in Goods, k \notin from, k \notin astride PROVE LeftOut(k, at)'
    <3>1. LeftOut(k, at)
      BY <1>6, <2>2 DEF FoldFits
    <3>2. k = l => \A t \in FlightTimes(l) : t > at
      BY <2>1, <2>2
    <3> QED BY <1>2, <1>5, <3>1, <3>2 DEF LeftOut, Since
  <2>3. ASSUME NEW w \in InFlight' PROVE Known(w, at, astride)
    <3>1. w \in InFlight \/ w.at = now + 1
      BY <2>3 DEF InFlight
    <3> QED BY <1>6, <2>1, <3>1 DEF FoldFits, Known
  <2> QED BY <2>2, <2>3 DEF FoldFits, Known
<1>7. TasteRows'
  <2>1. slots' \in SlotRows'
    BY <1>1, <1>3 DEF TasteRows, SlotRows
  <2>2. \A q \in Refreshes : recomputing'[q].step = "folded" => recomputing'[q].at <= now'
    <3>1. \A q \in Refreshes : recomputing[q].step = "folded" => recomputing[q].at <= now /\ recomputing[q].at \in Nat
      BY <1>1, WorkKinds DEF TasteRows, Folding
    <3> QED BY <1>3, <3>1
  <2>3. \A q \in Refreshes : recomputing'[q].step = "saving" => recomputing'[q].row.at \in 1 .. now'
    BY <1>1, <1>3 DEF TasteRows
  <2>4. \A w \in landing' : w.at \in 1 .. now' /\ w.kind # "favorite"
    BY <1>1, <1>3 DEF TasteRows
  <2> QED BY <1>3, <1>4, <2>1, <2>2, <2>3, <2>4 DEF TasteRows
<1>8. slots'.at # Never => FoldFits(slots.from, slots.at, slots.astride)'
  <2>1. SUFFICES ASSUME slots.at # Never PROVE FoldFits(slots.from, slots.at, slots.astride)'
    OBVIOUS
  <2>2. PICK from, at, astride : /\ at \in 0 .. now /\ from = slots.from /\ at = slots.at
                                 /\ astride = slots.astride /\ FoldFits(from, at, astride)
    BY <1>1, <2>1 DEF TasteRows, InterestInv, SlotRows
  <2>3. FoldFits(from, at, astride)' /\ slots'.from = from /\ slots'.at = at /\ slots'.astride = astride
    BY <1>6, <2>2
  <2> QED BY <2>3 DEF FoldFits
<1>9. ASSUME NEW q \in Refreshes, recomputing'[q].step = "folded"
       PROVE  FoldFits(recomputing[q].from, recomputing[q].at, recomputing[q].astride)'
  <2>1. recomputing'[q] = recomputing[q] /\ recomputing[q].step = "folded"
      BY <1>9
  <2>2. PICK from, at, astride : /\ at \in 0 .. now /\ from = recomputing[q].from /\ at = recomputing[q].at
                                 /\ astride = recomputing[q].astride /\ FoldFits(from, at, astride)
    <3>1. recomputing[q].at \in 0 .. now
      BY <1>1, <2>1, WorkKinds DEF TasteRows, Folding
    <3> QED BY <2>1, <3>1 DEF InterestInv
  <2>3. /\ FoldFits(from, at, astride)'
        /\ recomputing'[q].from = from /\ recomputing'[q].at = at /\ recomputing'[q].astride = astride
    BY <1>6, <2>1, <2>2
  <2> QED BY <2>3 DEF FoldFits
<1> QED BY <1>7, <1>8, <1>9 DEF InterestInv

\* Recomputes go on: the clock and the tastes rest, and nothing more is being saved.
LEMMA RecomputesKeep ==
  ASSUME InterestInv, UNCHANGED <<favorite, signal, embedded, landing, now>>,
         recomputing' \in [Refreshes -> Works],
         \A q \in Refreshes : recomputing'[q].step = "saving" => recomputing'[q] = recomputing[q],
         \A q \in Refreshes : recomputing'[q].step = "folded" =>
           /\ recomputing'[q].at <= now
           /\ FoldFits(recomputing'[q].from, recomputing'[q].at, recomputing'[q].astride),
         slots' \in SlotRows,
         slots'.at # Never => FoldFits(slots'.from, slots'.at, slots'.astride)
  PROVE  InterestInv'
<1>1. TasteRows
  BY DEF InterestInv
<1>2. TasteRows'
  BY <1>1 DEF TasteRows, SlotRows
<1>3. InFlight' \subseteq InFlight
  BY DEF InFlight
<1>4. slots'.at # Never => FoldFits(slots.from, slots.at, slots.astride)'
  BY <1>3 DEF FoldFits, LeftOut, Since, Known
<1>5. ASSUME NEW q \in Refreshes, recomputing'[q].step = "folded"
      PROVE  FoldFits(recomputing[q].from, recomputing[q].at, recomputing[q].astride)'
  BY <1>3, <1>5 DEF FoldFits, LeftOut, Since, Known
<1> QED BY <1>2, <1>4, <1>5 DEF InterestInv

\* A step of one recompute or of the sweep.
LEMMA RecomputeKeeps ==
  ASSUME InterestInv, UNCHANGED <<favorite, signal, embedded, landing, now>>, NEW r \in Refreshes,
         NEW w \in {Resting, [step |-> "due"]} \cup Folding, recomputing' = [recomputing EXCEPT ![r] = w],
         w.step = "folded" => w.at <= now /\ FoldFits(w.from, w.at, w.astride),
         slots' \in SlotRows,
         slots'.at # Never => FoldFits(slots'.from, slots'.at, slots'.astride)
  PROVE  InterestInv'
<1>1. TasteRows
  BY DEF InterestInv
<1>2. /\ recomputing' \in [Refreshes -> Works]
      /\ \A q \in Refreshes : recomputing'[q] = IF q = r THEN w ELSE recomputing[q]
  BY <1>1 DEF TasteRows, Works
<1>3. w.step # "saving"
  BY DEF Resting, Folding
<1>4. \A q \in Refreshes : recomputing'[q].step = "folded" =>
        /\ recomputing'[q].at <= now
        /\ FoldFits(recomputing'[q].from, recomputing'[q].at, recomputing'[q].astride)
  BY <1>1, <1>2 DEF InterestInv, TasteRows
<1> QED BY <1>2, <1>3, <1>4, RecomputesKeep

\* A write begins: its row is in flight with the next time.
LEMMA WriteBegins ==
  ASSUME InterestInv, NEW l \in Goods,
         \/ \E kind \in {"signal", "vector"} : StartBatch(kind, l)
         \/ \E r \in Refreshes : AddFavorite(r, l)
  PROVE  InterestInv'
<1>1. TasteRows /\ now \in Nat
  BY DEF InterestInv, TasteRows
<1>2. /\ now' = now + 1 /\ slots' = slots
      /\ favorite' = [favorite EXCEPT ![l] = favorite[l]]
      /\ signal' = [signal EXCEPT ![l] = signal[l]] /\ embedded' = [embedded EXCEPT ![l] = embedded[l]]
  BY <1>1 DEF StartBatch, AddFavorite, Change, TasteRows
<1>3. favorite[l] \in SavedNext(l) /\ signal[l] \in SignalNext(l) /\ embedded[l] \in VectorNext(l)
  BY DEF SavedNext, SignalNext, VectorNext
<1>4. ASSUME NEW kind \in {"signal", "vector"}, StartBatch(kind, l) PROVE InterestInv'
  <2>1. Stamped(kind, l) \in RowsInFlight /\ Stamped(kind, l).at = now + 1 /\ Stamped(kind, l).kind # "favorite"
    BY <1>1 DEF Stamped, RowsInFlight
  <2>2. landing' = landing \cup {Stamped(kind, l)} /\ recomputing' = recomputing
    BY <1>4 DEF StartBatch
  <2>3. /\ landing' \subseteq RowsInFlight
        /\ \A w \in landing' : w.kind # "favorite" /\ (w \in landing \/ w.at = now + 1)
        /\ recomputing' \in [Refreshes -> Works]
    BY <1>1, <2>1, <2>2 DEF TasteRows
  <2> QED BY <1>2, <1>3, <2>2, <2>3, TasteKeeps
<1>5. ASSUME NEW r \in Refreshes, AddFavorite(r, l) PROVE InterestInv'
  <2> DEFINE w == [step |-> "saving", row |-> Stamped("favorite", l)]
  <2>1. w \in Works /\ w.row.at = now + 1 /\ w.step = "saving"
    BY <1>1 DEF Stamped, RowsInFlight, Saving, Works
  <2>2. landing' = landing /\ recomputing' = [recomputing EXCEPT ![r] = w]
    BY <1>5 DEF AddFavorite
  <2> HIDE DEF w
  <2>3. /\ recomputing' \in [Refreshes -> Works]
        /\ \A q \in Refreshes : recomputing'[q] = IF q = r THEN w ELSE recomputing[q]
    BY <1>1, <2>1, <2>2 DEF TasteRows
  <2>4. landing' \subseteq RowsInFlight /\ \A v \in landing' : v.kind # "favorite" /\ v \in landing
    BY <1>1, <2>2 DEF TasteRows
  <2> QED BY <1>2, <1>3, <2>1, <2>3, <2>4, TasteKeeps
<1> QED BY <1>4, <1>5

\* A write commits, or a saved listing is taken off the wishlist.
LEMMA WritesKeep ==
  ASSUME InterestInv,
         \/ \E w \in landing : BatchLands(w)
         \/ \E r \in Refreshes : FavoriteLands(r) \/ \E l \in Goods : RemoveFavorite(r, l)
  PROVE  InterestInv'
<1>1. TasteRows
  BY DEF InterestInv
<1>2. ASSUME NEW w \in landing, BatchLands(w) PROVE InterestInv'
  <2>1. PICK l \in Goods : l = w.good
    BY <1>1 DEF TasteRows, RowsInFlight
  <2>2. w.at \in FlightTimes(l)
    BY <2>1 DEF FlightTimes, InFlight
  <2>3. /\ now' = now /\ slots' = slots /\ recomputing' = recomputing /\ landing' = landing \ {w}
        /\ favorite' = [favorite EXCEPT ![l] = favorite[l]]
    BY <1>1, <1>2 DEF BatchLands, TasteRows
  <2>4. PICK s \in SignalNext(l) : signal' = [signal EXCEPT ![l] = s]
    <3>1. signal' = [signal EXCEPT ![l] = w.at] \/ signal' = [signal EXCEPT ![l] = signal[l]]
      BY <1>1, <1>2, <2>1 DEF BatchLands, TasteRows
    <3> QED BY <2>2, <3>1 DEF SignalNext
  <2>5. PICK e \in VectorNext(l) : embedded' = [embedded EXCEPT ![l] = e]
    <3>1. embedded' = [embedded EXCEPT ![l] = w.at] \/ embedded' = [embedded EXCEPT ![l] = embedded[l]]
      BY <1>1, <1>2, <2>1 DEF BatchLands, TasteRows
    <3> QED BY <2>2, <3>1 DEF VectorNext
  <2>6. /\ landing' \subseteq RowsInFlight /\ recomputing' \in [Refreshes -> Works]
        /\ \A v \in landing' : v.kind # "favorite" /\ v \in landing
    BY <1>1, <2>3 DEF TasteRows
  <2>7. PICK f \in SavedNext(l) : favorite' = [favorite EXCEPT ![l] = f]
    BY <2>3 DEF SavedNext
  <2>8. /\ now' \in {now, now + 1}
        /\ \A q \in Refreshes : recomputing'[q] = recomputing[q]
    BY <2>3
  <2> QED BY <2>3, <2>4, <2>5, <2>6, <2>7, <2>8, TasteKeeps
<1>3. ASSUME NEW r \in Refreshes, FavoriteLands(r) PROVE InterestInv'
  <2>1. recomputing[r].step = "saving" /\ recomputing[r] \in Saving
    BY <1>1, <1>3, WorkKinds DEF FavoriteLands, TasteRows
  <2>2. PICK w \in RowsInFlight : w = recomputing[r].row /\ w \in InFlight
    BY <2>1 DEF Saving, InFlight
  <2>3. PICK l \in Goods : l = w.good /\ w.at \in FlightTimes(l)
    BY <2>2 DEF FlightTimes, RowsInFlight
  <2>4. /\ now' = now /\ slots' = slots /\ recomputing' = [recomputing EXCEPT ![r] = [step |-> "due"]]
        /\ landing' = landing
        /\ signal' = [signal EXCEPT ![l] = signal[l]] /\ embedded' = [embedded EXCEPT ![l] = embedded[l]]
    BY <1>1, <1>3 DEF FavoriteLands, TasteRows
  <2>5. PICK f \in SavedNext(l) : favorite' = [favorite EXCEPT ![l] = f]
    <3>1. favorite' = [favorite EXCEPT ![l] = w.at] \/ favorite' = [favorite EXCEPT ![l] = favorite[l]]
      BY <1>1, <1>3, <2>2, <2>3 DEF FavoriteLands, TasteRows
    <3> QED BY <2>3, <3>1 DEF SavedNext
  <2>6. /\ landing' \subseteq RowsInFlight /\ recomputing' \in [Refreshes -> Works]
        /\ \A v \in landing' : v.kind # "favorite" /\ v \in landing
        /\ \A q \in Refreshes : recomputing'[q] = IF q = r THEN [step |-> "due"] ELSE recomputing[q]
    BY <1>1, <2>4 DEF TasteRows, Works
  <2>7. PICK s \in SignalNext(l), e \in VectorNext(l) :
          signal' = [signal EXCEPT ![l] = s] /\ embedded' = [embedded EXCEPT ![l] = e]
    BY <2>4 DEF SignalNext, VectorNext
  <2>8. /\ now' \in {now, now + 1}
        /\ \A q \in Refreshes : recomputing'[q].step \in {"saving", "folded"} => recomputing'[q] = recomputing[q]
    BY <2>4, <2>6
  <2> QED BY <2>4, <2>5, <2>6, <2>7, <2>8, TasteKeeps
<1>4. ASSUME NEW r \in Refreshes, NEW l \in Goods, RemoveFavorite(r, l) PROVE InterestInv'
  <2>1. /\ now' = now + 1 /\ slots' = slots /\ recomputing' = [recomputing EXCEPT ![r] = [step |-> "due"]]
        /\ landing' = landing /\ favorite' = [favorite EXCEPT ![l] = Never]
        /\ signal' = [signal EXCEPT ![l] = signal[l]] /\ embedded' = [embedded EXCEPT ![l] = embedded[l]]
    BY <1>1, <1>4 DEF RemoveFavorite, Refreshing, Change, TasteRows
  <2>2. /\ landing' \subseteq RowsInFlight /\ recomputing' \in [Refreshes -> Works]
        /\ \A v \in landing' : v.kind # "favorite" /\ v \in landing
        /\ \A q \in Refreshes : recomputing'[q] = IF q = r THEN [step |-> "due"] ELSE recomputing[q]
    BY <1>1, <2>1 DEF TasteRows, Works
  <2>3. Never \in SavedNext(l) /\ signal[l] \in SignalNext(l) /\ embedded[l] \in VectorNext(l)
    BY DEF SavedNext, SignalNext, VectorNext
  <2> QED BY <2>1, <2>2, <2>3, TasteKeeps
<1> QED BY <1>2, <1>3, <1>4

\* Every step keeps the invariant.
LEMMA InterestInvKept == InterestInv /\ [InterestNext]_interestVars => InterestInv'
<1> SUFFICES ASSUME InterestInv, InterestNext \/ UNCHANGED interestVars PROVE InterestInv'
  OBVIOUS
<1>1. TasteRows
  BY DEF InterestInv
<1>2. ASSUME NEW l \in Goods, InsertListingSignals(l) \/ WriteVector(l) PROVE InterestInv'
  BY <1>2, WriteBegins DEF InsertListingSignals, WriteVector
<1>3. ASSUME NEW l \in Goods, NEW r \in Refreshes, AddFavorite(r, l) PROVE InterestInv'
  BY <1>3, WriteBegins
<1>4. ASSUME NEW r \in Refreshes, sweepInterests(r) PROVE InterestInv'
  <2> DEFINE w == [step |-> "due"]
  <2>1. /\ UNCHANGED <<favorite, signal, embedded, landing, slots, now>>
        /\ recomputing' = [recomputing EXCEPT ![r] = w]
        /\ w \in {Resting, [step |-> "due"]} \cup Folding /\ w.step # "folded"
    BY <1>4 DEF sweepInterests, Refreshing
  <2> HIDE DEF w
  <2> QED BY <1>1, <2>1, RecomputeKeeps DEF TasteRows, InterestInv
<1>5. ASSUME NEW r \in Refreshes, FoldInterests(r) PROVE InterestInv'
  <2> DEFINE flight == {v.good : v \in InFlight}
             w == [step |-> "folded", at |-> now, from |-> interestSignals, overtaken |-> FALSE, astride |-> flight]
  <2>1. /\ UNCHANGED <<favorite, signal, embedded, landing, slots, now>>
        /\ recomputing' = [recomputing EXCEPT ![r] = w]
    BY <1>5 DEF FoldInterests
  <2>2. interestSignals \in SUBSET Goods /\ now \in Nat /\ flight \in SUBSET Goods
    BY <1>1, FlightPast DEF TasteRows, interestSignals, SlotRows, RowsInFlight
  <2>3. w \in Folding /\ w.at = now /\ w.from = interestSignals /\ w.astride = flight
    BY <2>2 DEF Folding
  <2>4. \A v \in InFlight : v.good \in flight
    OBVIOUS
  <2> HIDE DEF w, flight
  <2>5. \A l \in Goods : l \in w.from \/ LeftOut(l, w.at)
    BY <2>2, <2>3 DEF interestSignals, LeftOut, Since
  <2>6. w.at <= now /\ FoldFits(w.from, w.at, w.astride)
    BY <2>2, <2>3, <2>4, <2>5 DEF FoldFits, Known
  <2> QED BY <1>1, <2>1, <2>3, <2>6, RecomputeKeeps DEF TasteRows, InterestInv
<1>6. ASSUME NEW r \in Refreshes, RecomputeInterests(r) PROVE InterestInv'
  <2>1. UNCHANGED <<favorite, signal, embedded, landing, now>>
    BY <1>6 DEF RecomputeInterests
  <2>2. PICK g \in Folding : g = recomputing[r] /\ g.at \in 0 .. now /\ FoldFits(g.from, g.at, g.astride)
    <3>1. recomputing[r].step = "folded" /\ recomputing[r] \in Folding
      BY <1>1, <1>6, WorkKinds DEF RecomputeInterests, TasteRows
    <3> QED BY <1>1, <3>1 DEF TasteRows, InterestInv, Folding
  <2>3. CASE SlotsTaken(recomputing[r])
    <3>1. slots' = slots /\ recomputing' = [recomputing EXCEPT ![r] = Resting]
      BY <1>6, <2>3 DEF RecomputeInterests
    <3> QED BY <1>1, <2>1, <3>1, RecomputeKeeps DEF TasteRows, InterestInv, Resting
  <2>4. CASE ~SlotsTaken(recomputing[r])
    <3>1. slots' = Folded(recomputing[r]) /\ recomputing' = Overtaking(r)
      BY <1>6, <2>4 DEF RecomputeInterests
    <3>2. slots' = [from |-> g.from, astride |-> g.astride,
                    at |-> IF g.from = {} THEN Never ELSE g.at]
      BY <2>2, <3>1 DEF Folded, FoldedAt
    <3>3. g.from \in SUBSET Goods /\ g.astride \in SUBSET Goods
      BY DEF Folding
    <3>4. /\ slots' \in SlotRows
          /\ slots'.from = g.from /\ slots'.astride = g.astride /\ (slots'.at # Never => slots'.at = g.at)
      BY <2>2, <3>2, <3>3 DEF SlotRows
    <3>5. ASSUME NEW q \in Refreshes, q # r, recomputing[q].step = "folded"
          PROVE  /\ recomputing'[q] \in Folding /\ recomputing'[q].at = recomputing[q].at
                 /\ recomputing'[q].from = recomputing[q].from /\ recomputing'[q].astride = recomputing[q].astride
      <4>1. PICK u \in Folding : u = recomputing[q]
        BY <1>1, <3>5, WorkKinds DEF TasteRows
      <4>2. recomputing'[q] = [u EXCEPT !.overtaken = TRUE]
        BY <3>1, <3>5, <4>1 DEF Overtaking
      <4> QED BY <4>1, <4>2 DEF Folding
    <3>6. ASSUME NEW q \in Refreshes, q = r \/ recomputing[q].step # "folded"
          PROVE  recomputing'[q] \in {Resting, recomputing[q]} /\ recomputing'[q].step # "folded"
      BY <3>1, <3>6 DEF Overtaking, Resting
    <3>7. recomputing' \in [Refreshes -> Works]
      <4>1. \A q \in Refreshes : recomputing'[q] \in Works
        BY <1>1, <3>5, <3>6 DEF TasteRows, Works
      <4>2. recomputing' = [q \in Refreshes |-> recomputing'[q]]
        BY <3>1 DEF Overtaking
      <4> QED BY <4>1, <4>2
    <3>8. \A q \in Refreshes : recomputing'[q].step = "saving" => recomputing'[q] = recomputing[q]
      BY <3>5, <3>6 DEF Folding, Resting
    <3>9. \A q \in Refreshes : recomputing'[q].step = "folded" =>
            /\ recomputing'[q].at <= now
            /\ FoldFits(recomputing'[q].from, recomputing'[q].at, recomputing'[q].astride)
      BY <1>1, <3>5, <3>6 DEF InterestInv, TasteRows
    <3> QED BY <2>1, <2>2, <3>4, <3>7, <3>8, <3>9, RecomputesKeep
  <2> QED BY <2>3, <2>4
<1>7. ASSUME NEW r \in Refreshes, RecomputeFails(r) PROVE InterestInv'
  <2>1. /\ UNCHANGED <<favorite, signal, embedded, landing, slots, now>>
        /\ recomputing' = [recomputing EXCEPT ![r] = Resting]
    BY <1>7 DEF RecomputeFails
  <2> QED BY <1>1, <2>1, RecomputeKeeps DEF TasteRows, InterestInv, Resting
<1>8. CASE UNCHANGED interestVars
  BY <1>8 DEF interestVars, InterestInv, TasteRows, FoldFits, LeftOut, Since, Known, SlotRows, InFlight
<1> QED BY <1>2, <1>3, <1>4, <1>5, <1>6, <1>7, <1>8, WritesKeep DEF InterestNext

\* A saved or viewed listing is in the slots or the sweep will find the account,
\* however recomputes overlap and whatever lands late, unless a row of it was being
\* written as the slots were folded (interest.go, the dates of a recompute and its sources).
THEOREM InterestsStaySound == Spec => []InterestsHold
<1> DEFINE runs == part = "interests"
<1>1. Init => (runs => InterestInv)
  BY InterestInvFirst DEF Init
<1>2. (runs => InterestInv) /\ [Next]_platformVars => (runs => InterestInv)'
  BY MarketRuns, InterestInvKept
<1>3. (runs => InterestInv) => InterestsHold
  BY InterestsAre DEF InterestsHold
<1> HIDE DEF runs
<1> QED BY <1>1, <1>2, <1>3, PTL DEF Spec

-----------------------------------------------------------------------------
(* The home page and the browse. *)

ShelfNames == {"viewed", "interests", "trending", "best-selling", "rating", "newest"}
DrawPhases == {"get", "draw", "store", "hydrate"}

\* A draw that may be kept under a key: whoever drew it, its listings are different ones
\* that the key's filter lets through, and near one taste of the slot if it is a slot's.
Drawn(key, ids) ==
  /\ IsInjective(ids)
  /\ \A c \in ToSet(ids) : c \notin key.exclude \cup OwnCards /\ InCategory(c, key.category)
  /\ key.matched => OfOneTaste(key.seed, ToSet(ids))

\* Rows that answer a filter.
Fills(rows, f) ==
  /\ rows \in Seq(FeedCards) /\ IsInjective(rows)
  /\ \A c \in ToSet(rows) : /\ c \notin f.exclude /\ InCategory(c, f.category)
                            /\ f.sort = "recommended" => c \notin OwnCards
  /\ f.matched => OfOneTaste(f.seed, ToSet(rows))

\* The page as far as it is built: what it shows was seen, what it is named by was used.
PageFits(tab) ==
  /\ \A i, j \in DOMAIN tab.page : i # j => ToSet(tab.page[i].rows) \cap ToSet(tab.page[j].rows) = {}
  /\ \A i, j \in DOMAIN tab.page :
       tab.page[i].reason = "interests" /\ tab.page[j].reason = "interests"
         /\ tab.page[i].subject = tab.page[j].subject => i = j
  /\ \A i \in DOMAIN tab.page :
       LET row == tab.page[i]  shown == ToSet(row.rows) IN
       /\ row.reason \in ShelfNames /\ IsInjective(row.rows)
       /\ shown \subseteq tab.seen /\ tab.anchor \notin shown
       /\ row.reason = "interests" =>
            /\ tab.stage # "viewed" /\ (tab.stage = "interests" => row.subject \in tab.names)
            /\ OfOneTaste(row.slot, shown) /\ shown \cap OwnCards = {}

\* The retrieval a tab waits for.
RetrievalFits(tab) ==
  LET f == tab.filter IN
  /\ tab.seen \subseteq f.exclude /\ (tab.stage = "viewed" => tab.anchor \in f.exclude)
  /\ f.matched <=> tab.stage = "interests"
  /\ tab.stage = "interests" =>
       /\ f.sort = "recommended" /\ f.seed = tab.slot /\ OfOneTaste(tab.slot, UNION f.taste) /\ tab.subject \in tab.names
       /\ \A i \in DOMAIN tab.page : tab.page[i].reason = "interests" => tab.page[i].subject # tab.subject
  /\ f.sort = "recommended" <=> tab.phase \in DrawPhases
  /\ tab.phase \in {"popular", "backfill"} => f.category = AnyCategory
  /\ tab.phase \in {"store", "hydrate"} => Drawn(feedCacheKey(f), tab.ids)
  /\ tab.phase = "backfill" => Fills(tab.rows, f)

\* Where a home page is: the anchor is chosen in the first stage and seen in the others,
\* and a slot is one of the interests that were read.
StageFits(tab) ==
  /\ tab.stage = "viewed" => tab.page = <<>> /\ (tab.phase \in {"plan", "anchor"} => tab.anchor = NoCard)
  /\ tab.stage # "viewed" => tab.anchor \in tab.seen \cup {NoCard}
  /\ tab.tastes \in tastesHad \cup {<<>>}
  /\ tab.stage = "interests" => tab.slot <= Len(tab.tastes) /\ (tab.phase = "plan" \/ tab.slot > 0)
  /\ tab.phase = "anchor" => tab.stage = "viewed" /\ tab.views # <<>>

TabFits(tab) ==
  /\ tab.stage = "idle" => tab.page = <<>>
  /\ tab.stage \in ShelfNames => PageFits(tab) /\ StageFits(tab) /\ (tab.phase \notin {"plan", "anchor"} => RetrievalFits(tab))
  /\ tab.stage = "feed" => /\ tab.page = <<>> /\ tab.anchor = NoCard /\ tab.seen = {}
                           /\ tab.phase \notin {"plan", "anchor"} /\ RetrievalFits(tab)
  /\ tab.stage = "sent" =>
       \/ PageFits(tab)
       \/ /\ tab.anchor = NoCard /\ DOMAIN tab.page = {1} /\ tab.page[1].reason = "feed"
          /\ Fills(tab.page[1].rows, tab.filter)

FeedInv ==
  /\ FeedReadTypeOK /\ AnsweredAsAsked /\ tastes \in tastesHad
  /\ \A e \in feedCache : Drawn(e.key, e.ids)
  /\ \A t \in FeedTabs : TabFits(feedTab[t])

\* Fewer listings of one taste are of one taste.
LEMMA OfOneTastePart ==
  ASSUME NEW slot, NEW cards, OfOneTaste(slot, cards), NEW fewer \in SUBSET cards
  PROVE  OfOneTaste(slot, fewer)
BY DEF OfOneTaste

\* A nonempty set of naturals has a smallest element.
LEMMA SmallestIn ==
  ASSUME NEW T, T \subseteq Nat, T # {}
  PROVE  \E n \in T : \A m \in T : n <= m
<1> DEFINE R == OpToRel(<, Nat)
<1>1. PICK n \in T : \A m \in T : ~(<<m, n>> \in R)
  <2>1. IsWellFoundedOn(R, Nat)
    BY NatLessThanWellFounded
  <2> HIDE DEF R
  <2> QED BY <2>1, WFMin
<1>2. \A m \in T : ~(m < n)
  BY <1>1 DEF OpToRel
<1> QED BY <1>2

\* k keeps, of the first n of ids, those that are in S.
Keeps(k, ids, S, n) ==
  k = [m \in 0 .. n |-> IF m = 0 THEN <<>>
                        ELSE IF ids[m] \in S THEN Append(k[m - 1], ids[m]) ELSE k[m - 1]]

\* There is such a function for every length: the shortest length without one would
\* extend the function of the length before it.
LEMMA KeptExists ==
  ASSUME NEW ids, NEW S, NEW n \in Nat
  PROVE  \E k : Keeps(k, ids, S, n)
<1> DEFINE T == {m \in Nat : ~ \E k : Keeps(k, ids, S, m)}
<1> SUFFICES ASSUME T # {} PROVE FALSE
  OBVIOUS
<1>1. PICK m \in T : \A l \in T : m <= l
  <2> HIDE DEF T
  <2>1. T \subseteq Nat
    BY DEF T
  <2> QED BY <2>1, SmallestIn
<1>2. m \in Nat /\ ~ \E k : Keeps(k, ids, S, m)
  OBVIOUS
<1>3. m # 0
  <2> SUFFICES ASSUME m = 0 PROVE FALSE
    OBVIOUS
  <2> DEFINE k == [l \in 0 .. 0 |-> <<>>]
  <2>1. Keeps(k, ids, S, 0)
    BY DEF Keeps
  <2> HIDE DEF k
  <2> QED BY <1>2, <2>1
<1>4. m - 1 \in Nat /\ m - 1 \notin T
  BY <1>1, <1>2, <1>3
<1>5. PICK g : Keeps(g, ids, S, m - 1)
  BY <1>4
<1> DEFINE h == [l \in 0 .. m |-> IF l = m THEN IF ids[m] \in S THEN Append(g[m - 1], ids[m]) ELSE g[m - 1]
                                  ELSE g[l]]
<1>6. \A l \in 0 .. m - 1 :
        g[l] = IF l = 0 THEN <<>> ELSE IF ids[l] \in S THEN Append(g[l - 1], ids[l]) ELSE g[l - 1]
  BY <1>5 DEF Keeps
<1>7. \A l \in 0 .. m :
        h[l] = IF l = 0 THEN <<>> ELSE IF ids[l] \in S THEN Append(h[l - 1], ids[l]) ELSE h[l - 1]
  <2> SUFFICES ASSUME NEW l \in 0 .. m
               PROVE  h[l] = IF l = 0 THEN <<>> ELSE IF ids[l] \in S THEN Append(h[l - 1], ids[l]) ELSE h[l - 1]
    OBVIOUS
  <2>1. CASE l = m
    BY <1>2, <1>3, <2>1
  <2>2. CASE l # m
    <3>1. l \in 0 .. m - 1 /\ h[l] = g[l] /\ (l # 0 => h[l - 1] = g[l - 1])
      BY <1>2, <2>2
    <3> QED BY <1>6, <3>1
  <2> QED BY <2>1, <2>2
<1>8. h = [l \in 0 .. m |-> h[l]]
  OBVIOUS
<1>9. Keeps(h, ids, S, m)
  <2> HIDE DEF h
  <2>1. h = [l \in 0 .. m |-> IF l = 0 THEN <<>>
                              ELSE IF ids[l] \in S THEN Append(h[l - 1], ids[l]) ELSE h[l - 1]]
    BY <1>7, <1>8
  <2> QED BY <2>1 DEF Keeps
<1> HIDE DEF h
<1> QED BY <1>2, <1>9

\* What is kept of a sequence are different members of it that are in S.
LEMMA AmongFacts ==
  ASSUME NEW X, NEW ids \in Seq(X), IsInjective(ids), NEW S
  PROVE  /\ Among(ids, S) \in Seq(X) /\ IsInjective(Among(ids, S))
         /\ ToSet(Among(ids, S)) \subseteq ToSet(ids) \cap S
<1> DEFINE Kept(k, n) == /\ k[n] \in Seq(X) /\ IsInjective(k[n])
                         /\ \A i \in DOMAIN k[n] : k[n][i] \in S /\ \E m \in 1 .. n : k[n][i] = ids[m]
<1> DEFINE k == CHOOSE f : Keeps(f, ids, S, Len(ids))
<1>1. Len(ids) \in Nat /\ DOMAIN ids = 1 .. Len(ids)
  OBVIOUS
<1>2. Keeps(k, ids, S, Len(ids)) /\ Among(ids, S) = k[Len(ids)]
  <2>1. \E f : Keeps(f, ids, S, Len(ids))
    BY <1>1, KeptExists
  <2>2. Among(ids, S) = k[Len(ids)]
    BY DEF Among, Keeps
  <2> QED BY <2>1, <2>2
<1> HIDE DEF k
<1>3. \A n \in 0 .. Len(ids) :
        k[n] = IF n = 0 THEN <<>> ELSE IF ids[n] \in S THEN Append(k[n - 1], ids[n]) ELSE k[n - 1]
  BY <1>2 DEF Keeps
<1>4. Kept(k, Len(ids))
  <2> DEFINE T == {n \in 0 .. Len(ids) : ~Kept(k, n)}
  <2> SUFFICES ASSUME T # {} PROVE FALSE
    BY <1>1
  <2>1. PICK n \in T : \A l \in T : n <= l
    <3> HIDE DEF T
    <3>1. T \subseteq Nat
      BY <1>1 DEF T
    <3> QED BY <3>1, SmallestIn
  <2>2. n \in 0 .. Len(ids) /\ ~Kept(k, n)
    OBVIOUS
  <2>3. n # 0
    <3> SUFFICES ASSUME n = 0 PROVE FALSE
      OBVIOUS
    <3>1. k[0] = <<>>
      BY <1>1, <1>3
    <3>2. Kept(k, 0)
      BY <3>1 DEF IsInjective
    <3> QED BY <2>2, <3>2
  <2>4. n - 1 \in 0 .. Len(ids) /\ n - 1 \notin T
    BY <1>1, <2>1, <2>2, <2>3
  <2>5. Kept(k, n - 1)
    BY <2>4
  <2> DEFINE old == k[n - 1]
  <2>6. /\ old \in Seq(X) /\ IsInjective(old)
        /\ \A i \in DOMAIN old : old[i] \in S /\ \E m \in 1 .. n - 1 : old[i] = ids[m]
    BY <2>5
  <2>7. k[n] = IF ids[n] \in S THEN Append(old, ids[n]) ELSE old
    BY <1>3, <2>2, <2>3
  <2> HIDE DEF old, T
  <2>8. CASE ids[n] \notin S
    <3>1. k[n] = old
      BY <2>7, <2>8
    <3>2. \A i \in DOMAIN old : old[i] \in S /\ \E m \in 1 .. n : old[i] = ids[m]
      BY <1>1, <2>2, <2>6
    <3> QED BY <2>2, <2>6, <3>1, <3>2
  <2>9. CASE ids[n] \in S
    <3>1. k[n] = Append(old, ids[n])
      BY <2>7, <2>9
    <3>2. n \in 1 .. Len(ids) /\ ids[n] \in X
      BY <1>1, <2>2, <2>3
    <3> DEFINE q == Append(old, ids[n])
    <3>3. /\ q \in Seq(X) /\ DOMAIN q = 1 .. Len(old) + 1 /\ q[Len(old) + 1] = ids[n]
          /\ \A i \in 1 .. Len(old) : q[i] = old[i] /\ i \in DOMAIN old
      BY <2>6, <3>2
    <3>4. \A i \in 1 .. Len(old) : \E m \in 1 .. n - 1 : old[i] = ids[m]
      BY <2>6
    <3>5. \A m \in 1 .. n - 1 : ids[m] # ids[n]
      BY <1>1, <3>2 DEF IsInjective
    <3> HIDE DEF q
    <3>6. Len(old) \in Nat
      BY <2>6
    <3>7. IsInjective(q)
      BY <2>6, <3>3, <3>4, <3>5, <3>6 DEF IsInjective
    <3>8. \A i \in DOMAIN q : q[i] \in S /\ \E m \in 1 .. n : q[i] = ids[m]
      <4> SUFFICES ASSUME NEW i \in DOMAIN q PROVE q[i] \in S /\ \E m \in 1 .. n : q[i] = ids[m]
        OBVIOUS
      <4>1. CASE i = Len(old) + 1
        BY <2>9, <3>2, <3>3, <4>1
      <4>2. CASE i # Len(old) + 1
        <5>1. i \in 1 .. Len(old)
          BY <3>3, <3>6, <4>2
        <5> QED BY <2>6, <3>2, <3>3, <3>4, <5>1
      <4> QED BY <4>1, <4>2
    <3>9. k[n] = q
      BY <3>1 DEF q
    <3> QED BY <2>2, <3>3, <3>7, <3>8, <3>9
  <2> QED BY <2>8, <2>9
<1>5. ToSet(k[Len(ids)]) \subseteq ToSet(ids) \cap S
  BY <1>1, <1>4 DEF ToSet
<1> QED BY <1>2, <1>4, <1>5
\* A stretch of a sequence that repeats nothing repeats nothing.
LEMMA SubSeqFacts ==
  ASSUME NEW X, NEW rows \in Seq(X), IsInjective(rows), NEW i \in Nat, NEW j \in Nat, i >= 1, j <= Len(rows)
  PROVE  /\ SubSeq(rows, i, j) \in Seq(X) /\ IsInjective(SubSeq(rows, i, j))
         /\ ToSet(SubSeq(rows, i, j)) \subseteq ToSet(rows)
<1> DEFINE q == SubSeq(rows, i, j)
<1>1. /\ q \in Seq(X) /\ Len(rows) \in Nat /\ DOMAIN rows = 1 .. Len(rows)
      /\ \A k \in DOMAIN q : q[k] = rows[k + i - 1] /\ k + i - 1 \in DOMAIN rows /\ k \in Nat
  OBVIOUS
<1> HIDE DEF q
<1>2. IsInjective(q)
  BY <1>1 DEF IsInjective
<1>3. ToSet(q) \subseteq ToSet(rows)
  BY <1>1 DEF ToSet
<1> QED BY <1>1, <1>2, <1>3 DEF q

\* The page of rows that repeat nothing.
LEMMA PageAtFacts ==
  ASSUME NEW f \in Filters, NEW rows \in Seq(FeedCards), IsInjective(rows)
  PROVE  /\ PageAt(f, rows) \in Seq(FeedCards) /\ IsInjective(PageAt(f, rows))
         /\ ToSet(PageAt(f, rows)) \subseteq ToSet(rows)
<1> DEFINE i == f.offset + 1
           j == AtMost(Len(rows), WantedRows(f))
<1>1. i \in Nat /\ i >= 1 /\ j \in Nat /\ j <= Len(rows)
  BY FeedAssumption DEF Filters, AtMost, WantedRows
<1> HIDE DEF i, j
<1>2. PageAt(f, rows) = SubSeq(rows, i, j)
  BY DEF PageAt, i, j
<1> QED BY <1>1, <1>2, SubSeqFacts

\* The page of a statement names different listings, and only ones it lets through.
LEMMA PagesFacts ==
  ASSUME NEW S \in SUBSET FeedCards, NEW n \in Nat, NEW p,
         p \in PagesOf(S, n) \/ p \in ScansOf(S, n)
  PROVE  p \in Seq(FeedCards) /\ IsInjective(p) /\ ToSet(p) \subseteq S
<1>1. PICK k \in Nat : p \in PagesOf(S, k)
  BY DEF ScansOf
<1> DEFINE m == AtMost(Cardinality(S), k)
<1>2. m \in Nat
  BY FeedAssumption, FS_Subset, FS_CardinalityType DEF AtMost
<1> HIDE DEF m
<1>3. p \in [1 .. m -> S] /\ IsInjective(p)
  BY <1>1 DEF PagesOf, m
<1> QED BY <1>2, <1>3 DEF ToSet

\* Rows that share nothing make rows that repeat nothing.
LEMMA ConcatFacts ==
  ASSUME NEW X, NEW a \in Seq(X), NEW b \in Seq(X), IsInjective(a), IsInjective(b),
         ToSet(a) \cap ToSet(b) = {}
  PROVE  a \o b \in Seq(X) /\ IsInjective(a \o b) /\ ToSet(a \o b) \subseteq ToSet(a) \cup ToSet(b)
<1> DEFINE q == a \o b
<1>1. /\ Len(a) \in Nat /\ Len(b) \in Nat /\ DOMAIN a = 1 .. Len(a) /\ DOMAIN b = 1 .. Len(b)
      /\ q \in Seq(X) /\ DOMAIN q = 1 .. Len(a) + Len(b)
      /\ \A k \in DOMAIN q : q[k] = IF k <= Len(a) THEN a[k] ELSE b[k - Len(a)]
  OBVIOUS
<1> HIDE DEF q
<1>2. \A k \in DOMAIN q : \/ k \in DOMAIN a /\ q[k] = a[k]
                          \/ k - Len(a) \in DOMAIN b /\ q[k] = b[k - Len(a)]
  BY <1>1
<1>3. \A k \in DOMAIN a, l \in DOMAIN b : a[k] # b[l]
  BY DEF ToSet
<1>4. IsInjective(q)
  <2> SUFFICES ASSUME NEW k \in DOMAIN q, NEW l \in DOMAIN q, q[k] = q[l] PROVE k = l
    BY DEF IsInjective
  <2>1. k \in Nat /\ l \in Nat
    BY <1>1
  <2>2. \/ k \in DOMAIN a /\ q[k] = a[k] /\ l \in DOMAIN a /\ q[l] = a[l]
        \/ k - Len(a) \in DOMAIN b /\ q[k] = b[k - Len(a)] /\ l - Len(a) \in DOMAIN b /\ q[l] = b[l - Len(a)]
    BY <1>2, <1>3
  <2> QED BY <1>1, <2>1, <2>2 DEF IsInjective
<1>5. ToSet(q) \subseteq ToSet(a) \cup ToSet(b)
  BY <1>2 DEF ToSet
<1> QED BY <1>1, <1>4, <1>5 DEF q

\* Part of a draw, and part of a row.
LEMMA DrawnPart ==
  ASSUME NEW key, NEW ids, Drawn(key, ids), NEW some, IsInjective(some), ToSet(some) \subseteq ToSet(ids)
  PROVE  Drawn(key, some)
BY OfOneTastePart DEF Drawn

\* Part of a row answers what the row answers.
LEMMA FillsPart ==
  ASSUME NEW f, NEW rows, Fills(rows, f), NEW page, page \in Seq(FeedCards), IsInjective(page),
         ToSet(page) \subseteq ToSet(rows)
  PROVE  Fills(page, f)
BY OfOneTastePart DEF Fills

\* What was drawn for a filter answers it.
LEMMA DrawnFills ==
  ASSUME NEW f \in Filters, NEW ids \in Seq(FeedCards), Drawn(feedCacheKey(f), ids)
  PROVE  Fills(ids, f)
BY DEF Drawn, Fills, feedCacheKey
\* The stages a home page goes through end with the page sent.
LEMMA StagesGoOn ==
  \A s \in ShelfNames : /\ StageAfter(s) \in (ShelfNames \ {"viewed"}) \cup {"sent"}
                        /\ StageAfter(s) = "interests" => s = "viewed"
<1> TAKE s \in ShelfNames
<1> DEFINE i == CHOOSE k \in 1 .. 6 : ShelfStages[k] = s
<1>1. \E k \in 1 .. 6 : ShelfStages[k] = s
  <2>1. /\ ShelfStages[1] = "viewed" /\ ShelfStages[2] = "interests" /\ ShelfStages[3] = "trending"
        /\ ShelfStages[4] = "best-selling" /\ ShelfStages[5] = "rating" /\ ShelfStages[6] = "newest"
    BY DEF ShelfStages
  <2>2. 1 \in 1 .. 6 /\ 2 \in 1 .. 6 /\ 3 \in 1 .. 6 /\ 4 \in 1 .. 6 /\ 5 \in 1 .. 6 /\ 6 \in 1 .. 6
    OBVIOUS
  <2> QED BY <2>1, <2>2 DEF ShelfNames
<1>2. i \in 1 .. 6 /\ ShelfStages[i] = s
  BY <1>1
<1>3. StageAfter(s) = ShelfStages[1 + i]
  BY DEF StageAfter
<1> HIDE DEF i
<1>4. 1 + i \in {2, 3, 4, 5, 6, 7}
  BY <1>2
<1>5. \A k \in {2, 3, 4, 5, 6, 7} : ShelfStages[k] \in (ShelfNames \ {"viewed"}) \cup {"sent"}
  BY DEF ShelfStages, ShelfNames
<1>6. \A k \in {2, 3, 4, 5, 6, 7} : ShelfStages[k] = "interests" => k = 2
  BY DEF ShelfStages
<1>7. ShelfStages[1 + i] = "interests" => i = 1 /\ ShelfStages[1] = s
  BY <1>2, <1>4, <1>6
<1>8. ShelfStages[1] = "viewed"
  BY DEF ShelfStages
<1> QED BY <1>3, <1>4, <1>5, <1>7, <1>8

\* A filter as it starts, and a tab that is not in use.
LEMMA FilterKinds ==
  /\ \A sort \in Sorts, exclude \in SUBSET FeedCards :
       /\ ListingFilter(sort, exclude) \in Filters
       /\ ListingFilter(sort, exclude).sort = sort /\ ListingFilter(sort, exclude).exclude = exclude
       /\ ListingFilter(sort, exclude).category = AnyCategory /\ ~ListingFilter(sort, exclude).matched
       /\ ListingFilter(sort, exclude).taste = {}
  /\ <<>> \in Interests /\ FeedTastes \subseteq Interests
  /\ NoTab \in Tabs
<1>1. ASSUME NEW sort \in Sorts, NEW exclude \in SUBSET FeedCards
      PROVE  /\ ListingFilter(sort, exclude) \in Filters
             /\ ListingFilter(sort, exclude).sort = sort /\ ListingFilter(sort, exclude).exclude = exclude
             /\ ListingFilter(sort, exclude).category = AnyCategory /\ ~ListingFilter(sort, exclude).matched
             /\ ListingFilter(sort, exclude).taste = {}
  <2>1. {} \in SUBSET SUBSET FeedCards /\ 0 \in Nat /\ FALSE \in BOOLEAN /\ AnyCategory \in STRING \cup {AnyCategory}
    OBVIOUS
  <2>2. ListingFilter(sort, exclude) \in Filters
    BY <2>1 DEF ListingFilter, Filters
  <2> QED BY <2>2 DEF ListingFilter
<1>2. <<>> \in Interests
  BY DEF Interests
<1>3. FeedTastes \subseteq Interests
  BY FeedAssumption
<1>4. ListingFilter("newest", {}) \in Filters
  BY <1>1 DEF Sorts
<1>5. /\ <<>> \in Seq(FeedCards) /\ <<>> \in Seq(Shelves) /\ {} \in SUBSET FeedCards /\ {} \in SUBSET STRING
      /\ "idle" \in TabStages /\ "plan" \in TabPhases
  BY DEF TabStages, TabPhases
<1>6. NoTab \in Tabs
  BY <1>2, <1>4, <1>5 DEF NoTab, Tabs
<1> QED BY <1>1, <1>2, <1>3, <1>6

\* Between two shelves: the page as it was built, waiting for nothing.
LEMMA BetweenIs ==
  ASSUME NEW tab \in Tabs
  PROVE  LET b == BetweenShelves(tab) IN
         /\ b \in Tabs /\ b.phase = "plan" /\ b.stage = tab.stage /\ b.slot = tab.slot
         /\ b.page = tab.page /\ b.seen = tab.seen /\ b.names = tab.names
         /\ b.anchor = tab.anchor /\ b.tastes = tab.tastes
<1> DEFINE b == BetweenShelves(tab)
<1>1. NoTab.filter \in Filters /\ <<>> \in Seq(FeedCards) /\ "plan" \in TabPhases /\ NoSubject \in STRING \cup {NoSubject}
  BY FilterKinds DEF Tabs, TabPhases
<1>2. b \in Tabs
  BY <1>1 DEF BetweenShelves, Tabs
<1> QED BY <1>2 DEF BetweenShelves, Tabs

\* The next stage starts without interests and names, and on the page as it was built.
LEMMA NextStageIs ==
  ASSUME NEW tab \in Tabs, tab.stage \in ShelfNames
  PROVE  LET to == NextStage(tab) IN
         /\ to \in Tabs /\ to.phase = "plan" /\ to.stage \in (ShelfNames \ {"viewed"}) \cup {"sent"}
         /\ to.stage = "interests" => tab.stage = "viewed"
         /\ to.page = tab.page /\ to.seen = tab.seen /\ to.anchor = tab.anchor
         /\ to.slot = 0 /\ to.tastes = <<>>
<1> DEFINE b == BetweenShelves(tab)
           next == StageAfter(tab.stage)
<1>1. /\ b \in Tabs /\ b.phase = "plan" /\ b.stage = tab.stage
      /\ b.page = tab.page /\ b.seen = tab.seen /\ b.anchor = tab.anchor
  BY BetweenIs
<1>2. /\ next \in (ShelfNames \ {"viewed"}) \cup {"sent"} /\ next \in TabStages
      /\ next = "interests" => tab.stage = "viewed"
  BY StagesGoOn DEF ShelfNames, TabStages
<1>3. 0 \in Nat /\ <<>> \in Interests /\ {} \in SUBSET STRING
  BY FilterKinds
<1>4. NextStage(tab) = [b EXCEPT !.stage = next, !.slot = 0, !.tastes = <<>>, !.names = {}]
  BY <1>1 DEF NextStage, Tabs
<1> HIDE DEF b, next
<1>5. NextStage(tab) \in Tabs
  BY <1>1, <1>2, <1>3, <1>4 DEF Tabs
<1> QED BY <1>1, <1>2, <1>4, <1>5 DEF Tabs

\* A page may go on to its next stage when its anchor is seen: the rows the interests
\* left are named once, and no further row takes one of their names.
LEMMA NextStageFits ==
  ASSUME NEW tab \in Tabs, tab.stage \in ShelfNames, PageFits(tab), tab.anchor \in tab.seen \cup {NoCard}
  PROVE  NextStage(tab) \in Tabs /\ TabFits(NextStage(tab))
<1>1. PICK to \in Tabs : to = NextStage(tab)
  BY NextStageIs
<1>2. /\ to.phase = "plan" /\ to.stage \in (ShelfNames \ {"viewed"}) \cup {"sent"}
      /\ to.stage = "interests" => tab.stage = "viewed"
      /\ to.page = tab.page /\ to.seen = tab.seen /\ to.anchor = tab.anchor
      /\ to.slot = 0 /\ to.tastes = <<>>
  BY <1>1, NextStageIs
<1>3. to.stage # "viewed"
  BY <1>2
<1>4. PageFits(to)
  BY <1>2, <1>3 DEF PageFits
<1>5. StageFits(to)
  BY <1>2, <1>3 DEF StageFits
<1> QED BY <1>1, <1>2, <1>4, <1>5 DEF TabFits, ShelfNames, TabStages, TabPhases

\* A page may go on whatever became of the shelf, when its anchor is seen.
LEMMA OnwardFits ==
  ASSUME NEW tab \in Tabs, tab.stage \in ShelfNames, PageFits(tab), tab.anchor \in tab.seen \cup {NoCard},
         tab.tastes \in tastesHad \cup {<<>>}
  PROVE  Onward(tab) \in Tabs /\ TabFits(Onward(tab))
<1>1. CASE tab.stage = "interests" /\ tab.slot < Len(tab.tastes)
  <2> DEFINE b == BetweenShelves(tab)
  <2>1. /\ b \in Tabs /\ b.phase = "plan" /\ b.stage = tab.stage /\ b.slot = tab.slot
        /\ b.page = tab.page /\ b.seen = tab.seen /\ b.names = tab.names
        /\ b.anchor = tab.anchor /\ b.tastes = tab.tastes
    BY BetweenIs
  <2>2. Onward(tab) = [b EXCEPT !.slot = @ + 1]
    BY <1>1 DEF Onward
  <2> HIDE DEF b
  <2>3. b.slot + 1 \in Nat
    BY <2>1 DEF Tabs
  <2>4. PICK to \in Tabs : to = Onward(tab)
    BY <2>1, <2>2, <2>3 DEF Tabs
  <2>5. /\ to.phase = "plan" /\ to.stage = "interests" /\ to.slot = tab.slot + 1
        /\ to.page = tab.page /\ to.seen = tab.seen /\ to.names = tab.names
        /\ to.anchor = tab.anchor /\ to.tastes = tab.tastes
    BY <1>1, <2>1, <2>2, <2>4 DEF Tabs
  <2>6. tab.slot + 1 <= Len(tab.tastes)
    BY <1>1 DEF Tabs, Interests
  <2>7. PageFits(to)
    BY <1>1, <2>5 DEF PageFits
  <2>8. StageFits(to)
    BY <2>5, <2>6 DEF StageFits
  <2> QED BY <2>4, <2>5, <2>7, <2>8 DEF TabFits, ShelfNames, TabStages, TabPhases
<1>2. CASE ~(tab.stage = "interests" /\ tab.slot < Len(tab.tastes))
  <2>1. Onward(tab) = NextStage(tab)
    BY <1>2 DEF Onward
  <2> QED BY <2>1, NextStageFits
<1> QED BY <1>1, <1>2

\* becauseYouViewed shows what its row is about whatever became of the row.
LEMMA LeaveFits ==
  ASSUME NEW tab \in Tabs, tab.stage \in ShelfNames, PageFits(tab),
         tab.stage # "viewed" => tab.anchor \in tab.seen \cup {NoCard},
         tab.tastes \in tastesHad \cup {<<>>}
  PROVE  Onward(WithAnchor(tab)) \in Tabs /\ TabFits(Onward(WithAnchor(tab)))
<1> DEFINE to == WithAnchor(tab)
<1>1. /\ to \in Tabs /\ to.stage = tab.stage /\ to.page = tab.page /\ to.names = tab.names
      /\ to.anchor = tab.anchor /\ to.tastes = tab.tastes
      /\ tab.seen \subseteq to.seen /\ to.anchor \in to.seen \cup {NoCard}
  BY DEF WithAnchor, Tabs
<1> HIDE DEF to
<1>2. PageFits(to)
  BY <1>1 DEF PageFits
<1>3. Onward(to) \in Tabs /\ TabFits(Onward(to))
  BY <1>1, <1>2, OnwardFits
<1> QED BY <1>3 DEF to

\* A shelf that answers its filter fits under the ones that are there.
LEMMA AddFits ==
  ASSUME NEW tab \in Tabs, tab.stage \in ShelfNames, PageFits(tab), StageFits(tab), RetrievalFits(tab),
         NEW rows, Fills(rows, tab.filter)
  PROVE  AddShelf(tab, rows) \in Tabs /\ TabFits(AddShelf(tab, rows))
<1> DEFINE f == tab.filter
           row == [reason |-> tab.stage, slot |-> tab.slot, subject |-> tab.subject, rows |-> rows]
           up == [tab EXCEPT !.page = Append(@, row), !.seen = @ \cup ToSet(rows)]
           n == Len(tab.page) + 1
<1>1. CASE Len(rows) < ShelfMin
  BY <1>1, LeaveFits DEF AddShelf, StageFits
<1>2. CASE ~(Len(rows) < ShelfMin)
  <2>1. rows \in Seq(FeedCards) /\ IsInjective(rows) /\ ToSet(rows) \subseteq FeedCards
    BY DEF Fills, ToSet
  <2>2. \A c \in ToSet(rows) : c \notin f.exclude /\ c \in FeedCards
    BY <2>1 DEF Fills
  <2>3. row \in Shelves
    BY <2>1 DEF Tabs, Shelves
  <2>4. /\ row.reason = tab.stage /\ row.slot = tab.slot /\ row.subject = tab.subject /\ row.rows = rows
    OBVIOUS
  <2>5. tab.page \in Seq(Shelves) /\ tab.seen \subseteq FeedCards
    BY DEF Tabs
  <2> HIDE DEF row
  <2>6. /\ up \in Tabs /\ up.stage = tab.stage /\ up.names = tab.names /\ up.anchor = tab.anchor
        /\ up.tastes = tab.tastes /\ up.page = Append(tab.page, row) /\ up.seen = tab.seen \cup ToSet(rows)
    <3>1. Append(tab.page, row) \in Seq(Shelves) /\ tab.seen \cup ToSet(rows) \in SUBSET FeedCards
      BY <2>1, <2>3, <2>5
    <3> QED BY <3>1 DEF Tabs
  <2>7. /\ DOMAIN tab.page = 1 .. Len(tab.page) /\ Len(tab.page) \in Nat
        /\ DOMAIN up.page = 1 .. n /\ up.page[n] = row /\ n \in Nat
        /\ \A i \in DOMAIN tab.page : up.page[i] = tab.page[i]
        /\ \A i \in DOMAIN up.page : i \in DOMAIN tab.page \/ i = n
    BY <2>3, <2>5, <2>6
  <2> HIDE DEF up, n
  <2>8. \A i \in DOMAIN tab.page : ToSet(tab.page[i].rows) \subseteq tab.seen
    BY DEF PageFits
  <2>9. \A i \in DOMAIN tab.page : ToSet(tab.page[i].rows) \cap ToSet(rows) = {}
    BY <2>2, <2>8 DEF RetrievalFits
  <2>10. \A i, j \in DOMAIN up.page : i # j => ToSet(up.page[i].rows) \cap ToSet(up.page[j].rows) = {}
    <3> SUFFICES ASSUME NEW i \in DOMAIN up.page, NEW j \in DOMAIN up.page, i # j
                 PROVE  ToSet(up.page[i].rows) \cap ToSet(up.page[j].rows) = {}
      OBVIOUS
    <3>1. CASE i \in DOMAIN tab.page /\ j \in DOMAIN tab.page
      BY <2>7, <3>1 DEF PageFits
    <3>2. CASE i = n
      BY <2>4, <2>7, <2>9, <3>2
    <3>3. CASE j = n
      BY <2>4, <2>7, <2>9, <3>3
    <3> QED BY <2>7, <3>1, <3>2, <3>3
  <2>11. ASSUME NEW i \in DOMAIN tab.page, row.reason = "interests" /\ tab.page[i].reason = "interests"
         PROVE  tab.page[i].subject # row.subject
    BY <2>4, <2>11 DEF RetrievalFits
  <2>12. \A i, j \in DOMAIN up.page :
           up.page[i].reason = "interests" /\ up.page[j].reason = "interests"
             /\ up.page[i].subject = up.page[j].subject => i = j
    <3> SUFFICES ASSUME NEW i \in DOMAIN up.page, NEW j \in DOMAIN up.page,
                        up.page[i].reason = "interests", up.page[j].reason = "interests",
                        up.page[i].subject = up.page[j].subject
                 PROVE  i = j
      OBVIOUS
    <3>1. CASE i \in DOMAIN tab.page /\ j \in DOMAIN tab.page
      BY <2>7, <3>1 DEF PageFits
    <3>2. CASE i \in DOMAIN tab.page /\ j = n
      BY <2>7, <2>11, <3>2
    <3>3. CASE i = n /\ j \in DOMAIN tab.page
      BY <2>7, <2>11, <3>3
    <3> QED BY <2>7, <3>1, <3>2, <3>3
  <2>13. tab.anchor \notin ToSet(rows)
    <3>1. NoCard \notin ToSet(rows)
      BY <2>2, FeedAssumption
    <3>2. CASE tab.stage = "viewed"
      BY <2>2, <3>2 DEF RetrievalFits
    <3>3. CASE tab.stage # "viewed"
      BY <2>2, <3>1, <3>3 DEF RetrievalFits, StageFits
    <3> QED BY <3>2, <3>3
  <2>14. tab.stage = "interests" => tab.subject \in tab.names /\ OfOneTaste(tab.slot, ToSet(rows)) /\ ToSet(rows) \cap OwnCards = {}
    BY DEF RetrievalFits, Fills
  <2>15. \A i \in DOMAIN up.page :
           LET at == up.page[i]  shown == ToSet(at.rows) IN
           /\ at.reason \in ShelfNames /\ IsInjective(at.rows)
           /\ shown \subseteq up.seen /\ up.anchor \notin shown
           /\ at.reason = "interests" =>
                             /\ up.stage # "viewed" /\ (up.stage = "interests" => at.subject \in up.names)
                             /\ OfOneTaste(at.slot, shown) /\ shown \cap OwnCards = {}
    <3> SUFFICES ASSUME NEW i \in DOMAIN up.page
                 PROVE  LET at == up.page[i]  shown == ToSet(at.rows) IN
                        /\ at.reason \in ShelfNames /\ IsInjective(at.rows)
                        /\ shown \subseteq up.seen /\ up.anchor \notin shown
                        /\ at.reason = "interests" =>
                             /\ up.stage # "viewed" /\ (up.stage = "interests" => at.subject \in up.names)
                             /\ OfOneTaste(at.slot, shown) /\ shown \cap OwnCards = {}
      OBVIOUS
    <3>1. CASE i \in DOMAIN tab.page
      BY <2>6, <2>7, <3>1 DEF PageFits
    <3>2. CASE i = n
      BY <2>1, <2>4, <2>6, <2>7, <2>13, <2>14, <3>2
    <3> QED BY <2>7, <3>1, <3>2
  <2>16. PageFits(up)
    BY <2>10, <2>12, <2>15 DEF PageFits
  <2>17. up.stage # "viewed" => up.anchor \in up.seen \cup {NoCard}
    BY <2>6 DEF StageFits
  <2>18. up.tastes \in tastesHad \cup {<<>>}
    BY <2>6 DEF StageFits
  <2>19. AddShelf(tab, rows) = Onward(WithAnchor(up))
    BY <1>2 DEF AddShelf, up, row
  <2> QED BY <2>6, <2>16, <2>17, <2>18, <2>19, LeaveFits
<1> QED BY <1>1, <1>2

\* A page goes on without a row.
LEMMA FailFits ==
  ASSUME NEW tab \in Tabs, TabFits(tab), tab.stage \in ShelfNames \cup {"feed"}
  PROVE  FailRow(tab) \in Tabs /\ TabFits(FailRow(tab))
<1>1. CASE tab.stage = "feed"
  <2> DEFINE to == [NoTab EXCEPT !.stage = "sent"]
  <2>1. FailRow(tab) = to
    BY <1>1 DEF FailRow
  <2>2. "sent" \in TabStages
    BY DEF TabStages
  <2>3. to \in Tabs
    BY <2>2, FilterKinds DEF Tabs
  <2>4. to.stage = "sent" /\ to.page = <<>>
    BY DEF NoTab
  <2> HIDE DEF to
  <2>5. PageFits(to)
    BY <2>4 DEF PageFits
  <2> QED BY <2>1, <2>3, <2>4, <2>5 DEF TabFits, ShelfNames
<1>2. CASE tab.stage \in ShelfNames
  <2>1. FailRow(tab) = Onward(WithAnchor(tab))
    BY <1>2 DEF FailRow, ShelfNames
  <2>2. PageFits(tab) /\ StageFits(tab)
    BY <1>2 DEF TabFits
  <2> QED BY <1>2, <2>1, <2>2, LeaveFits DEF StageFits
<1> QED BY <1>1, <1>2

\* Whatever answers the filter of a retrieval, or does not come, the page is sound.
LEMMA AnswersFit ==
  ASSUME NEW tab \in Tabs, TabFits(tab), tab.stage \in ShelfNames \cup {"feed"}, tab.phase \notin {"plan", "anchor"},
         NEW rows, Fills(rows, tab.filter)
  PROVE  \A to \in Answers(tab, rows) : to \in Tabs /\ TabFits(to)
<1>1. FailRow(tab) \in Tabs /\ TabFits(FailRow(tab))
  BY FailFits
<1>2. CASE tab.stage \in ShelfNames
  <2>1. tab.stage # "feed"
    BY <1>2 DEF ShelfNames
  <2>2. PageFits(tab) /\ StageFits(tab) /\ RetrievalFits(tab)
    BY <1>2 DEF TabFits
  <2>3. AddShelf(tab, rows) \in Tabs /\ TabFits(AddShelf(tab, rows))
    BY <1>2, <2>2, AddFits
  <2> QED BY <1>1, <2>1, <2>3 DEF Answers
<1>3. CASE tab.stage = "feed"
  <2> DEFINE row == [reason |-> "feed", slot |-> 0, subject |-> NoSubject, rows |-> rows]
             to == [tab EXCEPT !.stage = "sent", !.phase = "plan", !.ids = <<>>, !.rows = <<>>, !.page = <<row>>]
  <2>1. rows \in Seq(FeedCards) /\ tab.anchor = NoCard
    BY <1>3 DEF Fills, TabFits, ShelfNames
  <2>2. "sent" \in TabStages /\ "feed" \in TabStages /\ "plan" \in TabPhases /\ <<>> \in Seq(FeedCards)
    BY DEF TabStages, TabPhases
  <2>3. row \in Shelves /\ row.reason = "feed" /\ row.rows = rows
    BY <2>1, <2>2 DEF Shelves
  <2> HIDE DEF row
  <2>4. <<row>> \in Seq(Shelves) /\ DOMAIN <<row>> = {1} /\ <<row>>[1] = row
    BY <2>3
  <2>5. to \in Tabs /\ to.stage = "sent" /\ to.page = <<row>> /\ to.anchor = tab.anchor /\ to.filter = tab.filter
    BY <2>2, <2>4 DEF Tabs
  <2>6. ListAnswer(tab, rows) = to
    BY DEF ListAnswer, row
  <2> HIDE DEF to
  <2>7. TabFits(to)
    BY <2>1, <2>3, <2>4, <2>5 DEF TabFits, ShelfNames
  <2> QED BY <1>1, <1>3, <2>5, <2>6, <2>7 DEF Answers
<1> QED BY <1>2, <1>3

\* The requests in flight are of their kind and fit.
LEMMA FlightFits ==
  ASSUME FeedInv, NEW t \in FeedTabs
  PROVE  feedTab[t] \in Tabs /\ TabFits(feedTab[t])
BY DEF FeedInv, FeedReadTypeOK

\* A read between two shelves belongs to a page, a retrieval to a page or a browse.
LEMMA AtFacts ==
  ASSUME FeedInv, NEW t \in FeedTabs, NEW phase, FeedAt(t, phase), NEW tab \in Tabs, tab = feedTab[t]
  PROVE  /\ tab.phase = phase /\ tab.stage \in ShelfNames \cup {"feed"} /\ TabFits(tab)
         /\ phase \in {"plan", "anchor"} => tab.stage \in ShelfNames
         /\ phase \notin {"plan", "anchor"} => RetrievalFits(tab)
         /\ tab.stage \in ShelfNames => PageFits(tab) /\ StageFits(tab)
<1>1. TabFits(tab)
  BY FlightFits
<1>2. tab.phase = phase /\ tab.stage \notin {"idle", "sent"}
  BY DEF FeedAt
<1>3. tab.stage \in ShelfNames \cup {"feed"}
  BY <1>2 DEF Tabs, TabStages, ShelfNames
<1> QED BY <1>1, <1>2, <1>3 DEF TabFits

\* Two pages with the same rows, names and anchor fit alike.
LEMMA SamePage ==
  ASSUME NEW tab, NEW to, PageFits(tab), to.stage = tab.stage, to.page = tab.page, to.seen = tab.seen,
         to.anchor = tab.anchor, tab.names \subseteq to.names
  PROVE  PageFits(to)
BY DEF PageFits

\* A step of a tab.
Steps(t) == \E to \in Tabs : TabFits(to) /\ PutTab(t, to) /\ FeedReads

\* A home page is asked for.
LEMMA ListShelvesFits ==
  ASSUME FeedInv, NEW t \in FeedTabs, NEW signed \in BOOLEAN, ListShelves(t, signed)
  PROVE  Steps(t)
<1>1. PICK s \in {"viewed", "trending"} : PutTab(t, [NoTab EXCEPT !.stage = s])
  BY DEF ListShelves
<1> DEFINE to == [NoTab EXCEPT !.stage = s]
<1>2. s \in TabStages
  BY DEF TabStages
<1>3. to \in Tabs
  BY <1>2, FilterKinds DEF Tabs
<1>4. /\ to.stage = s /\ to.phase = "plan" /\ to.page = <<>> /\ to.anchor = NoCard /\ to.tastes = <<>>
  BY DEF NoTab
<1> HIDE DEF to
<1>5. PageFits(to)
  BY <1>4 DEF PageFits
<1>6. StageFits(to)
  BY <1>4 DEF StageFits
<1>7. TabFits(to)
  BY <1>4, <1>5, <1>6 DEF TabFits, ShelfNames
<1>8. PutTab(t, to)
  BY <1>1 DEF to
<1> QED BY <1>3, <1>7, <1>8 DEF ListShelves, Steps

\* The recent views are read.
LEMMA becauseYouViewedFits ==
  ASSUME FeedInv, NEW t \in FeedTabs, becauseYouViewed(t)
  PROVE  Steps(t)
<1>1. PICK tab \in Tabs : tab = feedTab[t]
  BY FlightFits
<1>2. FeedAt(t, "plan") /\ tab.stage = "viewed"
  BY <1>1 DEF becauseYouViewed
<1>3. tab.phase = "plan" /\ tab.stage \in ShelfNames /\ PageFits(tab) /\ StageFits(tab)
  BY <1>1, <1>2, AtFacts
<1>4. CASE glanced = <<>>
  <2>1. Onward(tab) \in Tabs /\ TabFits(Onward(tab))
    BY <1>2, <1>3, OnwardFits DEF StageFits
  <2> QED BY <1>1, <1>4, <2>1 DEF becauseYouViewed, Steps
<1>5. CASE glanced # <<>>
  <2>1. glanced \in Seq(FeedCards) /\ "anchor" \in TabPhases
    BY FeedAssumption DEF FeedInv, FeedReadTypeOK, TabPhases
  <2>2. PICK views \in Seq(FeedCards) : views = glanced
    BY <2>1
  <2> DEFINE to == [tab EXCEPT !.phase = "anchor", !.views = views]
  <2>3. /\ to \in Tabs /\ to.stage = tab.stage /\ to.phase = "anchor" /\ to.views = views /\ to.page = tab.page
        /\ to.seen = tab.seen /\ to.names = tab.names /\ to.anchor = tab.anchor /\ to.tastes = tab.tastes
    BY <2>1 DEF Tabs
  <2>4. PutTab(t, to)
    BY <1>1, <1>5, <2>2 DEF becauseYouViewed
  <2> HIDE DEF to
  <2>5. PageFits(to)
    BY <1>3, <2>3, SamePage
  <2>6. StageFits(to)
    BY <1>2, <1>3, <1>5, <2>2, <2>3 DEF StageFits
  <2>7. TabFits(to)
    BY <1>2, <2>3, <2>5, <2>6 DEF TabFits
  <2> QED BY <2>3, <2>4, <2>7 DEF becauseYouViewed, Steps
<1> QED BY <1>4, <1>5

\* One view is looked at.
LEMMA nextAnchorFits ==
  ASSUME FeedInv, NEW t \in FeedTabs, nextAnchor(t)
  PROVE  Steps(t)
<1>1. PICK tab \in Tabs : tab = feedTab[t]
  BY FlightFits
<1>2. tab.phase = "anchor" /\ tab.stage \in ShelfNames /\ PageFits(tab) /\ StageFits(tab)
  BY <1>1, AtFacts DEF nextAnchor
<1>3. tab.stage = "viewed" /\ tab.views \in Seq(FeedCards) /\ tab.views # <<>> /\ tab.page = <<>> /\ tab.anchor = NoCard
  BY <1>2 DEF StageFits, Tabs
<1> DEFINE c == Head(tab.views)
<1>4. c \in FeedCards
  BY <1>3
<1> HIDE DEF c
<1>5. CASE c \in onSale \cap FeedEmbedded
  <2> DEFINE f == ListingFilter("relevance", tab.seen \cup {c})
             to == [tab EXCEPT !.phase = "browse", !.anchor = c, !.filter = f]
  <2>1. tab.seen \cup {c} \in SUBSET FeedCards /\ "relevance" \in Sorts /\ "browse" \in TabPhases
    BY <1>4 DEF Tabs, Sorts, TabPhases
  <2>2. f \in Filters /\ f.exclude = tab.seen \cup {c} /\ ~f.matched /\ f.sort = "relevance"
    BY <2>1, FilterKinds
  <2> HIDE DEF f
  <2>3. /\ to \in Tabs /\ to.stage = tab.stage /\ to.phase = "browse" /\ to.page = tab.page
        /\ to.seen = tab.seen /\ to.names = tab.names /\ to.anchor = c /\ to.tastes = tab.tastes
        /\ to.filter = f
    BY <1>4, <2>1, <2>2 DEF Tabs
  <2>4. PutTab(t, to)
    BY <1>1, <1>5 DEF nextAnchor, c, f
  <2> HIDE DEF to
  <2>5. PageFits(to)
    BY <1>3, <2>3 DEF PageFits
  <2>6. StageFits(to)
    BY <1>2, <1>3, <2>3 DEF StageFits
  <2>7. RetrievalFits(to)
    BY <1>3, <2>2, <2>3 DEF RetrievalFits, DrawPhases
  <2>8. TabFits(to)
    BY <1>3, <2>3, <2>5, <2>6, <2>7 DEF TabFits
  <2> QED BY <2>3, <2>4, <2>8 DEF nextAnchor, Steps
<1>6. CASE c \notin onSale \cap FeedEmbedded /\ Len(tab.views) = 1
  <2>1. Onward(tab) \in Tabs /\ TabFits(Onward(tab))
    BY <1>2, <1>3, OnwardFits DEF StageFits
  <2>2. PutTab(t, Onward(tab))
    BY <1>1, <1>6 DEF nextAnchor, c
  <2>3. FeedReads
    BY DEF nextAnchor
  <2> QED BY <2>1, <2>2, <2>3 DEF Steps, PutTab
<1>7. CASE c \notin onSale \cap FeedEmbedded /\ Len(tab.views) # 1
  <2>1. Tail(tab.views) \in Seq(FeedCards) /\ Tail(tab.views) # <<>>
    <3> DEFINE q == tab.views
    <3>1. q \in Seq(FeedCards) /\ q # <<>> /\ Len(q) # 1
      BY <1>3, <1>7
    <3> HIDE DEF q
    <3>2. Len(q) \in Nat /\ Len(q) # 0
      BY <3>1
    <3>3. Tail(q) \in Seq(FeedCards) /\ Len(Tail(q)) = Len(q) - 1
      BY <3>1
    <3>4. Len(<<>>) = 0
      OBVIOUS
    <3>5. Len(Tail(q)) # 0
      BY <3>1, <3>2, <3>3
    <3>6. Tail(q) # <<>>
      BY <3>4, <3>5
    <3> QED BY <3>3, <3>6 DEF q
  <2>2. PICK views \in Seq(FeedCards) : views = Tail(tab.views)
    BY <2>1
  <2> DEFINE to == [tab EXCEPT !.views = views]
  <2>3. /\ to \in Tabs /\ to.stage = tab.stage /\ to.phase = "anchor" /\ to.views = views /\ to.page = tab.page
        /\ to.seen = tab.seen /\ to.names = tab.names /\ to.anchor = tab.anchor /\ to.tastes = tab.tastes
    BY <1>2 DEF Tabs
  <2>4. PutTab(t, to)
    BY <1>1, <1>7, <2>2 DEF nextAnchor, c
  <2> HIDE DEF to
  <2>5. PageFits(to)
    BY <1>2, <2>3, SamePage
  <2>6. StageFits(to)
    BY <1>2, <1>3, <2>1, <2>2, <2>3 DEF StageFits
  <2>7. TabFits(to)
    BY <1>3, <2>3, <2>5, <2>6 DEF TabFits
  <2> QED BY <2>3, <2>4, <2>7 DEF nextAnchor, Steps
<1> QED BY <1>5, <1>6, <1>7

\* The interests are read.
LEMMA readInterestsFits ==
  ASSUME FeedInv, NEW t \in FeedTabs, readInterests(t)
  PROVE  Steps(t)
<1>1. PICK tab \in Tabs : tab = feedTab[t]
  BY FlightFits
<1>2. FeedAt(t, "plan") /\ tab.stage = "interests"
  BY <1>1 DEF readInterests
<1>3. tab.phase = "plan" /\ tab.stage \in ShelfNames /\ PageFits(tab) /\ StageFits(tab)
  BY <1>1, <1>2, AtFacts
<1>4. PICK known \in Interests : known = tastes /\ known \in tastesHad
  BY FeedAssumption DEF FeedInv, FeedReadTypeOK
<1> DEFINE to == [tab EXCEPT !.tastes = known]
<1>5. /\ to \in Tabs /\ to.stage = tab.stage /\ to.page = tab.page
      /\ to.seen = tab.seen /\ to.names = tab.names /\ to.anchor = tab.anchor /\ to.tastes = known
  BY <1>4 DEF Tabs
<1>6. PutTab(t, Onward(to))
  BY <1>1, <1>4 DEF readInterests
<1> HIDE DEF to
<1>7. PageFits(to)
  BY <1>3, <1>5, SamePage
<1>8. to.anchor \in to.seen \cup {NoCard}
  BY <1>2, <1>3, <1>5 DEF StageFits
<1>9. Onward(to) \in Tabs /\ TabFits(Onward(to))
  BY <1>3, <1>4, <1>5, <1>7, <1>8, OnwardFits
<1> QED BY <1>6, <1>9 DEF readInterests, Steps

\* One slot is named and its draw asked for.
LEMMA interestShelvesFits ==
  ASSUME FeedInv, NEW t \in FeedTabs, interestShelves(t)
  PROVE  Steps(t)
<1>1. PICK tab \in Tabs : tab = feedTab[t]
  BY FlightFits
<1>2. FeedAt(t, "plan") /\ tab.stage = "interests" /\ tab.slot > 0
  BY <1>1 DEF interestShelves
<1>3. tab.phase = "plan" /\ tab.stage \in ShelfNames /\ PageFits(tab) /\ StageFits(tab)
  BY <1>1, <1>2, AtFacts
<1>4. tab.anchor \in tab.seen \cup {NoCard} /\ tab.tastes \in tastesHad \cup {<<>>}
      /\ tab.tastes \in Interests /\ tab.slot \in Nat /\ tab.slot <= Len(tab.tastes)
  BY <1>2, <1>3 DEF StageFits, Tabs
<1>5. CASE nameOf(tab) = {} /\ PutTab(t, Onward(tab))
  <2>1. Onward(tab) \in Tabs /\ TabFits(Onward(tab))
    BY <1>2, <1>3, <1>4, OnwardFits
  <2>2. FeedReads
    BY DEF interestShelves
  <2> QED BY <1>5, <2>1, <2>2 DEF Steps, PutTab
<1>6. ASSUME NEW name \in nameOf(tab),
             PutTab(t, [tab EXCEPT !.phase = "get", !.subject = name, !.names = @ \cup {name},
                   !.filter = [ListingFilter("recommended", tab.seen) EXCEPT
                                 !.taste = {tab.tastes[tab.slot].near}, !.seed = tab.slot,
                                 !.matched = TRUE]])
      PROVE  Steps(t)
  <2>1. tab.slot \in DOMAIN tab.tastes
    <3>1. DOMAIN tab.tastes = 1 .. Len(tab.tastes) /\ Len(tab.tastes) \in Nat
      BY <1>4 DEF Interests
    <3> QED BY <1>2, <1>4, <3>1
  <2>2. tab.tastes[tab.slot] \in [near : SUBSET FeedCards, names : Seq(STRING)]
    <3> DEFINE kind == [near : SUBSET FeedCards, names : Seq(STRING)]
               ts == tab.tastes
    <3>1. ts \in Seq(kind) /\ tab.slot \in DOMAIN ts
      BY <1>4, <2>1 DEF Interests
    <3> HIDE DEF kind, ts
    <3>2. ts[tab.slot] \in kind
      BY <3>1
    <3> QED BY <3>2 DEF kind, ts
  <2>3. PICK interest \in [near : SUBSET FeedCards, names : Seq(STRING)] : interest = tab.tastes[tab.slot]
    BY <2>2
  <2>4. name \in STRING /\ name \notin tab.names
    <3>1. interest.names \in Seq(STRING)
      OBVIOUS
    <3>2. PICK k \in DOMAIN interest.names : name = interest.names[k] /\ interest.names[k] \notin tab.names
      BY <1>6, <2>3 DEF nameOf
    <3> QED BY <3>1, <3>2
  <2>5. tab.tastes \in tastesHad
    BY <1>4, <2>1
  <2>6. OfOneTaste(tab.slot, interest.near) /\ interest.near \subseteq FeedCards
    BY <2>1, <2>3, <2>5 DEF OfOneTaste
  <2> DEFINE f == [ListingFilter("recommended", tab.seen) EXCEPT
                     !.taste = {interest.near}, !.seed = tab.slot, !.matched = TRUE]
             to == [tab EXCEPT !.phase = "get", !.subject = name, !.names = @ \cup {name}, !.filter = f]
  <2>7. tab.seen \in SUBSET FeedCards /\ "recommended" \in Sorts /\ "get" \in TabPhases
    BY DEF Tabs, Sorts, TabPhases
  <2>8. PICK g \in Filters : g = ListingFilter("recommended", tab.seen) /\ g.exclude = tab.seen /\ g.sort = "recommended"
    BY <2>7, FilterKinds
  <2>9. {interest.near} \in SUBSET SUBSET FeedCards
    BY <2>6
  <2>10. f = [g EXCEPT !.taste = {interest.near}, !.seed = tab.slot, !.matched = TRUE]
    BY <2>8
  <2> HIDE DEF f
  <2>11. f \in Filters
    BY <1>4, <2>9, <2>10 DEF Filters
  <2>12. /\ f.exclude = tab.seen /\ f.matched /\ f.sort = "recommended" /\ f.taste = {interest.near}
         /\ f.seed = tab.slot
    BY <2>8, <2>10 DEF Filters
  <2>13. /\ to \in Tabs /\ to.stage = tab.stage /\ to.phase = "get" /\ to.page = tab.page /\ to.slot = tab.slot
         /\ to.seen = tab.seen /\ to.names = tab.names \cup {name} /\ to.anchor = tab.anchor /\ to.tastes = tab.tastes
         /\ to.filter = f /\ to.subject = name
    <3>1. name \in STRING \cup {NoSubject} /\ tab.names \cup {name} \in SUBSET STRING
      BY <2>4 DEF Tabs
    <3>2. to \in Tabs
      BY <2>7, <2>11, <3>1 DEF Tabs
    <3> QED BY <3>2 DEF Tabs
  <2>14. PutTab(t, to)
    BY <1>6, <2>3 DEF f
  <2> HIDE DEF to
  <2>15. PageFits(to)
    <3>1. tab.names \subseteq to.names
      BY <2>13
    <3> QED BY <1>3, <2>13, <3>1, SamePage
  <2>16. StageFits(to)
    BY <1>2, <1>3, <2>13 DEF StageFits
  <2>17. \A i \in DOMAIN tab.page : tab.page[i].reason = "interests" => tab.page[i].subject # name
    BY <1>2, <1>3, <2>4 DEF PageFits
  <2>18. OfOneTaste(tab.slot, UNION f.taste)
    <3>1. UNION f.taste = interest.near
      BY <2>12
    <3> QED BY <2>6, <3>1
  <2>19. RetrievalFits(to)
    BY <1>2, <2>12, <2>13, <2>17, <2>18 DEF RetrievalFits, DrawPhases
  <2>20. TabFits(to)
    BY <1>2, <1>3, <2>13, <2>15, <2>16, <2>19 DEF TabFits, ShelfNames
  <2> QED BY <2>13, <2>14, <2>20 DEF interestShelves, Steps
<1> QED BY <1>1, <1>5, <1>6 DEF interestShelves

\* A shelf of the marketplace is asked for.
LEMMA platformShelfFits ==
  ASSUME FeedInv, NEW t \in FeedTabs, platformShelf(t)
  PROVE  Steps(t)
<1>1. PICK tab \in Tabs : tab = feedTab[t]
  BY FlightFits
<1>2. FeedAt(t, "plan") /\ tab.stage \in {"trending", "best-selling", "rating", "newest"}
  BY <1>1 DEF platformShelf
<1>3. tab.phase = "plan" /\ tab.stage \in ShelfNames /\ PageFits(tab) /\ StageFits(tab)
  BY <1>1, <1>2, AtFacts
<1>4. tab.seen \in SUBSET FeedCards /\ tab.stage \in Sorts /\ tab.stage # "recommended" /\ tab.stage # "viewed" /\ tab.stage # "interests"
  BY <1>2 DEF Tabs, Sorts
<1>5. PICK f \in Filters : /\ f = ListingFilter(tab.stage, tab.seen) /\ f.exclude = tab.seen /\ f.sort = tab.stage
                           /\ f.category = AnyCategory /\ ~f.matched
  BY <1>4, FilterKinds
<1>6. PICK phase \in {"popular", "browse"} : phase = Retrieval(f)
  BY <1>4, <1>5 DEF Retrieval
<1> DEFINE to == [tab EXCEPT !.phase = phase, !.filter = f]
<1>7. phase \in TabPhases
  BY DEF TabPhases
<1>8. /\ to \in Tabs /\ to.stage = tab.stage /\ to.phase = phase /\ to.page = tab.page /\ to.slot = tab.slot
      /\ to.seen = tab.seen /\ to.names = tab.names /\ to.anchor = tab.anchor /\ to.tastes = tab.tastes
      /\ to.filter = f
  BY <1>7 DEF Tabs
<1>9. PutTab(t, to)
  BY <1>1, <1>5, <1>6 DEF platformShelf
<1> HIDE DEF to
<1>10. PageFits(to)
  BY <1>3, <1>8, SamePage
<1>11. StageFits(to)
  BY <1>3, <1>4, <1>8 DEF StageFits
<1>12. RetrievalFits(to)
  <2>1. phase \notin DrawPhases /\ phase \notin {"store", "hydrate"} /\ phase # "backfill"
    BY DEF DrawPhases
  <2> QED BY <1>4, <1>5, <1>8, <2>1 DEF RetrievalFits
<1>13. TabFits(to)
  BY <1>2, <1>3, <1>8, <1>10, <1>11, <1>12 DEF TabFits, ShelfNames
<1> QED BY <1>8, <1>9, <1>13 DEF platformShelf, Steps

\* The answers of a browse, field by field.
LEMMA AlikeReply ==
  ASSUME NEW near, NEW out,
         out = [answered |-> TRUE, sort |-> "relevance", terms |-> TRUE, near |-> near = "point", exclude |-> TRUE]
  PROVE  out.sort = "relevance" /\ out.terms /\ (out.near <=> near = "point") /\ out.exclude
OBVIOUS

\* A listing without a vector is answered by the newest.
LEMMA NewestReply ==
  ASSUME NEW near, NEW out,
         out = [answered |-> TRUE, sort |-> "newest", terms |-> FALSE, near |-> near = "point", exclude |-> TRUE]
  PROVE  out.sort = "newest" /\ (out.near <=> near = "point") /\ out.exclude
OBVIOUS

\* A browse of nothing alike.
LEMMA PlainReply ==
  ASSUME NEW sort, NEW near, NEW has, NEW out,
         out = [answered |-> TRUE, sort |-> sort, terms |-> sort # "recommended" /\ "query" \in has,
                near |-> near = "point", exclude |-> FALSE]
  PROVE  out.sort = sort /\ (out.terms <=> sort # "recommended" /\ "query" \in has) /\ (out.near <=> near = "point")
OBVIOUS

\* A refusal answers nothing.
LEMMA RefusedReply ==
  ASSUME NEW out, out.answered
  PROVE  out # [answered |-> FALSE]
OBVIOUS

\* What has no answer is refused, and the rest resolves to one of three filters.
Resolved(ask, has, near, out) ==
  /\ ~RefusedRequest(ask) /\ near # "refused" /\ (out.near <=> near = "point")
  /\ near = "none" => "radius" \notin ask.has /\ sortOf(ask) # "distance"
  /\ "similar" \in ask.has => out.exclude /\ ((out.sort = "relevance" /\ out.terms) \/ out.sort = "newest")
  /\ "similar" \notin ask.has =>
       /\ out.sort = IF sortOf(ask) = "recommended" /\ ~has THEN FallbackSort(ask) ELSE sortOf(ask)
       /\ out.terms <=> out.sort # "recommended" /\ "query" \in ask.has

\* feedFilter answers so or not at all.
LEMMA FeedFilterIs ==
  ASSUME NEW ask, NEW has \in BOOLEAN, NEW geocoded \in BOOLEAN, NEW probed \in BOOLEAN, NEW out,
         out = feedFilter(ask, has, geocoded, probed), out.answered,
         NEW near, near = browsePosition(ask, geocoded)
  PROVE  Resolved(ask, has, near, out)
<1>1. PICK sort : sort = IF sortOf(ask) = "recommended" /\ ~has THEN FallbackSort(ask) ELSE sortOf(ask)
  OBVIOUS
<1> DEFINE refused == \/ RefusedRequest(ask) \/ near = "refused"
                      \/ near = "none" /\ ("radius" \in ask.has \/ sortOf(ask) = "distance")
           alike == [answered |-> TRUE, sort |-> "relevance", terms |-> TRUE, near |-> near = "point", exclude |-> TRUE]
           newest == [answered |-> TRUE, sort |-> "newest", terms |-> FALSE, near |-> near = "point", exclude |-> TRUE]
           plain == [answered |-> TRUE, sort |-> sort, terms |-> sort # "recommended" /\ "query" \in ask.has,
                     near |-> near = "point", exclude |-> FALSE]
<1>2. /\ refused => out = [answered |-> FALSE]
      /\ ~refused /\ "similar" \in ask.has => out = alike \/ out = newest
      /\ ~refused /\ "similar" \notin ask.has => out = plain
  BY <1>1 DEF feedFilter
<1>3. out # [answered |-> FALSE]
  BY RefusedReply
<1>4. ~refused
  BY <1>2, <1>3
<1>5. out = alike => out.sort = "relevance" /\ out.terms /\ (out.near <=> near = "point") /\ out.exclude
  BY AlikeReply
<1>6. out = newest => out.sort = "newest" /\ (out.near <=> near = "point") /\ out.exclude
  BY NewestReply
<1>7. out = plain => /\ out.sort = sort /\ (out.near <=> near = "point")
                     /\ out.terms <=> sort # "recommended" /\ "query" \in ask.has
  BY PlainReply
<1> HIDE DEF alike, newest, plain
<1>8. ASSUME "similar" \in ask.has
      PROVE  out.exclude /\ ((out.sort = "relevance" /\ out.terms) \/ out.sort = "newest") /\ (out.near <=> near = "point")
  BY <1>2, <1>4, <1>5, <1>6, <1>8
<1>9. ASSUME "similar" \notin ask.has
      PROVE  /\ out.sort = IF sortOf(ask) = "recommended" /\ ~has THEN FallbackSort(ask) ELSE sortOf(ask)
             /\ (out.terms <=> out.sort # "recommended" /\ "query" \in ask.has) /\ (out.near <=> near = "point")
  BY <1>1, <1>2, <1>4, <1>7, <1>9
<1> QED BY <1>4, <1>5, <1>6, <1>7, <1>8, <1>9 DEF Resolved

\* A browse of one viewer: what it is sorted by.
LEMMA ListSort ==
  ASSUME NEW narrows \in {{}, {"narrows"}}, NEW sort \in {"recommended", "trending", "newest"}, NEW has \in BOOLEAN, NEW out,
         out = feedFilter([has |-> {"viewer"} \cup narrows, from |-> "nowhere", sort |-> sort], has, FALSE, FALSE),
         out.answered
  PROVE  /\ out.sort \in {"recommended", "trending", "newest"}
         /\ out.sort = "recommended" => has
         /\ out.sort = "trending" => narrows = {}
<1> DEFINE ask == [has |-> {"viewer"} \cup narrows, from |-> "nowhere", sort |-> sort]
<1>1. /\ "similar" \notin ask.has /\ sortOf(ask) = sort
      /\ narrows # {} => trendingWantsFilteredBrowse(ask)
      /\ RefusedRequest(ask) \/ sort # "trending" \/ ~trendingWantsFilteredBrowse(ask)
  BY DEF sortOf, trendingWantsFilteredBrowse, RefusedRequest
<1> HIDE DEF ask
<1>2. out = feedFilter(ask, has, FALSE, FALSE) /\ FALSE \in BOOLEAN
  BY DEF ask
<1>3. ~RefusedRequest(ask) /\ out.sort = IF sort = "recommended" /\ ~has THEN FallbackSort(ask) ELSE sort
  <2>1. PICK near : near = browsePosition(ask, FALSE)
    OBVIOUS
  <2>2. Resolved(ask, has, near, out)
    BY <1>2, <2>1, FeedFilterIs
  <2> QED BY <1>1, <2>2 DEF Resolved
<1> QED BY <1>1, <1>3 DEF FallbackSort

\* What every answered browse keeps to.
AsAsked(ask, out) ==
  /\ ask.has \cap {"mine", "favorited"} # {} \/ out.sort = "recommended" => "viewer" \in ask.has
  /\ out.sort = "trending" => ask.has \cap {"mine", "favorited", "query", "narrows", "radius"} = {}
                             /\ ~out.near
  /\ out.sort = "relevance" => out.terms
  /\ out.sort = "distance" \/ "radius" \in ask.has => out.near
  /\ "query" \in ask.has => out.terms \/ out.sort = "recommended"
  /\ "similar" \in ask.has => out.exclude

\* Every combination that is answered keeps to it.
LEMMA FilterFits ==
  ASSUME NEW ask \in ListListingsRequest, NEW has \in BOOLEAN, NEW geocoded \in BOOLEAN, NEW probed \in BOOLEAN, NEW out,
         out = feedFilter(ask, has, geocoded, probed), out.answered
  PROVE  AsAsked(ask, out)
<1>1. /\ ask.from \in {"nowhere", "here", "half", "contact", "here and contact"}
      /\ ask.sort \in {"", "relevance", "recommended", "trending", "newest", "distance"}
  BY DEF ListListingsRequest
<1>0. PICK near : near = browsePosition(ask, geocoded)
  OBVIOUS
<1>2. Resolved(ask, has, near, out)
  BY <1>0, FeedFilterIs
<1>3. near \in {"none", "point"} /\ (ask.from = "nowhere" => near = "none")
  BY <1>0, <1>1, <1>2 DEF browsePosition, RefusedRequest, Resolved
<1>4. /\ out.near \/ ("radius" \notin ask.has /\ sortOf(ask) # "distance")
      /\ ask.from = "nowhere" => ~out.near
  BY <1>2, <1>3 DEF Resolved
<1>5. /\ ask.has \cap {"mine", "favorited"} # {} \/ ask.sort = "recommended" => "viewer" \in ask.has
      /\ ask.sort = "relevance" => "query" \in ask.has \/ "similar" \in ask.has
      /\ "similar" \in ask.has => "query" \notin ask.has
      /\ ask.sort = "trending" => ~trendingWantsFilteredBrowse(ask)
  BY <1>2 DEF RefusedRequest, Resolved
<1>6. ~trendingWantsFilteredBrowse(ask) => ask.has \cap {"mine", "favorited", "query", "narrows"} = {} /\ ask.from = "nowhere"
  BY DEF trendingWantsFilteredBrowse
<1>7. /\ sortOf(ask) = "recommended" => ask.sort = "recommended"
      /\ sortOf(ask) = "trending" => ask.sort = "trending"
      /\ sortOf(ask) = "relevance" => ask.sort = "relevance" \/ "query" \in ask.has \/ "similar" \in ask.has
  BY DEF sortOf
<1>8. CASE "similar" \in ask.has
  <2>1. out.exclude /\ ((out.sort = "relevance" /\ out.terms) \/ out.sort = "newest")
    BY <1>2, <1>8 DEF Resolved
  <2> QED BY <1>4, <1>5, <1>8, <2>1 DEF AsAsked
<1>9. CASE "similar" \notin ask.has
  <2>1. PICK s : /\ s = out.sort
                 /\ s = IF sortOf(ask) = "recommended" /\ ~has THEN FallbackSort(ask) ELSE sortOf(ask)
                 /\ out.terms <=> s # "recommended" /\ "query" \in ask.has
    BY <1>2, <1>9 DEF Resolved
  <2>3. /\ s = "recommended" => sortOf(ask) = "recommended"
        /\ s = "trending" => ~trendingWantsFilteredBrowse(ask)
        /\ s = "relevance" => "query" \in ask.has
        /\ s = "distance" => sortOf(ask) = "distance"
    BY <1>5, <1>7, <1>9, <2>1 DEF FallbackSort
  <2>4. s = "trending" => ask.has \cap {"mine", "favorited", "query", "narrows", "radius"} = {} /\ ~out.near
    BY <1>4, <1>6, <2>3
  <2> QED BY <1>4, <1>5, <1>7, <1>9, <2>1, <2>3, <2>4 DEF AsAsked
<1> QED BY <1>8, <1>9

\* A browse of one viewer starts with a retrieval of its filter.
LEMMA ListListingsFits ==
  ASSUME FeedInv, NEW t \in FeedTabs, NEW sort \in {"recommended", "trending", "newest"},
         NEW category \in {AnyCategory} \cup UNION {FeedCategory[c] : c \in FeedCards},
         NEW offset \in {0, ShelfLimit}, NEW seed \in FeedSeeds, ListListings(t, sort, category, offset, seed)
  PROVE  Steps(t)
<1>1. PICK narrows \in {{}, {"narrows"}} : narrows = IF category = AnyCategory THEN {} ELSE {"narrows"}
  OBVIOUS
<1>2. PICK has \in BOOLEAN : has <=> tastes # <<>>
  OBVIOUS
<1>3. PICK out : out = feedFilter([has |-> {"viewer"} \cup narrows, from |-> "nowhere", sort |-> sort], has, FALSE, FALSE)
  OBVIOUS
<1> DEFINE ranked == out.sort = "recommended"
           taste == IF ranked THEN {tastes[k].near : k \in DOMAIN tastes} ELSE {}
           picked == IF ranked THEN seed ELSE 0
           f == [ListingFilter(out.sort, {}) EXCEPT
                   !.category = category, !.offset = offset, !.seed = picked, !.taste = taste]
           phase == Retrieval(f)
           to == [NoTab EXCEPT !.stage = "feed", !.phase = phase, !.filter = f]
<1>4. out = feedFilter([has |-> {"viewer"} \cup (IF category = AnyCategory THEN {} ELSE {"narrows"}),
                        from |-> "nowhere", sort |-> sort], tastes # <<>>, FALSE, FALSE)
  BY <1>1, <1>2, <1>3
<1>5. out.answered /\ PutTab(t, to) /\ FeedReads
  BY <1>4 DEF ListListings
<1>6. /\ out.sort \in {"recommended", "trending", "newest"} /\ (ranked => has)
      /\ out.sort = "trending" => category = AnyCategory
  BY <1>1, <1>3, <1>5, ListSort
<1>7. taste \in SUBSET SUBSET FeedCards /\ (ranked => taste # {})
  <2>1. PICK known \in Interests : known = tastes
    BY FeedAssumption DEF FeedInv, FeedReadTypeOK
  <2>2. \A k \in DOMAIN known : known[k].near \in SUBSET FeedCards
    <3> SUFFICES ASSUME NEW k \in DOMAIN known PROVE known[k].near \in SUBSET FeedCards
      OBVIOUS
    <3> DEFINE kind == [near : SUBSET FeedCards, names : Seq(STRING)]
    <3>1. known \in Seq(kind)
      BY DEF Interests
    <3> HIDE DEF kind
    <3>2. known[k] \in kind
      BY <3>1
    <3> QED BY <3>2 DEF kind
  <2>3. has => 1 \in DOMAIN known
    <3> SUFFICES ASSUME known # <<>> PROVE 1 \in DOMAIN known
      BY <1>2, <2>1
    <3> DEFINE kind == [near : SUBSET FeedCards, names : Seq(STRING)]
    <3>1. known \in Seq(kind)
      BY DEF Interests
    <3> HIDE DEF kind
    <3> QED BY <3>1
  <2>4. CASE ranked
    <3>1. taste = {known[k].near : k \in DOMAIN known}
      BY <2>1, <2>4
    <3> HIDE DEF taste
    <3> QED BY <1>6, <2>2, <2>3, <2>4, <3>1
  <2>5. CASE ~ranked
    BY <2>5
  <2> QED BY <2>4, <2>5
<1>8. /\ category \in STRING \cup {AnyCategory} /\ offset \in Nat /\ picked \in Nat
      /\ {} \in SUBSET FeedCards /\ out.sort \in Sorts
  BY <1>6, FeedAssumption DEF Sorts
<1>9. PICK g \in Filters : /\ g = ListingFilter(out.sort, {}) /\ g.exclude = {} /\ g.sort = out.sort /\ ~g.matched
  BY <1>8, FilterKinds
<1>10. f = [g EXCEPT !.category = category, !.offset = offset, !.seed = picked, !.taste = taste]
  BY <1>9
<1> HIDE DEF f, taste, picked
<1>11. f \in Filters
  BY <1>7, <1>8, <1>9, <1>10 DEF Filters
<1>12. /\ f.exclude = {} /\ ~f.matched /\ f.sort = out.sort /\ f.category = category /\ f.taste = taste
  BY <1>9, <1>10 DEF Filters
<1>13. /\ phase \in {"get", "popular", "browse"} /\ (phase = "get" <=> f.sort = "recommended")
       /\ phase = "popular" => f.sort = "trending"
  BY <1>6, <1>7, <1>12 DEF Retrieval
<1> HIDE DEF phase
<1>14. phase \in TabPhases /\ "feed" \in TabStages
  BY <1>13 DEF TabPhases, TabStages
<1>15. to \in Tabs
  BY <1>11, <1>14, FilterKinds DEF Tabs
<1>16. /\ to.stage = "feed" /\ to.phase = phase /\ to.filter = f
       /\ to.page = <<>> /\ to.anchor = NoCard /\ to.seen = {}
  BY DEF NoTab
<1> HIDE DEF to
<1>17. RetrievalFits(to)
  <2>1. phase \notin {"store", "hydrate", "backfill"} /\ (phase \in DrawPhases <=> phase = "get")
    BY <1>13 DEF DrawPhases
  <2> QED BY <1>6, <1>12, <1>13, <1>16, <2>1 DEF RetrievalFits
<1>18. TabFits(to)
  BY <1>13, <1>16, <1>17 DEF TabFits, ShelfNames
<1> QED BY <1>5, <1>15, <1>18 DEF Steps

\* A retrieval that is answered, by rows that fill its filter, or fails.
LEMMA AnsweredSteps ==
  ASSUME FeedInv, NEW t \in FeedTabs, NEW phase, FeedAt(t, phase), phase \notin {"plan", "anchor"},
         NEW tab \in Tabs, tab = feedTab[t], NEW rows, Fills(rows, tab.filter),
         NEW to \in Answers(tab, rows), PutTab(t, to), FeedReads
  PROVE  Steps(t)
<1>1. to \in Tabs /\ TabFits(to)
  BY AtFacts, AnswersFit
<1> QED BY <1>1 DEF Steps

\* The browse statement and the search.
LEMMA BrowseRowsFits ==
  ASSUME FeedInv, NEW t \in FeedTabs, BrowseRows(t)
  PROVE  Steps(t)
<1>1. PICK tab \in Tabs : tab = feedTab[t]
  BY FlightFits
<1> DEFINE f == tab.filter
           S == Browsable(f)
           left == IF Cardinality(S) < f.offset THEN 0 ELSE Cardinality(S) - f.offset
<1>2. FeedAt(t, "browse") /\ FeedReads
  BY DEF BrowseRows
<1>3. RetrievalFits(tab) /\ tab.phase = "browse"
  BY <1>1, <1>2, AtFacts
<1>4. f \in Filters /\ f.offset \in Nat
  BY DEF Tabs, Filters
<1>5. S \subseteq FeedCards /\ \A c \in S : c \notin f.exclude /\ InCategory(c, f.category)
  BY DEF Browsable, FeedInv, FeedReadTypeOK
<1>6. left \in Nat /\ AtMost(left, ShelfLimit) \in Nat
  <2>1. Cardinality(S) \in Nat
    BY <1>5, FeedAssumption, FS_Subset, FS_CardinalityType
  <2>2. left \in Nat
    BY <1>4, <2>1
  <2> HIDE DEF left
  <2> QED BY <2>2, FeedAssumption DEF AtMost
<1>7. PICK rows \in IF f.sort = "relevance" THEN ScansOf(S \cap FeedEmbedded, ShelfLimit)
                    ELSE PagesOf(S, AtMost(left, ShelfLimit)) :
        \E to \in Answers(tab, rows) : PutTab(t, to)
  BY <1>1 DEF BrowseRows
<1> HIDE DEF S, left
<1>8. rows \in Seq(FeedCards) /\ IsInjective(rows) /\ ToSet(rows) \subseteq S
  <2>1. CASE f.sort = "relevance"
    <3>1. rows \in ScansOf(S \cap FeedEmbedded, ShelfLimit) /\ S \cap FeedEmbedded \in SUBSET FeedCards /\ ShelfLimit \in Nat
      BY <1>5, <1>7, <2>1, FeedAssumption
    <3> QED BY <3>1, PagesFacts
  <2>2. CASE f.sort # "relevance"
    <3>1. rows \in PagesOf(S, AtMost(left, ShelfLimit)) /\ S \in SUBSET FeedCards
      BY <1>5, <1>7, <2>2
    <3> QED BY <1>6, <3>1, PagesFacts
  <2> QED BY <2>1, <2>2
<1>9. f.sort # "recommended" /\ ~f.matched
  BY <1>3 DEF RetrievalFits, DrawPhases
<1>10. Fills(rows, f)
  BY <1>5, <1>8, <1>9 DEF Fills
<1>11. PICK to \in Answers(tab, rows) : PutTab(t, to)
  BY <1>7
<1> QED BY <1>1, <1>2, <1>10, <1>11, AnsweredSteps

\* The cache is read.
LEMMA CacheGetFits ==
  ASSUME FeedInv, NEW t \in FeedTabs, CacheGet(t)
  PROVE  Steps(t)
<1>1. PICK tab \in Tabs : tab = feedTab[t]
  BY FlightFits
<1> DEFINE f == tab.filter
<1>2. FeedAt(t, "get") /\ FeedReads
  BY DEF CacheGet
<1>3. /\ RetrievalFits(tab) /\ tab.phase = "get" /\ TabFits(tab) /\ tab.stage \in ShelfNames \cup {"feed"}
      /\ tab.stage \in ShelfNames => PageFits(tab) /\ StageFits(tab)
  BY <1>1, <1>2, AtFacts
<1>4. f \in Filters
  BY DEF Tabs
<1>5. ASSUME NEW phase \in {"draw", "hydrate"}, NEW ids \in Seq(FeedCards), phase = "hydrate" => Drawn(feedCacheKey(f), ids),
             PutTab(t, [tab EXCEPT !.phase = phase, !.ids = ids])
      PROVE  Steps(t)
  <2> DEFINE to == [tab EXCEPT !.phase = phase, !.ids = ids]
  <2>1. phase \in TabPhases /\ phase \in DrawPhases
    BY DEF TabPhases, DrawPhases
  <2>2. /\ to \in Tabs /\ to.stage = tab.stage /\ to.phase = phase /\ to.page = tab.page /\ to.slot = tab.slot
        /\ to.seen = tab.seen /\ to.names = tab.names /\ to.anchor = tab.anchor /\ to.tastes = tab.tastes
        /\ to.filter = f /\ to.subject = tab.subject /\ to.ids = ids
    <3>1. to \in Tabs
      BY <2>1 DEF Tabs
    <3> QED BY <3>1 DEF Tabs
  <2> HIDE DEF to
  <2>3. RetrievalFits(to)
    BY <1>3, <1>5, <2>1, <2>2 DEF RetrievalFits, DrawPhases
  <2>4. tab.stage \in ShelfNames => PageFits(to) /\ StageFits(to)
    <3>1. tab.stage \in ShelfNames => PageFits(to)
      BY <1>3, <2>2, SamePage
    <3>2. tab.stage \in ShelfNames => StageFits(to)
      BY <1>3, <2>2 DEF StageFits
    <3> QED BY <3>1, <3>2
  <2>5. TabFits(to)
    BY <1>3, <2>2, <2>3, <2>4 DEF TabFits, ShelfNames
  <2>6. PutTab(t, to)
    BY <1>5 DEF to
  <2> QED BY <1>2, <2>2, <2>5, <2>6 DEF Steps
<1>6. ASSUME NEW e \in CachedDraw(f), PutTab(t, [tab EXCEPT !.phase = "hydrate", !.ids = PageAt(f, e.ids)])
      PROVE  Steps(t)
  <2>1. e \in feedCache /\ e.key = feedCacheKey(f)
    BY <1>6 DEF CachedDraw
  <2>2. e.ids \in Seq(FeedCards) /\ Drawn(feedCacheKey(f), e.ids) /\ IsInjective(e.ids)
    BY <2>1 DEF FeedInv, FeedReadTypeOK, Drawn
  <2>3. PICK ids : ids = PageAt(f, e.ids)
    OBVIOUS
  <2>4. ids \in Seq(FeedCards) /\ IsInjective(ids) /\ ToSet(ids) \subseteq ToSet(e.ids)
    BY <1>4, <2>2, <2>3, PageAtFacts
  <2>5. Drawn(feedCacheKey(f), ids)
    BY <2>2, <2>4, DrawnPart
  <2>6. PutTab(t, [tab EXCEPT !.phase = "hydrate", !.ids = ids])
    BY <1>6, <2>3
  <2> QED BY <1>5, <2>4, <2>5, <2>6
<1>7. ASSUME PutTab(t, [tab EXCEPT !.phase = "draw"])
      PROVE  Steps(t)
  <2>1. tab.ids \in Seq(FeedCards) /\ [tab EXCEPT !.phase = "draw"] = [tab EXCEPT !.phase = "draw", !.ids = tab.ids]
    BY DEF Tabs
  <2>2. PICK ids \in Seq(FeedCards) : ids = tab.ids
    BY <2>1
  <2>3. PutTab(t, [tab EXCEPT !.phase = "draw", !.ids = ids])
    BY <1>7, <2>1, <2>2
  <2> QED BY <1>5, <2>3
<1> QED BY <1>1, <1>6, <1>7 DEF CacheGet

\* The draw: a batch of what the statement lets through, or a row that fails.
LEMMA DrawFeedFits ==
  ASSUME FeedInv, NEW t \in FeedTabs, DrawFeed(t)
  PROVE  Steps(t)
<1>1. PICK tab \in Tabs : tab = feedTab[t]
  BY FlightFits
<1> DEFINE f == tab.filter
           S == RecommendedFor(f)
           n == IF WantedRows(f) < FeedBatch THEN FeedBatch ELSE WantedRows(f)
<1>2. FeedAt(t, "draw") /\ FeedReads
  BY DEF DrawFeed
<1>3. /\ RetrievalFits(tab) /\ tab.phase = "draw" /\ TabFits(tab) /\ tab.stage \in ShelfNames \cup {"feed"}
      /\ tab.stage \in ShelfNames => PageFits(tab) /\ StageFits(tab)
  BY <1>1, <1>2, AtFacts
<1>4. f \in Filters /\ n \in Nat
  BY FeedAssumption DEF Tabs, Filters, WantedRows
<1>5. ASSUME NEW ids, ids \in ScansOf(S, n) \/ ids \in PagesOf(S, n), PutTab(t, [tab EXCEPT !.phase = "store", !.ids = ids])
      PROVE  Steps(t)
  <2>1. S \in SUBSET FeedCards
    BY DEF RecommendedFor, Browsable, FeedInv, FeedReadTypeOK
  <2>2. \A c \in S : c \notin f.exclude /\ InCategory(c, f.category) /\ c \notin OwnCards
    BY DEF RecommendedFor, Browsable
  <2>3. f.matched => OfOneTaste(f.seed, S)
    <3> SUFFICES ASSUME f.matched PROVE OfOneTaste(f.seed, S)
      OBVIOUS
    <3>1. S \subseteq UNION f.taste
      BY DEF RecommendedFor
    <3>2. OfOneTaste(f.seed, UNION f.taste)
      BY <1>3 DEF RetrievalFits
    <3> HIDE DEF S
    <3> QED BY <3>1, <3>2, OfOneTastePart
  <2> HIDE DEF S, n
  <2>4. ids \in Seq(FeedCards) /\ IsInjective(ids) /\ ToSet(ids) \subseteq S
    BY <1>4, <1>5, <2>1, PagesFacts
  <2>5. Drawn(feedCacheKey(f), ids)
    BY <2>2, <2>3, <2>4, OfOneTastePart DEF Drawn, feedCacheKey
  <2> DEFINE to == [tab EXCEPT !.phase = "store", !.ids = ids]
  <2>6. "store" \in TabPhases /\ "store" \in DrawPhases
    BY DEF TabPhases, DrawPhases
  <2>7. /\ to \in Tabs /\ to.stage = tab.stage /\ to.phase = "store" /\ to.page = tab.page /\ to.slot = tab.slot
        /\ to.seen = tab.seen /\ to.names = tab.names /\ to.anchor = tab.anchor /\ to.tastes = tab.tastes
        /\ to.filter = f /\ to.subject = tab.subject /\ to.ids = ids
    <3>1. to \in Tabs
      BY <2>4, <2>6 DEF Tabs
    <3> QED BY <3>1 DEF Tabs
  <2> HIDE DEF to
  <2>8. RetrievalFits(to)
    BY <1>3, <2>5, <2>6, <2>7 DEF RetrievalFits, DrawPhases
  <2>9. tab.stage \in ShelfNames => PageFits(to)
    BY <1>3, <2>7, SamePage
  <2>10. tab.stage \in ShelfNames => StageFits(to)
    BY <1>3, <2>7 DEF StageFits
  <2>11. TabFits(to)
    BY <1>3, <2>7, <2>8, <2>9, <2>10 DEF TabFits, ShelfNames
  <2>12. PutTab(t, to)
    BY <1>5 DEF to
  <2> QED BY <1>2, <2>7, <2>11, <2>12 DEF Steps
<1>6. ASSUME PutTab(t, FailRow(tab)) PROVE Steps(t)
  <2>1. FailRow(tab) \in Tabs /\ TabFits(FailRow(tab))
    BY <1>3, FailFits
  <2> QED BY <1>2, <1>6, <2>1 DEF Steps
<1>7. \/ \E ids : (ids \in ScansOf(S, n) \/ ids \in PagesOf(S, n)) /\ PutTab(t, [tab EXCEPT !.phase = "store", !.ids = ids])
      \/ PutTab(t, FailRow(tab))
  BY <1>1 DEF DrawFeed
<1> HIDE DEF S, n
<1> QED BY <1>5, <1>6, <1>7

\* The rows a cache entry named are read again.
LEMMA HydrateFeedFits ==
  ASSUME FeedInv, NEW t \in FeedTabs, HydrateFeed(t)
  PROVE  Steps(t)
<1>1. PICK tab \in Tabs : tab = feedTab[t]
  BY FlightFits
<1> DEFINE f == tab.filter
<1>2. FeedAt(t, "hydrate") /\ FeedReads
  BY DEF HydrateFeed
<1>3. RetrievalFits(tab) /\ tab.phase = "hydrate"
  BY <1>1, <1>2, AtFacts
<1>4. f \in Filters /\ tab.ids \in Seq(FeedCards) /\ Drawn(feedCacheKey(f), tab.ids) /\ IsInjective(tab.ids)
  BY <1>3 DEF Tabs, RetrievalFits, Drawn
<1>5. Fills(tab.ids, f)
  BY <1>4, DrawnFills
<1>6. PICK rows : rows = Hydrated(tab.ids)
  OBVIOUS
<1>7. rows \in Seq(FeedCards) /\ IsInjective(rows) /\ ToSet(rows) \subseteq ToSet(tab.ids)
  BY <1>4, <1>6, AmongFacts DEF Hydrated
<1>8. Fills(rows, f)
  BY <1>5, <1>7, FillsPart
<1>9. PICK to \in Answers(tab, rows) : PutTab(t, to)
  BY <1>1, <1>6 DEF HydrateFeed
<1> QED BY <1>1, <1>2, <1>8, <1>9, AnsweredSteps

\* The top list, of which a row keeps what the shelves above have not shown.
LEMMA TopPopularFits ==
  ASSUME FeedInv, NEW t \in FeedTabs, TopPopular(t)
  PROVE  Steps(t)
<1>1. PICK tab \in Tabs : tab = feedTab[t]
  BY FlightFits
<1> DEFINE f == tab.filter
           n == WantedRows(f) + Cardinality(f.exclude)
<1>2. FeedAt(t, "popular") /\ FeedReads
  BY DEF TopPopular
<1>3. /\ RetrievalFits(tab) /\ tab.phase = "popular" /\ TabFits(tab) /\ tab.stage \in ShelfNames \cup {"feed"}
      /\ tab.stage \in ShelfNames => PageFits(tab) /\ StageFits(tab)
  BY <1>1, <1>2, AtFacts
<1>4. f \in Filters /\ f.category = AnyCategory /\ f.sort # "recommended" /\ ~f.matched
  BY <1>3 DEF Tabs, RetrievalFits, DrawPhases
<1>5. n \in Nat
  <2>1. Cardinality(f.exclude) \in Nat
    <3>1. f.exclude \subseteq FeedCards
      BY <1>4 DEF Filters
    <3> QED BY <3>1, FeedAssumption, FS_Subset, FS_CardinalityType
  <2>2. WantedRows(f) \in Nat
    BY <1>4, FeedAssumption DEF Filters, WantedRows
  <2> QED BY <2>1, <2>2
<1>6. PICK list \in FeedTopLists :
        LET rows == Hydrated(NotYetShown(f, SubSeq(list, 1, AtMost(Len(list), n)))) IN
        \E to \in IF Len(rows) >= WantedRows(f) THEN Answers(tab, PageAt(f, rows))
                  ELSE {[tab EXCEPT !.phase = "backfill", !.rows = rows], FailRow(tab)} : PutTab(t, to)
  BY <1>1 DEF TopPopular
<1> HIDE DEF n
<1>7. PICK head : head = SubSeq(list, 1, AtMost(Len(list), n))
  OBVIOUS
<1>8. head \in Seq(FeedCards) /\ IsInjective(head)
  <2>1. list \in Seq(FeedCards) /\ IsInjective(list)
    BY FeedAssumption
  <2>2. AtMost(Len(list), n) \in Nat /\ AtMost(Len(list), n) <= Len(list) /\ 1 \in Nat
    BY <1>5, <2>1 DEF AtMost
  <2> QED BY <1>7, <2>1, <2>2, SubSeqFacts
<1>9. PICK fresh : fresh = NotYetShown(f, head)
  OBVIOUS
<1>10. fresh \in Seq(FeedCards) /\ IsInjective(fresh) /\ ToSet(fresh) \subseteq FeedCards \ f.exclude
  <2>1. /\ Among(head, FeedCards \ f.exclude) \in Seq(FeedCards) /\ IsInjective(Among(head, FeedCards \ f.exclude))
        /\ ToSet(Among(head, FeedCards \ f.exclude)) \subseteq ToSet(head) \cap (FeedCards \ f.exclude)
    BY <1>8, AmongFacts
  <2> QED BY <1>9, <2>1 DEF NotYetShown
<1>11. PICK rows : rows = Hydrated(fresh)
  OBVIOUS
<1>12. rows \in Seq(FeedCards) /\ IsInjective(rows) /\ ToSet(rows) \subseteq ToSet(fresh)
  BY <1>10, <1>11, AmongFacts DEF Hydrated
<1>13. Fills(rows, f)
  BY <1>4, <1>10, <1>12 DEF Fills, InCategory
<1>14. PICK to \in IF Len(rows) >= WantedRows(f) THEN Answers(tab, PageAt(f, rows))
                   ELSE {[tab EXCEPT !.phase = "backfill", !.rows = rows], FailRow(tab)} : PutTab(t, to)
  BY <1>6, <1>7, <1>9, <1>11
<1>15. CASE Len(rows) >= WantedRows(f)
  <2>1. PICK page : page = PageAt(f, rows)
    OBVIOUS
  <2>2. page \in Seq(FeedCards) /\ IsInjective(page) /\ ToSet(page) \subseteq ToSet(rows)
    BY <1>4, <1>12, <2>1, PageAtFacts
  <2>3. Fills(page, f)
    BY <1>13, <2>2, FillsPart
  <2>4. to \in Answers(tab, page)
    BY <1>14, <1>15, <2>1
  <2> QED BY <1>1, <1>2, <1>14, <2>3, <2>4, AnsweredSteps
<1>16. CASE ~(Len(rows) >= WantedRows(f)) /\ to = FailRow(tab)
  <2>1. to \in Tabs /\ TabFits(to)
    BY <1>3, <1>16, FailFits
  <2> QED BY <1>2, <1>14, <2>1 DEF Steps
<1>17. CASE to = [tab EXCEPT !.phase = "backfill", !.rows = rows]
  <2>1. "backfill" \in TabPhases /\ "backfill" \notin DrawPhases
    BY DEF TabPhases, DrawPhases
  <2>2. /\ to \in Tabs /\ to.stage = tab.stage /\ to.phase = "backfill" /\ to.page = tab.page /\ to.slot = tab.slot
        /\ to.seen = tab.seen /\ to.names = tab.names /\ to.anchor = tab.anchor /\ to.tastes = tab.tastes
        /\ to.filter = f /\ to.subject = tab.subject /\ to.rows = rows
    <3>1. to \in Tabs
      BY <1>12, <1>17, <2>1 DEF Tabs
    <3> QED BY <1>17, <3>1 DEF Tabs
  <2>3. RetrievalFits(to)
    BY <1>3, <1>4, <1>13, <2>1, <2>2 DEF RetrievalFits
  <2>4. tab.stage \in ShelfNames => PageFits(to)
    BY <1>3, <2>2, SamePage
  <2>5. tab.stage \in ShelfNames => StageFits(to)
    BY <1>3, <2>2 DEF StageFits
  <2>6. TabFits(to)
    BY <1>3, <2>2, <2>3, <2>4, <2>5 DEF TabFits, ShelfNames
  <2> QED BY <1>2, <1>14, <2>2, <2>6 DEF Steps
<1> QED BY <1>14, <1>15, <1>16, <1>17

\* The newest fill what the top list left.
LEMMA BackfillFits ==
  ASSUME FeedInv, NEW t \in FeedTabs, Backfill(t)
  PROVE  Steps(t)
<1>1. PICK tab \in Tabs : tab = feedTab[t]
  BY FlightFits
<1> DEFINE f == tab.filter
           S == Browsable(f)
<1>2. FeedAt(t, "backfill") /\ FeedReads
  BY DEF Backfill
<1>3. RetrievalFits(tab) /\ tab.phase = "backfill"
  BY <1>1, <1>2, AtFacts
<1>4. f \in Filters /\ f.sort # "recommended" /\ ~f.matched
  BY <1>3 DEF Tabs, RetrievalFits, DrawPhases
<1>5. PICK have : have = tab.rows
  OBVIOUS
<1>6. Fills(have, f) /\ have \in Seq(FeedCards) /\ IsInjective(have) /\ Len(have) \in Nat
  BY <1>3, <1>5 DEF RetrievalFits, Fills
<1>7. S \in SUBSET FeedCards /\ \A c \in S : c \notin f.exclude /\ InCategory(c, f.category)
  BY DEF Browsable, FeedInv, FeedReadTypeOK
<1>8. WantedRows(f) + Len(have) \in Nat
  BY <1>4, <1>6, FeedAssumption DEF Filters, WantedRows
<1>9. PICK newest \in PagesOf(S, WantedRows(f) + Len(have)) :
        \E to \in Answers(tab, PageAt(f, have \o Among(newest, FeedCards \ ToSet(have)))) : PutTab(t, to)
  BY <1>1, <1>5 DEF Backfill
<1> HIDE DEF S
<1>10. newest \in Seq(FeedCards) /\ IsInjective(newest) /\ ToSet(newest) \subseteq S
  BY <1>7, <1>8, <1>9, PagesFacts
<1>11. PICK more : more = Among(newest, FeedCards \ ToSet(have))
  OBVIOUS
<1>12. /\ more \in Seq(FeedCards) /\ IsInjective(more)
       /\ ToSet(more) \subseteq ToSet(newest) \cap (FeedCards \ ToSet(have))
  <2>1. /\ Among(newest, FeedCards \ ToSet(have)) \in Seq(FeedCards) /\ IsInjective(Among(newest, FeedCards \ ToSet(have)))
        /\ ToSet(Among(newest, FeedCards \ ToSet(have))) \subseteq ToSet(newest) \cap (FeedCards \ ToSet(have))
    BY <1>10, AmongFacts
  <2> QED BY <1>11, <2>1
<1>13. PICK rows : rows = have \o more
  OBVIOUS
<1>14. rows \in Seq(FeedCards) /\ IsInjective(rows) /\ ToSet(rows) \subseteq ToSet(have) \cup ToSet(more)
  <2>1. ToSet(have) \cap ToSet(more) = {}
    BY <1>12
  <2> QED BY <1>6, <1>12, <1>13, <2>1, ConcatFacts
<1>15. Fills(rows, f)
  BY <1>4, <1>6, <1>7, <1>10, <1>12, <1>14 DEF Fills
<1>16. PICK page : page = PageAt(f, rows)
  OBVIOUS
<1>17. page \in Seq(FeedCards) /\ IsInjective(page) /\ ToSet(page) \subseteq ToSet(rows)
  BY <1>4, <1>14, <1>16, PageAtFacts
<1>18. Fills(page, f)
  BY <1>15, <1>17, FillsPart
<1>19. PICK to \in Answers(tab, page) : PutTab(t, to)
  BY <1>9, <1>11, <1>13, <1>16
<1> QED BY <1>1, <1>2, <1>18, <1>19, AnsweredSteps

\* A stage is skipped.
LEMMA StageFailsFits ==
  ASSUME FeedInv, NEW t \in FeedTabs, StageFails(t)
  PROVE  Steps(t)
<1>1. PICK tab \in Tabs : tab = feedTab[t]
  BY FlightFits
<1>2. tab.stage \in {"viewed", "interests"} /\ tab.phase \in {"plan", "anchor"}
  BY <1>1 DEF StageFails
<1>3. TabFits(tab) /\ tab.stage \in ShelfNames
  BY <1>1, <1>2, FlightFits DEF ShelfNames
<1>4. PageFits(tab) /\ StageFits(tab)
  BY <1>3 DEF TabFits
<1>5. tab.anchor \in tab.seen \cup {NoCard} /\ tab.tastes \in tastesHad \cup {<<>>}
  BY <1>2, <1>4 DEF StageFits
<1>6. NextStage(tab) \in Tabs /\ TabFits(NextStage(tab))
  BY <1>3, <1>4, <1>5, NextStageFits
<1>7. PutTab(t, NextStage(tab)) /\ FeedReads
  BY <1>1 DEF StageFails
<1> QED BY <1>6, <1>7 DEF Steps

\* A tab is free again.
LEMMA CloseTabFits ==
  ASSUME FeedInv, NEW t \in FeedTabs, CloseTab(t)
  PROVE  Steps(t)
<1>1. NoTab \in Tabs
  BY FilterKinds
<1>2. TabFits(NoTab)
  BY DEF TabFits, NoTab, ShelfNames
<1> QED BY <1>1, <1>2 DEF CloseTab, Steps

\* What was of one taste stays so however the interests are recomputed.
LEMMA OfOneTasteStays ==
  ASSUME tastesHad \subseteq tastesHad', NEW slot, NEW cards, OfOneTaste(slot, cards)
  PROVE  OfOneTaste(slot, cards)'
BY DEF OfOneTaste

LEMMA DrawnStays ==
  ASSUME tastesHad \subseteq tastesHad', NEW key, NEW ids, Drawn(key, ids)
  PROVE  Drawn(key, ids)'
BY OfOneTasteStays DEF Drawn

\* So a tab that fits still fits.
LEMMA TabStays ==
  ASSUME tastesHad \subseteq tastesHad', NEW tab, TabFits(tab)
  PROVE  TabFits(tab)'
<1>1. ASSUME NEW rows, NEW f, Fills(rows, f) PROVE Fills(rows, f)'
  BY <1>1, OfOneTasteStays DEF Fills
<1>2. PageFits(tab) => PageFits(tab)'
  BY OfOneTasteStays DEF PageFits
<1>3. StageFits(tab) => StageFits(tab)'
  BY DEF StageFits
<1>4. RetrievalFits(tab) => RetrievalFits(tab)'
  BY <1>1, DrawnStays, OfOneTasteStays DEF RetrievalFits
<1> QED BY <1>1, <1>2, <1>3, <1>4 DEF TabFits

\* A step of a tab that fits leaves the whole sound, whatever is kept in the cache.
LEMMA TabKept ==
  ASSUME FeedInv, NEW t \in FeedTabs, NEW to \in Tabs, TabFits(to), PutTab(t, to),
         UNCHANGED <<onSale, setAside, glanced, tastes, tastesHad, asked>>,
         \A e \in feedCache' : e.ids \in Seq(FeedCards) /\ Drawn(e.key, e.ids)
  PROVE  FeedInv'
<1>1. PICK tabs : tabs = [feedTab EXCEPT ![t] = to]
  OBVIOUS
<1>2. feedTab \in [FeedTabs -> Tabs] /\ \A u \in FeedTabs : TabFits(feedTab[u])
  BY DEF FeedInv, FeedReadTypeOK
<1>3. tabs \in [FeedTabs -> Tabs] /\ \A u \in FeedTabs : tabs[u] = IF u = t THEN to ELSE feedTab[u]
  BY <1>1, <1>2
<1>4. \A u \in FeedTabs : TabFits(tabs[u])'
  BY <1>2, <1>3, TabStays
<1>5. feedTab' = tabs /\ \A e \in feedCache' : Drawn(e.key, e.ids)'
  BY <1>1, DrawnStays DEF PutTab
<1>6. FeedReadTypeOK'
  BY <1>3, <1>5 DEF FeedInv, FeedReadTypeOK
<1>7. AnsweredAsAsked'
  BY DEF FeedInv, AnsweredAsAsked
<1> QED BY <1>4, <1>5, <1>6, <1>7 DEF FeedInv

\* Every read but the one that writes the cache.
LEMMA StepsKeep ==
  ASSUME FeedInv, NEW t \in FeedTabs, Steps(t)
  PROVE  FeedInv'
<1>1. PICK to \in Tabs : TabFits(to) /\ PutTab(t, to) /\ FeedReads
  BY DEF Steps
<1>2. UNCHANGED <<onSale, setAside, glanced, tastes, tastesHad, asked>> /\ feedCache' = feedCache
  BY <1>1 DEF FeedReads
<1>3. \A e \in feedCache' : e.ids \in Seq(FeedCards) /\ Drawn(e.key, e.ids)
  BY <1>2 DEF FeedInv, FeedReadTypeOK
<1> QED BY <1>1, <1>2, <1>3, TabKept

\* What a draw is kept under is its own filter.
LEMMA CacheSetKeeps ==
  ASSUME FeedInv, NEW t \in FeedTabs, CacheSet(t)
  PROVE  FeedInv'
<1>1. PICK tab \in Tabs : tab = feedTab[t]
  BY FlightFits
<1> DEFINE f == tab.filter
<1>2. FeedAt(t, "store") /\ UNCHANGED <<onSale, setAside, glanced, tastes, tastesHad, asked>>
  BY DEF CacheSet
<1>3. /\ RetrievalFits(tab) /\ tab.phase = "store" /\ TabFits(tab) /\ tab.stage \in ShelfNames \cup {"feed"}
  BY <1>1, <1>2, AtFacts
<1>4. f \in Filters /\ tab.ids \in Seq(FeedCards) /\ Drawn(feedCacheKey(f), tab.ids) /\ IsInjective(tab.ids)
  BY <1>3 DEF Tabs, RetrievalFits, Drawn
<1>5. PICK page : page = PageAt(f, tab.ids)
  OBVIOUS
<1>6. page \in Seq(FeedCards) /\ IsInjective(page) /\ ToSet(page) \subseteq ToSet(tab.ids)
  BY <1>4, <1>5, PageAtFacts
<1>7. Fills(page, f)
  BY <1>4, <1>6, DrawnFills, FillsPart
<1>8. PICK to \in Answers(tab, page) : PutTab(t, to)
  BY <1>1, <1>5 DEF CacheSet
<1>9. to \in Tabs /\ TabFits(to)
  BY <1>3, <1>7, <1>8, AnswersFit
<1> DEFINE entry == [key |-> feedCacheKey(f), ids |-> tab.ids]
<1>10. entry.key = feedCacheKey(f) /\ entry.ids = tab.ids
  OBVIOUS
<1>11. feedCache' \subseteq feedCache \cup {entry}
  BY <1>1 DEF CacheSet
<1> HIDE DEF entry
<1>12. \A e \in feedCache : e.ids \in Seq(FeedCards) /\ Drawn(e.key, e.ids)
  BY DEF FeedInv, FeedReadTypeOK
<1>13. \A e \in feedCache' : e.ids \in Seq(FeedCards) /\ Drawn(e.key, e.ids)
  BY <1>4, <1>10, <1>11, <1>12
<1> QED BY <1>2, <1>8, <1>9, <1>13, TabKept

\* What happens between two reads moves no tab and adds nothing to the cache.
LEMMA BetweenReadsKeep ==
  ASSUME FeedInv,
         \/ \E c \in FeedCards : ToggleCard(c) \/ SetAsideCard(c)
         \/ ViewCard \/ CacheExpires
  PROVE  FeedInv'
<1>1. UNCHANGED <<feedTab, asked>> /\ feedCache' \subseteq feedCache
  BY DEF ToggleCard, SetAsideCard, ViewCard, CacheExpires, FeedChange
<1>2. /\ onSale' \subseteq FeedCards /\ setAside' \subseteq FeedCards /\ glanced' \in FeedGlances
      /\ tastes' \in FeedTastes \cap tastesHad' /\ tastesHad \subseteq tastesHad' /\ tastesHad' \subseteq FeedTastes
  <2>1. ASSUME NEW c \in FeedCards, ToggleCard(c) \/ SetAsideCard(c)
        PROVE  /\ onSale' \subseteq FeedCards /\ setAside' \subseteq FeedCards /\ glanced' \in FeedGlances
               /\ tastes' \in FeedTastes \cap tastesHad' /\ tastesHad \subseteq tastesHad'
               /\ tastesHad' \subseteq FeedTastes
    BY <2>1 DEF ToggleCard, SetAsideCard, Recomputed, FeedInv, FeedReadTypeOK
  <2>2. CASE ViewCard \/ CacheExpires
    BY <2>2 DEF ViewCard, Recomputed, CacheExpires, FeedInv, FeedReadTypeOK
  <2> QED BY <2>1, <2>2
<1>3. \A e \in feedCache' : e.ids \in Seq(FeedCards) /\ Drawn(e.key, e.ids)'
  BY <1>1, <1>2, DrawnStays DEF FeedInv, FeedReadTypeOK
<1>4. PICK tabs \in [FeedTabs -> Tabs] : tabs = feedTab /\ \A u \in FeedTabs : TabFits(tabs[u])
  BY DEF FeedInv, FeedReadTypeOK
<1>7. feedTab' = tabs /\ \A u \in FeedTabs : TabFits(tabs[u])'
  BY <1>1, <1>2, <1>4, TabStays
<1>5. FeedReadTypeOK'
  BY <1>1, <1>2, <1>3, <1>7 DEF FeedReadTypeOK
<1>6. AnsweredAsAsked'
  BY <1>1 DEF FeedInv, AnsweredAsAsked
<1> QED BY <1>2, <1>3, <1>5, <1>6, <1>7 DEF FeedInv

\* A feed before its first read.
LEMMA FeedInvFirst ==
  ASSUME FeedInit
  PROVE  FeedInv
<1>1. NoTab \in Tabs
  BY FilterKinds
<1>2. TabFits(NoTab)
  BY DEF TabFits, NoTab, ShelfNames
<1>3. feedTab \in [FeedTabs -> Tabs] /\ \A t \in FeedTabs : TabFits(feedTab[t])
  BY <1>1, <1>2 DEF FeedInit
<1>4. FeedReadTypeOK
  BY <1>3 DEF FeedInit, FeedReadTypeOK
<1>5. AnsweredAsAsked
  BY DEF FeedInit, AnsweredAsAsked, NotAsked
<1> QED BY <1>3, <1>4, <1>5 DEF FeedInit, FeedInv

\* Every read and every change keeps the feeds sound.
LEMMA FeedInvKept ==
  ASSUME FeedInv, FeedNext
  PROVE  FeedInv'
<1>1. ASSUME NEW t \in FeedTabs,
             \/ \E signed \in BOOLEAN : ListShelves(t, signed)
             \/ becauseYouViewed(t) \/ nextAnchor(t) \/ readInterests(t) \/ interestShelves(t) \/ platformShelf(t)
      PROVE  FeedInv'
  <2>1. Steps(t)
    BY <1>1, ListShelvesFits, becauseYouViewedFits, nextAnchorFits, readInterestsFits, interestShelvesFits, platformShelfFits
  <2> QED BY <2>1, StepsKeep
<1>2. ASSUME NEW t \in FeedTabs, NEW sort \in {"recommended", "trending", "newest"}, NEW offset \in {0, ShelfLimit},
             NEW seed \in FeedSeeds, NEW category \in {AnyCategory} \cup UNION {FeedCategory[c] : c \in FeedCards},
             ListListings(t, sort, category, offset, seed)
      PROVE  FeedInv'
  <2>1. Steps(t)
    BY <1>2, ListListingsFits
  <2> QED BY <2>1, StepsKeep
<1>3. ASSUME NEW t \in FeedTabs,
             BrowseRows(t) \/ CacheGet(t) \/ DrawFeed(t) \/ HydrateFeed(t)
               \/ TopPopular(t) \/ Backfill(t) \/ StageFails(t) \/ CloseTab(t)
      PROVE  FeedInv'
  <2>1. Steps(t)
    BY <1>3, BrowseRowsFits, CacheGetFits, DrawFeedFits, HydrateFeedFits, TopPopularFits, BackfillFits, StageFailsFits, CloseTabFits
  <2> QED BY <2>1, StepsKeep
<1>4. ASSUME NEW t \in FeedTabs, CacheSet(t) PROVE FeedInv'
  BY <1>4, CacheSetKeeps
<1>5. ASSUME \/ \E c \in FeedCards : ToggleCard(c) \/ SetAsideCard(c)
             \/ ViewCard \/ CacheExpires
      PROVE  FeedInv'
  BY <1>5, BetweenReadsKeep
<1> QED BY <1>1, <1>2, <1>3, <1>4, <1>5 DEF FeedNext

\* What is resolved is what was asked for, and touches no feed.
LEMMA FilterKeeps ==
  ASSUME FeedInv, FilterNext
  PROVE  FeedInv'
<1>1. PICK ask \in ListListingsRequest : AskListings(ask)
  BY DEF FilterNext
<1>2. PICK has \in BOOLEAN, geocoded \in BOOLEAN, probed \in BOOLEAN :
        asked' = [req |-> ask, out |-> feedFilter(ask, has, geocoded, probed)]
  BY <1>1 DEF AskListings
<1> DEFINE out == feedFilter(ask, has, geocoded, probed)
<1>3. asked'.out = out /\ asked'.req = ask
  BY <1>2
<1> HIDE DEF out
<1>4. out.answered => AsAsked(ask, out)
  BY FilterFits DEF out
<1>5. AnsweredAsAsked'
  BY <1>3, <1>4 DEF AnsweredAsAsked, AsAsked
<1>6. UNCHANGED shelfVars
  BY <1>1 DEF AskListings
<1>7. UNCHANGED <<tastes, tastesHad, feedCache, feedTab>> /\ FeedReadTypeOK'
  BY <1>6 DEF FeedInv, FeedReadTypeOK, shelfVars
<1>8. \A e \in feedCache : Drawn(e.key, e.ids)'
  BY <1>7, DrawnStays DEF FeedInv
<1>9. PICK tabs : tabs = feedTab /\ \A t \in FeedTabs : TabFits(tabs[t])'
  <2>1. PICK tabs : tabs = feedTab /\ \A t \in FeedTabs : TabFits(tabs[t])
    BY DEF FeedInv
  <2> QED BY <1>7, <2>1, TabStays
<1> QED BY <1>5, <1>7, <1>8, <1>9 DEF FeedInv

\* A tab that fits shows a page that repeats nothing.
LEMMA FitsRepeatsNothing ==
  ASSUME FeedInv
  PROVE  PageRepeatsNothing
<1> SUFFICES ASSUME NEW t \in FeedTabs
             PROVE  LET tab == feedTab[t] IN
                    /\ \A i, j \in DOMAIN tab.page : i # j => ToSet(tab.page[i].rows) \cap ToSet(tab.page[j].rows) = {}
                    /\ \A i, j \in DOMAIN tab.page :
                         tab.page[i].reason = "interests" /\ tab.page[j].reason = "interests"
                           /\ tab.page[i].subject = tab.page[j].subject => i = j
                    /\ \A i \in DOMAIN tab.page :
                         LET row == tab.page[i]  shown == ToSet(row.rows) IN
                         /\ IsInjective(row.rows) /\ tab.anchor \notin shown
                         /\ row.reason = "interests" => OfOneTaste(row.slot, shown) /\ shown \cap OwnCards = {}
                         /\ row.reason = "feed" =>
                              /\ \A c \in shown : InCategory(c, tab.filter.category)
                              /\ tab.filter.sort = "recommended" => shown \cap OwnCards = {}
  BY DEF PageRepeatsNothing
<1>1. PICK tab \in Tabs : tab = feedTab[t] /\ TabFits(tab)
  BY FlightFits
<1>2. CASE PageFits(tab)
  BY <1>1, <1>2 DEF PageFits, ShelfNames
<1>3. CASE tab.page = <<>>
  BY <1>1, <1>3
<1>4. CASE /\ tab.anchor = NoCard /\ DOMAIN tab.page = {1} /\ tab.page[1].reason = "feed"
           /\ Fills(tab.page[1].rows, tab.filter)
  <2>1. PICK rows \in Seq(FeedCards) : rows = tab.page[1].rows /\ Fills(rows, tab.filter)
    BY <1>4 DEF Fills
  <2>2. NoCard \notin ToSet(rows)
    BY FeedAssumption DEF ToSet
  <2> QED BY <1>1, <1>4, <2>1, <2>2 DEF Fills
<1>5. PageFits(tab) \/ tab.page = <<>> \/ (/\ tab.anchor = NoCard /\ DOMAIN tab.page = {1} /\ tab.page[1].reason = "feed"
                                           /\ Fills(tab.page[1].rows, tab.filter))
  BY <1>1 DEF TabFits, Tabs, TabStages, ShelfNames
<1> QED BY <1>2, <1>3, <1>4, <1>5

\* A home page repeats nothing, the row of a slot shows one taste the account has had in
\* that slot, and a browse is answered as the combination of its parameters asks, whatever
\* the cache holds and whatever changes between two reads (service_shelf.go, service_feed.go).
THEOREM FeedsStaySound == Spec => []FeedHolds
<1> DEFINE runs == part \in {"feed", "filter"}
<1>1. Init => (runs => FeedInv)
  BY FeedInvFirst DEF Init
<1>2. (runs => FeedInv) /\ [Next]_platformVars => (runs => FeedInv)'
  <2> SUFFICES ASSUME runs => FeedInv, [Next]_platformVars, runs' PROVE FeedInv'
    OBVIOUS
  <2>1. part' = part /\ runs /\ [FeedNext \/ FilterNext]_feedReadVars
    BY MarketRuns
  <2>2. CASE FeedNext
    BY <2>1, <2>2, FeedInvKept
  <2>3. CASE FilterNext
    BY <2>1, <2>3, FilterKeeps
  <2>4. CASE UNCHANGED feedReadVars
    <3>1. FeedInv /\ UNCHANGED <<onSale, setAside, glanced, tastes, tastesHad, feedCache, feedTab, asked>>
      BY <2>1, <2>4 DEF feedReadVars, shelfVars
    <3>2. tastesHad \subseteq tastesHad' /\ \A e \in feedCache : Drawn(e.key, e.ids)'
      BY <3>1, DrawnStays DEF FeedInv
    <3>3. PICK tabs : tabs = feedTab /\ \A u \in FeedTabs : TabFits(tabs[u])'
      <4>1. PICK tabs : tabs = feedTab /\ \A u \in FeedTabs : TabFits(tabs[u])
        BY <3>1 DEF FeedInv
      <4> QED BY <3>2, <4>1, TabStays
    <3> QED BY <3>1, <3>2, <3>3 DEF FeedInv, FeedReadTypeOK, AnsweredAsAsked
  <2> QED BY <2>1, <2>2, <2>3, <2>4
<1>3. (runs => FeedInv) => FeedHolds
  BY FitsRepeatsNothing DEF FeedHolds, FeedInv
<1> HIDE DEF runs
<1> QED BY <1>1, <1>2, <1>3, PTL DEF Spec
=============================================================================
