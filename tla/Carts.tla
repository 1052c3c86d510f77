------------------------------- MODULE Carts -------------------------------
(***************************************************************************)
(* Carts of a merchant and the catalog they are filled from                *)
(* (merchant-portal/server.ts: create_cart, update_cart, cancel_cart,      *)
(* buildLineItems, /api/portal/catalog).  A line keeps the price the       *)
(* catalog had when it was added.  update_cart works through its rows in   *)
(* the live cart: a row with an unknown item throws, and what the rows     *)
(* before it changed stays changed.  No handler awaits: each is one step.  *)
(***************************************************************************)
EXTENDS Integers, Sequences, SequencesExt

CONSTANTS
  Products, Unknown,  \* the items of the catalog, and one that is not in it
  Quantities, Prices,
  None,               \* a row leaves the item or the quantity out
  MaxId, MaxRows, MaxLines   \* bounds

CartsAssumption ==
  /\ Unknown \notin Products /\ None \notin Products \cup {Unknown}
  /\ Quantities \subseteq Int /\ Prices \subseteq Nat
  /\ MaxId \in Nat /\ MaxRows \in Nat /\ MaxLines \in Nat

\* A row of a request: a line's id (0: left out), an item and a quantity.
Rows == [id: 0..MaxId, item: Products \cup {Unknown, None}, qty: Quantities \cup {None}]

VARIABLES
  catalog,  \* price of each product
  cart,     \* the cart created last (carts do not share anything)
  broken    \* history: an update failed half-way and none has succeeded since

vars == <<catalog, cart, broken>>

NoCart == [lines |-> <<>>, total |-> 0, status |-> "none"]

Init ==
  /\ catalog \in [Products -> Prices]
  /\ cart = NoCart
  /\ broken = FALSE

-----------------------------------------------------------------------------
\* cartTotals.
CartTotal(lines) == FoldLeft(LAMBDA sum, li : sum + li.price * li.qty, 0, lines)

AtLeast(n, qty) == IF qty = None THEN 1 ELSE IF qty < n THEN n ELSE qty

\* buildLineItems: a line of a row that has no id gets its position in the request.
LineOf(row, position) ==
  [id |-> IF row.id = 0 THEN position ELSE row.id, item |-> row.item,
   price |-> catalog[row.item], qty |-> AtLeast(1, row.qty)]

Available(rows) == \A i \in DOMAIN rows : rows[i].item \in Products

CreateCart(rows) ==
  /\ Available(rows)
  /\ LET lines == [i \in DOMAIN rows |-> LineOf(rows[i], i)] IN
       cart' = [lines |-> lines, total |-> CartTotal(lines), status |-> "active"]
  /\ broken' = FALSE
  /\ UNCHANGED catalog

\* The first line with the row's id or item is the row's.
Matching(lines, row) == {i \in DOMAIN lines : lines[i].id = row.id \/ lines[i].item = row.item}
LineFor(lines, row) == CHOOSE i \in Matching(lines, row) : \A j \in Matching(lines, row) : i <= j

\* One row: it sets the quantity of its line, or it adds a line, or it throws.
Merge(done, row) ==
  IF done.failed THEN done
  ELSE IF Matching(done.lines, row) # {}
  THEN IF row.qty = None THEN done
       ELSE [done EXCEPT !.lines[LineFor(done.lines, row)].qty = AtLeast(0, row.qty)]
  ELSE IF row.item = None THEN done
  ELSE IF row.item = Unknown THEN [done EXCEPT !.failed = TRUE]
  ELSE [done EXCEPT !.lines = Append(@, LineOf(row, 1))]

\* Mutant of Remaining: a line with quantity 0 stays.
RemainingAll(lines) == lines

\* The lines update_cart keeps, in their order.
Remaining(lines) ==
  FoldLeft(LAMBDA kept, li : IF li.qty > 0 THEN Append(kept, li) ELSE kept, <<>>, lines)

\* update_cart: its status does not matter, and no row needs to be valid for the rows
\* before it to take effect.
UpdateCart(rows) ==
  /\ cart.status # "none"
  /\ LET done == FoldLeft(Merge, [lines |-> cart.lines, failed |-> FALSE], rows)
         lines == Remaining(done.lines) IN
     /\ Len(done.lines) <= MaxLines
     /\ cart' = IF done.failed THEN [cart EXCEPT !.lines = done.lines]
                ELSE [cart EXCEPT !.lines = lines, !.total = CartTotal(lines)]
     /\ broken' = (done.failed /\ (broken \/ done.lines # cart.lines))
  /\ UNCHANGED catalog

CancelCart ==
  /\ cart.status # "none"
  /\ cart' = [cart EXCEPT !.status = "canceled"]
  /\ UNCHANGED <<catalog, broken>>

\* The portal changes a price: lines that exist keep theirs.
EditCatalog(p, price) ==
  /\ catalog' = [catalog EXCEPT ![p] = price]
  /\ UNCHANGED <<cart, broken>>

Requests == SeqOf(Rows, MaxRows)

Next ==
  \/ \E rows \in Requests : CreateCart(rows) \/ UpdateCart(rows)
  \/ CancelCart
  \/ \E p \in Products, price \in Prices : EditCatalog(p, price)

Spec == Init /\ [][Next]_vars

-----------------------------------------------------------------------------
(***************************************************************************)
(* Properties.                                                             *)
(***************************************************************************)
\* What a cart shows is the sum of its lines, each of at least one piece, whatever
\* prices the catalog has had and lines that share an id; only an update that threw
\* half-way may leave it otherwise, until the next one that does not throw.
CartAddsUp ==
  ~broken => /\ cart.total = CartTotal(cart.lines)
             /\ \A i \in DOMAIN cart.lines : cart.lines[i].qty > 0
=============================================================================
