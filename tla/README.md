# Formal models of the UCP demo

TLA+ models, TLC runs and TLAPS proofs for the services of this repository: the
merchant portal (checkout sessions, orders, carts, accounts), the payment service
provider, the credentials provider, the shopping agent's session, a purchase across
them, the protocol layers they share (JSON-RPC, negotiation, mandates), and the
merchant of the conformance suite. Every action is translated from the code (paths
below are relative to `src/` of the repository); `PROJECT.json` maps each
definition to its lines.

    tlc -workers 2 -config MCWallet.cfg MCWallet      # a run
    tlapm Wallet_proofs.tla                           # a proof

## 1. The system

Four Node processes talk JSON-RPC ("MCP tools") over HTTP. Each is one event
loop: a handler runs alone until it awaits, and every other handler can run at
each await. All state is in memory maps; a restart loses all of it (README.md,
"Demo limitations"), so nothing is recovered. A restart is modelled where another
process notices it: a caller with new keys (`JsonRpc`), a merchant that forgot its
tokens (`AccountLinking`).

| Component | State | Operations | What is hard | What makes it correct |
|---|---|---|---|---|
| Merchant checkout sessions, `apps/merchant-portal/src/server.ts` | per tenant: `checkouts`, `orders`, `stats.declines` | create/update/cancel/complete_checkout | complete_checkout awaits four other services; `refreshCheckout` replaces the object it holds; the status is checked once | what is charged was signed, an order is what was mandated, one order per session, final statuses stay |
| Orders of a merchant, same file | `orders`, shipment timers, webhooks; the agent's copy of an order | shipOrder, deliver, refund_order, file_dispute, pushOrderWebhook | refund_order awaits the PSP and the webhook; timer, portal, refunds and disputes share one status; webhooks are lost or overtake each other | books agree with the PSP's, a parcel leaves once, the copy is the order as it was |
| Carts, same file | `carts`, catalog | create/update/cancel_cart, price edits | update_cart works row by row in the live cart and may throw in the middle | a cart shows the sum of its lines |
| Accounts, same file | OAuth codes and tokens | authorize, token, list_orders | the agent's calls overlap, lose answers, overwrite one token; the merchant restarts | orders are refused only for an expired token |
| Payment provider, `apps/payment-provider/src/server.ts` | `txns`, `openMandateLedger`, `agentRegistry`, `velocityLog`, limit | authorize, capture, refund, lookup, admin | authorize awaits the wallet in the middle: checks and ledger around it | refunds bounded, mandate limits under concurrency, errors hold no money, velocity, lockout |
| Credentials provider, `apps/credentials-provider/src/server.ts` | `agentPolicy`, `approvals`, `tokens`, mandates | mint, sign, approve, release, revoke, edit policy | budget is checked at mint, counted at release; policy and approvals change in between | meter equals released tokens, scopes and decisions final |
| Passkeys, same file | `passkeys`, registration challenges | options, register, remove, the gate of sign_mandate | read before the awaited verification, written after it | one assertion signs one mandate |
| Shopping agent, `apps/shopping-agent/src/orchestrator.ts` | one session: wish, selection, checkout copy, token, mandates, order | intent, select, create, update, authorize, prepare, confirm, 3DS, the autonomous runs | Express serves all routes of a session at once and nothing locks it: a handler goes on with a session another one changed | an order rides one grant, needs a policy that allows it or an approval, stays within the wish |
| JSON-RPC layer, `packages/common/src/jsonrpc.ts` | idempotency store, profile cache | verify, negotiate, look up, run the tool, store the answer | check, await, store; stale and late profiles; expiry | an answer is of its own payload, a finished key does not run again, keys change over in bounded time |
| Negotiation, `packages/common/src/negotiation.ts` | two profiles, the active names | intersect, prune | pruning takes names out while it walks over them | the greatest closed intersection, in any order |
| Mandates, `packages/common/src/{ap2,sdjwt,dsdjwt,crypto}.ts` | what was signed | issue, delegate, present, verify, constraints | pieces of several mandates meet; claims withheld; updates in between | what is accepted was authorized |
| REST merchant, `apps/merchant-portal/src/rest-conformance.ts` | own checkouts, orders, idempotency map | the UCP REST binding | replies kept by reference; a key used again elsewhere; PUT checks the status before the key | a key executes once, replies to final calls stay |
| Audit chain, language model, pages, scripts | see section 6 | | | |

Interactions: agent → merchant (checkout, cart, order tools, OAuth), merchant → PSP
(`lookup_agent`, `authorize_payment`, `capture_payment`, `refund_payment`), PSP →
wallet (`release_credentials`), agent → wallet (mint, sign, approvals), merchant →
agent (order webhooks), everyone → everyone's `/.well-known` profile for keys.

The hazards of the code, each at its line with the properties aimed at it, are
the `hazards` list of `PROJECT.json`; those without a property say why.

## 2. The modules

**`CheckoutSession`** – a merchant's sessions. `heap` holds the checkout
objects in the order they were signed, `current` is the session map, and
`qty` the line items that all objects of a session share. `refreshCheckout` is
`Refreshed`/`Publish`: it recomputes total and status in the old object and
publishes a signed copy. A `complete_checkout` call keeps the reference it fetched
(`completes[h].obj`) and is one action per stretch between awaits: `StartComplete`
(status check) – KYA lookup – `RequestAuthorization`/`RefuseMandate` (terms
against the object) – `AuthorizeFailed`/`Escalate`/`Authorized` –
`PlaceOrder`/`CaptureFailed`. Other handlers run between any two. A piece of
a line costs one unit, and what shipping and tax add and discounts take away is one fee,
which may be negative: a total may be nothing, or less (the portal accepts a price of 0,
and the agent's own discount does not look at the subtotal). `overlapped` and
`disturbed` are history: sessions on which two completions overlapped, and sessions
updated while a completion waited.

**`PaymentProvider`** – `authorize_payment` is `RefuseUntrusted`, `RefuseVelocity`
or `Admit` up to the await of the wallet, and `ReleaseFailed`, `ConstraintFailed`,
`OverCap` or `Settle` after it. Captures, refunds (tool and dashboard), registry
edits and velocity limits are actions. A request whose mandate does not verify
changes nothing and is no step. Evaluation of the open mandate's constraints is
`WithinOpenMandate` (`packages/common/src/ap2.ts`).

**`Wallet`** – policy with the spent meter, approvals with their lifetime, tokens
(context, policy snapshot, releases), payment mandates. No handler modelled here
awaits between reading and writing, so each is one action. Time is a counter.

**`PurchaseContract`** – the abstract promise: money is held only for what the
user consented to, captured only once held, and an order placed only when
captured.

**`Purchase`** – merchant, PSP and wallet by named `INSTANCE`, each taking its own
module's steps; a message is the step of its receiver. `payload` is what a call
carries, `creds` the wallet's answer, `lost` the calls of which the merchant
missed an answer. The agent mints, lets the user sign and submits in any order
and as often as there are calls; the user revokes; the admin suspends; the
merchant may miss the answers to authorize and capture. Totals may be nothing here, but
not negative (`PurchaseAssumption`), because the limits of PSP and wallet are sums of amounts
that only grow; negative totals are in `CheckoutSession` alone. `Contract` maps this state
to `PurchaseContract`, and `KeepsContract` is checked as a refinement.

**`AgentSession`** – one session of the agent. A handler (`call[c]`) is the list of
routines it still has to run (`todo`), what it waits for (`at`) and what it captured
before the await; a route of the API starts one (`Requests`), an autonomous run is
the routines of `Shopping` one after the other. `Quiet` is Node's run to
completion. What a request does at its server happens when it is sent, its
answer arrives in any later step or never (`Fail`). Merchants, wallet and PSP
are their contracts here: `store`, `policies`, `approvals`, `grants`, and
`MerchantAccepts` and `PspAccepts`, which are what the verifiers compare at
complete_checkout; the other modules show how the services keep them. A completion that is
refused leaves its mark on the merchant's checkout (`Declined`): ready again after a
refused authorization, in progress after a failed capture. What the session holds is read
at the line where the code reads it: `confirmAndPay` captures the checkout before its
awaits, `submitComplete` reads everything when it sends. In between the autonomy gate
awaits the wallet twice, for the policy (`Gate`, `ReadPolicy`) and, when the captured total
violates it, for the approval (`ReadApproval`); other handlers, the user's decisions
(`Decide`) and policy edits (`EditPolicy`) run meanwhile. `policies` keeps every policy
there was, the last one in force. A user who names no number has no cap (`NoCap`), and a
choice of merchants that is empty allows all of them (`Allowed`).

**`Orders`** – one order after it is placed. `status`, `payment`, `adjustments` and
`events` are the order record's fields, `txn` the provider's transaction, `timer`
the auto-ship timer. `refund_order` is `RefundOrder` (up to its call of the PSP) –
`RefundPayment` at the PSP – `RecordRefund` (adjustment, both statuses, webhook) –
the end of its webhook, or `RefundFails` where an answer is missed. A webhook is
`PostWebhook` (key and body are made after the profile is fetched, from the order as
it is then) and `ReceiveWebhook`, `RejectWebhook` or `LoseWebhook`; `shipped` is the
agent's copy. An adjustment carries the call it came from, which the code has only
as a random id. Within `Orders` the PSP has one transaction and only its refunds;
their full counterpart is in `PaymentProvider`.

**`OrderBook`** – the abstract promise of an order, of which `Orders` is an
implementation (`KeepsBooks`): credits of different sources that sum to no more than was
paid, entries that only grow and hold each credit once, a parcel that leaves and arrives
once, and an agent that is told some past state of both.

**`JsonRpc`** – `mcpHandler` for one tool, with overlapping requests of one caller.
`requests[q].pc` is the await a request is at: the profile (`verifying`, its fetch
in `fetch`), or the tool (`running`). `Proceed` is what runs without a break once a
profile is there: signature, negotiation, idempotency check (`Dispatch`), answer
or start of the tool. The caller restarts with a new key (`RestartPeer`); profiles
in flight and in the cache are then old. `at` and `of` in a request that is done
are history: when it was answered and by which run.

**`RestConformance`** – no handler awaits, so a request is one step (`Handle`); the
map of replies (`idemp`) holds a reference to the live checkout except for
complete, which keeps a copy. `first` is history: what the first reply to a key said.

**`Carts`** – requests are sequences of rows that may leave out item, id or quantity;
`UpdateCart` folds `Merge` over them in the live cart and keeps what was changed
when a row throws. **`Negotiation`** – the profile of a business arrives
(`Discover`) and passes prune it (`Visit`, `EndPass`); a capability that says it extends
an empty list is pruned, one that does not say is not. **`Mandates`** – a
signature that verifies is membership in the set of what was signed; a merchant is
shown any combination of pieces that exist. **`AccountLinking`** – the merchant's
codes and tokens and the agent's overlapping calls. **`Passkeys`** – ceremonies that
verify asynchronously between a read and a write; authenticator and WebAuthn library
are their contracts.

**`Services`** – the six modules that share no state (`RestConformance` and the five
short ones above), by named `INSTANCE`: `part` says which of them runs, chosen in the
initial state, and the variables of the others hold `Null`. It asserts the
assumptions of all six and restates their properties for the part they are about.

**`*_proofs`** and **`Sums`** – section 5. **`MC*`** – model values, policies and
symmetries for TLC.

## 3. The runs

| Run | Question | Result |
|---|---|---|
| `wallet` | Two outstanding tokens, policy edits with meter resets, approvals and their expiry, revocation. Is the meter the sum of what was released (`SpentMeter`), are scopes (`TokenScopeIsFixed`) and decisions (`DecisionIsFinal`) final, and is an overshoot of the budget always due to a stale scope (`OvershootNeedsStaleScope`)? | holds |
| `psp` | Three calls of one open mandate overlap, with captures and refunds: refund bound, recurrence and budget of the mandate, no money after an error. A registered and an unregistered agent, two ticks of window, limit changes, suspension, scores at the threshold: velocity, and who may unlock an agent. | holds |
| `checkout` | Two completions of a session; updates and cancellations at every await. Charges are signed terms, shown totals are current, orders are as mandated, one order per session, statuses stay final, and (under fairness) no session stays in progress. | holds, with the exceptions the properties name |
| `purchase` | Two submits of one session and token through all three services. Every order is backed by a capture, a mandate and a released token; no money is unaccounted for; the meter covers the charges; the contract is kept; every call is answered (under fairness). | holds |
| `orders` | Two refunds overlap, with the dashboard, a dispute, shipment and delivery, and webhooks in any order. Do order and PSP agree (`RefundsAreRecorded`, `StatusIsBacked`), does the parcel leave once, and does the order implement `OrderBook` (`KeepsBooks`)? | holds |
| `jsonrpc` | Three requests with and without a key, two bodies, moving time and a restart of their caller. Do answers fit their payload, does a tool run only for forgotten keys, and how long do old keys work? | holds |
| `agent` | Autonomous runs at two merchants, overlapped and followed by the single routes. Is an order paid under the payment mandate signed with its checkout mandate (`PaidUnderOneGrant`), approved or allowed by a policy that was in force between the start of the payment and its signature (`AutonomyNeedsApproval`), is the session's copy current when nothing overlapped, was lost or was refused (`CopyIsCurrent`), and does an undisturbed run stay within the wish (`PaysWithinWish`)? | holds |
| `services` | The six separate services: used keys and kept replies of the REST merchant, the sum of a cart, the greatest intersection, mandates mixed from pieces, refused listings, assertions that sign once. | holds |
| `wallet_budget` | Is the budget a total? | violated: two tokens are minted before either is released |
| `purchase_token` | Does a token settle once? | violated: two overlapping submits, no challenge |
| `agent_instrument` | Is the instrument of the open payment mandate the one that pays? | violated: the PSP is given none to compare |
| `mandates_mix` | Does one acceptable item satisfy each requirement at its quantity? | violated: a piece of one item and one of another do |

Exceptions named inside properties that hold are behaviours of the code, not
conveniences of the model:

- `OneOrderPerSession` leaves out sessions on which two completions overlapped: both
  can place an order, since the status is checked only before the first await.
- `OrderAsMandated` and `LiveTotalIsCurrent` leave out sessions updated during a
  completion, which goes on with the object it has.
- `TerminalStates` allows a cancel of a completed session (`cancel_checkout` checks
  nothing), and `InProgressEnds` leaves out sessions whose capture failed (nothing
  resets the status).
- `MoneyIsAccounted` leaves out calls whose answer was lost: a lost answer to
  `authorize_payment` is reported as a decline although the money is held.
- `MeterCoversCharges` leaves out tokens charged for another amount than they were
  minted for, or released twice: the meter counts the minted amount once.
- `RunsOnlyWhenForgotten` leaves out runs that overlap (the store is written after
  the tool ends).
- `CopyIsCurrent` and `PaysWithinWish` speak of handlers that did not overlap:
  a second handler can replace checkout, token or copy under the first. `CopyIsCurrent`
  also names the two statuses that only a refused completion leaves and the session
  does not learn of: ready again where the copy says escalated, and in progress.
- `AutonomyNeedsApproval` accepts any policy that was in force from the start of the
  payment on: the gate acts on the policy it was told, and an edit that arrives after that
  does not stop the payment.
- `CartAddsUp` leaves out a cart whose last update threw half-way.
- `FinalRepliesStay` is about cancel and complete: replays of create and update
  show the checkout as it is by then.
- `AcceptedIsAuthorized` does not ask for the lifetime of open mandates (no
  verifier looks at it, `packages/common/src/dsdjwt.ts:238`), lets several items make up
  one requirement (a comment wants one of them to, see section 4, *Mix of items*), and
  leaves out requirements that accept the same item, which one piece can serve twice.
- `AssertionsSignOnce` leaves out authenticators that do not count, and races of two
  ceremonies over one passkey or challenge.

**Bounds.** Two completions are the fewest that overlap, and each can be a retry of
the other; `MaxObjects = 3` lets a session be created and touched twice more
by the buyer (completions may always sign more). Three PSP calls let two overlap
on the last occurrence of a two-occurrence mandate while a third is refused.
Two tokens are the fewest that pass a budget together. Amounts 1 and 2 tell apart
partial from full refunds, a charge at a limit from one beyond it, and a minted
from a charged amount, and 0 is a charge of nothing. The fees of `checkout` let a
total be positive, nothing and negative; in `purchase` a discount of one makes quantity 1
cost nothing and quantity 3 cost 2. The run `psp` explores two
regions of the provider's states (`Focus`): money, with three calls at one instant of an
agent outside the registry (`Ledger`), and trust, with two calls that ride no
mandate while clock, scores and limits move (`Trust`); velocity limits 1 and 2 are edits
of an initial limit of 3. Two units of an order
allow a partial and a full refund and two partial ones; the dashboard refunds once
and the buyer disputes once. Three requests let two overlap and a third come
after them; the idempotency lifetime is twice the profile's, both are short enough
to pass within `MaxTime`, and a fetch may take one unit, so a profile can be
overtaken by a newer one. Scores 47 and 100 put an agent one decline away from the
threshold 40 and at the upper end. The clock stops at `MaxTime`: two
lifetimes or windows, in `jsonrpc` one lifetime of a stored answer.

`MandatesAssumption` and `PurchaseAssumption` ask for finite sets of items, requirements
and calls, because a sum over them has a meaning only then; the sets of a running
program are finite. `PurchaseAssumption` further has at least one checkout, token and
method, whose answer the PSP's rail simulator gives (`ok`, `challenge`, `decline`),
positive quantities, which a line of a checkout has, and totals that are not negative.

In `agent` one call serves the autonomous runs and the other the single routes, three
starts in all, of which a policy edit is one: an autonomous run, a route that overlaps it
or changes the session under it, and one more afterwards. A user is asked above an amount
of 1, or always, and names the wish 2 or no number; where nothing stops a run, or
everything does (no number, always asked), one start less is explored (`ShorterRuns`).
Prices 1 and 3 are below and above the wish,
and price 1 with the addition 1 is within it, above the threshold 1; two
checkouts let a retry open a second one. There is one payment method and no
request names it, because the rail matters only to `agent_instrument`, which has two. In `services` two checkouts
and two carts let a key meet another checkout and another body; two rows are the
fewest of which the second can throw after the first took effect; three capability
names give a chain of two orphans and a ring; two merchants, two items and three
signed pieces let one purchase's piece meet another's, and requirement sets
overlap or not; two linking calls overlap and five ids let one of them link twice;
three ceremonies are an enrolment, a signature and a replay of its assertion.

Call ids and token values are random ids and merchants are interchangeable, hence
the symmetries; runs with liveness use none. Systems may stop when
every call is used up, so deadlock is not checked; that calls end is `CallsEnd`.

**Fairness.** `FairSpec` (of `CheckoutSession` and `Purchase`) has weak fairness on
what continues a call that is under way, and on nothing else: an awaited fetch
settles, by an answer or by the platform's timeout, and Node then resumes the
handler. Callers, users and admins owe nothing, and messages may be lost.

## 4. What the counterexamples say

- *Budget*: `checkPolicy` compares with `spent` at mint; `spent` grows at release.
- *Token*: the wallet cannot tell a 3DS retry from a second purchase.
- *Instrument*: the agent has the chosen method signed into the open payment
  mandate, but `authorize_payment` evaluates the constraints without the instrument,
  so the rail chosen later (from the policy or by total) settles whichever it is.
- *Mix of items*: the comment at `packages/common/src/ap2.ts:244-246` says that each
  requirement must be satisfied by one acceptable SKU at the required quantity;
  the code (lines 266-270) adds up the quantities of all acceptable lines, so one piece
  each of two SKUs is as good as two of one. The demo's agent only asks for quantity 1,
  where the two readings agree.

Further behaviours that no document contradicts and that the models contain: an
update during a completion leaves an order of other lines than were charged; a
session cancelled while its completion waits still ends completed; a challenge and
its retry each take an occurrence of the open mandate; `shipOrder` wants the status
`confirmed`, which the first partial refund takes away, so neither timer nor
portal ships the rest.

## 5. The proofs

For every value of the constants, from the named assumption of each module only
(`PspAssumption`, `WalletAssumption`, `OrdersAssumption`, `RpcAssumption`,
`CheckoutAssumption`, `NumbersAssumption`, `PurchaseAssumption`, and
`ServicesAssumption` with its six parts):

- `Sums`: what `SumFunctionOnSet`, the library's sum over a finite set, is: nothing over
  no element, one element more adds its value, a subset has no larger sum, and a set
  that is mapped one to one onto part of another, value by value, has none either
  (`SumInjective`). The library defines it by a fold over the subsets of the set that
  picks elements by `CHOOSE`; that the order of the picks does not matter is proved
  on a minimal subset for which it would (finite sets have one), which takes the place of
  induction over the set. The same argument, for a fold whose step is any function and
  whose picks are given, yields `IterExists`, `IterTyped` and `FoldKeeps`: a fold over a
  sequence exists, stays in its type, and keeps what each step keeps.
- `PaymentProvider_proofs`: every action is a `OneCallStep` – it changes one call,
  its transaction and the ledger in one of five ways, or none of them. From it:
  `MoneyInv` (types, `RefundsWithinCapture` and `RefusedCallHoldsNoMoney` together)
  is inductive: a settlement must start from a transaction with nothing refunded,
  which holds because a waiting call has no transaction yet, and a refund bound is
  kept when a call gets its request because an idle call has refunded nothing.
  Then `RecurrenceHolds`: a transaction starts to ride a mandate in the very step
  that counts it, so riders never pass the counter. `VelocityIsLimited` needs
  `LogInv`: the log holds every admitted call still within the window, and only
  calls of its own agent. `TransactionsMoveForward` and `LockoutIsFinal` are action
  properties of the same invariant. `OpenBudgetHolds` is the sum of the
  riders' amounts against the ledger: a step adds to the sum what it adds to the spend
  (`SpendStep`).
- `Wallet_proofs`: every action is a `OneTokenStep`; `TokenInv` adds to
  `ReleaseBound` that a token was minted for an amount within the budget
  left that it carries, which is what makes an overshoot need a stale scope.
  `ScopeIsFixed`, `OvershootIsStale` and `DecisionsAreFinal` follow. `MeterIsExact`
  keeps the meter and the set of metered tokens together: the first release adds one
  token and its amount, a second adds neither, and a reset empties both.
- `Orders_proofs`: `RefundInv` strengthens the two money invariants with
  `CallInv`: a call has credited exactly what it is about to record, none of its
  adjustments exists before it records, and the status it brings back is one the
  provider's total still backs. An overlapping refund only raises that total, so
  a late answer cannot make the order claim more than was given back. `PushInv`
  says that every body sent is a prefix of the order as it is now and that
  its key counts the body's entries; since events and adjustments only grow, equal
  keys mean equal prefixes (`PrefixesByLength`). `OrderKeepsBooks` is the refinement of
  `OrderBook`: it needs all of these, and `BooksInv`: the provider's total is the sum of
  its credits, and a call that has not been credited has no credit there. A refund at
  the provider is then `Credit`, its record `EnterCredit`, a dispute `EnterComplaint`,
  shipment and delivery `Leave` and `Arrive`, a webhook that arrives `Tell`, and every
  other step stutters (`BookStep`).
- `Services_proofs`, JSON-RPC: `ProfileInv` dates every profile: a cached one was the caller's
  at most `MaxDelay` before it was cached, one in flight when it was asked for or
  later. Whoever is accepted or refused had such a profile, younger than
  `ProfileTTL + MaxDelay` (`ProfileUsed`), which gives both key theorems. `AnswerInv`
  ties requests, runs and the store together: an answer or a stored response names a
  run of the same body that ended with it, and every run with an answer to keep left
  an entry at least as young. A run finds nothing remembered (`RunsUnremembered`), so
  by that last part every finished run of its key is older than `IdemTTL`.
- `CheckoutSession_proofs`: `HeapInv` (types, and every reference points to an
  object of its own session) comes first, because every step writes through one.
  `TotalInv` adds `HeldInv`: the objects that waiting calls hold say the same
  total as the live one while no update disturbed the session, so a call that puts
  its object back does no harm (`RefreshedHeap`, `RefreshResigns`). `SignedInv` says that
  what was ever offered is a possible quantity and fee with their sum as the total
  (`SignedTermsAddUp`). `ChargeInv` and
  `OrderInv` carry terms and charge from the verification to the order.
  `OneOrder` needs `OneInv` for sessions without overlap: at most one call in flight,
  never one in flight beside an order, and an order only under a status that no
  other call can start from (`StepStatus` says which statuses a step can leave).
- `AgentSession_proofs`: `GateInv` says where the gate stands in a handler's list:
  `sign_as_agent` only ever follows `gate` directly (`Gated`). A handler that waits at its
  gate holds a policy that was in force since it captured its checkout, or the answer
  that the checkout is approved, and a handler past its gate holds a cleared
  checkout (`CallsInv`): some policy of those allows its total, or it is approved. A
  payment mandate the agent signed is of a cleared checkout (`SessionInv`), and what is
  cleared stays cleared (`ClearedStays`), because the list of policies only grows and the
  wallet never takes an approval back. The order that results has the total of the signed checkout, since
  merchants compare it, although the session may hold another checkout by then.
  `PairsStayTogether` needs `GrantInv`: every open payment mandate, in the session or
  in a payment mandate, names some open checkout mandate, so the verifiers'
  comparison is never skipped for an order that has both.
  `CopyStaysCurrent` needs `CopyInv`: while nothing overlapped, one handler is busy at
  most, and between a request and its answer the answer under way is the checkout as
  the merchant has it, so the one that takes it is up to date; a refused completion
  changes the merchant's status only, and only in the two ways `Close` allows. `RunsPayWithinWish` is an
  action property of `AutoInv`, which follows an autonomous run through its plan: in each
  phase (`Search` to `Retries`) it says what is still to run and what is already known
  of the selection, the open mandates, the checkout and the total, from the search
  to the retry after a challenge (`Phase`). Each routine takes a run from its phase to the
  next (`CreateAuto`, `HoldAuto`, `SubmitAuto` and the like), which needs that the cap
  is the user's number, if there is one, and that the copy is current.
- `Services_proofs`, the six services: what steps in `Services` is a step of the part that
  runs (`PartStep`), so each part has an invariant of its own.
  - REST merchant: `ReplyInv` says that a cancelled checkout, kept by reference, is final
    and hence unchanged since (`FinalCheckoutsStay`), which is why replays agree;
    `KeysRunOnce` is an action property of the types. `OrdersAreOfTheirCheckouts`
    relates orders and checkouts one to one.
  - Carts: `CartInv` types lines and catalog. A fold over the rows leaves lines of
    products in the catalog (`MergeTyped`, `MergedTyped`), and what update_cart keeps of
    them are lines of at least one piece (`RemainingTyped`), both by `FoldKeeps`.
  - Negotiation: `PruneInv`: no closed set of mutual names loses a name, and in a pass
    that changed nothing so far every visited name has its parent. At the end of such a
    pass the rest is closed, hence the greatest.
  - Mandates: the chain's verification compares the root of the leaf with the root it
    opens, so withheld claims are covered by it (`ChainIsAuthorized`). Where no two
    requirements share an item, dealing each its own items of the basket serves all of
    them (`EnoughForOne`, `DealtOnce`, `DisjointIsDealt`), sums over the items.
  - Account linking: `LinkInv`: while the merchant keeps its state, a code under way is
    pending and belongs to one call, and every token in a session or a call was issued
    and has its lifetime, whichever answer came last.
  - Passkeys: `PasskeyInv`: as long as no two ceremonies raced, a credential is enrolled
    once, because its challenge is gone (`EnrolledOnce`), what a ceremony read is what
    is there (`ReadIsCurrent`), and the counter of the passkey has passed every
    assertion that signed (`UsedUp`).
- `Purchase_proofs`: `ServicesRunAsSpecified` first: a step of the composition is a step of
  the merchant, the PSP and the wallet, or leaves it alone. For the PSP and the wallet
  that needs `LinkInv`, about what calls carry (an amount within the user's cap, a
  token that was minted under it), and that what a merchant signs adds up
  (`SignedTermsAddUp` of `CheckoutSession_proofs`), hence is not negative here. After that every theorem about one service
  holds in the composition and is used as such. `FlowInv` follows the money of one
  call: what the PSP was asked is what was submitted and mandated, a transaction is in
  the state the call's answer will say, an order has its capture; it gives
  `OrdersAreBacked` and `MoneyAccounted`. `ServedInv` counts the calls a token was
  released for (`TokensBoundMoney`). `ChargesAreMetered` maps each charge injectively
  to the metered token it was paid with and compares the two sums. `PurchaseKeepsContract`
  is the refinement: initial states map to the contract's, and a step consents, holds,
  captures or orders for one call there, or stutters.

Some properties only the proofs check, no run: `KeyIdentifiesBody`, `CopyIsPast` (which
follows from `KeepsBooks`), what `NewKeysAreAccepted` and `SignedTermsAddUp` state, the types,
`FinalCheckouts` and `OrderIsItsCheckout`. TLC was used on them before they
were proved, and on the larger inductive invariants (`CopyInv`, `AutoInv`, `CartInv`).

The models carry two forms for the provers' sake: sums are the library's
`SumFunctionOnSet`, and `Remaining` of `Carts` is a fold where `SelectSeq` would do, which
the provers cannot expand.

Only model-checked: liveness (`InProgressEnds`, `CallsEnd`), which these provers do
not reach. The four counterexamples of section 4 are TLC's as well.

## 6. Not modelled

- Signatures, encodings, schemas: a mandate that verifies is one that was
  signed, a digest is what it was taken of. `JsonRpc` leaves out the checks
  before the signature (they only refuse), the signing of responses and the client
  side.
- The audit chain of the agent: an append to one list, without an await.
- The language model and intent parsing: any intent, any order of operations.
- Of the agent: delivery watch, disputes, the scripted scenarios and the
  activity stream, which call the services and keep flags of the page; accessories
  are one product with the rest. The agent's autonomous flow meets the services as
  contracts in `AgentSession`; `Purchase` composes the services themselves, for the
  user-present flow.
- Stock, promo codes and shipping options as such: no check of the code depends on
  stock, and a promo or shipping option is a fee or an addition to a total.
- Pages, telemetry, scripts, the conformance harness, vendored assets.

## 7. Plan

Done: all modules of section 2, the runs of section 3, the proofs of section 5; every
safety property of the passing runs has a theorem. Left, most valuable first:

1. The agent and the services end to end for the autonomous flow: `MerchantAccepts` and
   `PspAccepts` of `AgentSession` as what complete_checkout of `Purchase` and `WithinOpenMandate` of
   `PaymentProvider` compare, for the open mandates of a session.
2. An abstract specification for `JsonRpc` with its refinement: a service that answers
   each remembered key once.
3. The sum a cart shows, without the exception: which lines an update that threw
   half-way can leave.
4. Delivery watch and disputes in `AgentSession`.
