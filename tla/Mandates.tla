------------------------------ MODULE Mandates ------------------------------
(***************************************************************************)
(* Checkout mandates (ap2.ts) in their two formats, as the user and the    *)
(* agent issue them and a merchant verifies them in complete_checkout:     *)
(* with the user present an SD-JWT with a key binding (sdjwt.ts), else a   *)
(* chain of an open mandate and the agent's closed one (dsdjwt.ts).  Both  *)
(* travel as pieces: a signed token, the disclosures that are shown with   *)
(* it, and a signature over the two.  What arrives at a merchant is put    *)
(* together from any pieces that exist, of this purchase or another one.   *)
(*                                                                         *)
(* A signature that verifies is membership in the set of what was signed;  *)
(* a digest is the value it was taken of.  Keys do not change.             *)
(***************************************************************************)
EXTENDS Integers, FiniteSets, FiniteSetsExt

CONSTANTS
  Merchants, Items,
  Checkouts,     \* the ids of the live checkouts
  MerchantOf,    \* function: the merchant of each
  MaxQty,        \* bound on the pieces of one item in a checkout
  Requirements,  \* the requirements an open mandate may state together
  Claims, Revealed, \* the disclosable claims of an SD-JWT, those the wallet reveals
  Lifetime, None,
  MaxSigned, MaxTime \* bounds

MandatesAssumption ==
  /\ MerchantOf \in [Checkouts -> Merchants]
  /\ Requirements \subseteq SUBSET [items: SUBSET Items, qty: Nat]
  /\ IsFiniteSet(Items) /\ \A reqs \in Requirements : IsFiniteSet(reqs)
  /\ None \notin [allowed: SUBSET Merchants, reqs: Requirements, exp: Nat]
  /\ Revealed \subseteq Claims
  /\ Lifetime \in Nat /\ MaxQty \in Nat /\ MaxSigned \in Nat /\ MaxTime \in Nat

VARIABLES
  live,       \* the basket of each checkout, which its buyer updates
  open,       \* the open checkout mandates the user signed
  closed,     \* the closed mandates the agent signed
  presented,  \* the key-bound presentations the wallet made
  accepted,   \* what a merchant accepted last, kept for the property
  now

vars == <<live, open, closed, presented, accepted, now>>

Baskets == [Items -> 0..MaxQty]

Terms(co) == [id |-> co, basket |-> live[co]]

Init ==
  /\ live \in [Checkouts -> Baskets]
  /\ open = {} /\ closed = {} /\ presented = {} /\ accepted = None
  /\ now = 0

Signed == Cardinality(open) + Cardinality(closed) + Cardinality(presented)

-----------------------------------------------------------------------------
(***************************************************************************)
(* Issuing.                                                                *)
(***************************************************************************)
\* update_checkout: the merchant signs the checkout anew.
Update(co) ==
  /\ \E basket \in Baskets : live' = [live EXCEPT ![co] = basket]
  /\ UNCHANGED <<open, closed, presented, accepted, now>>

\* issueDelegateRoot: each allowed merchant and each acceptable item is a disclosure of
\* its own, and the wallet gives all of them to the agent.
Disclosures(root) == root.allowed \cup UNION {r.items : r \in root.reqs}

SignOpen ==
  /\ Signed < MaxSigned
  /\ \E allowed \in (SUBSET Merchants) \ {{}}, reqs \in Requirements :
       open' = open \cup {[allowed |-> allowed, reqs |-> reqs, exp |-> now + Lifetime]}
  /\ UNCHANGED <<live, closed, presented, accepted, now>>

\* issueDelegateTerminal: bound to the open mandate with all its disclosures, to the
\* merchant and to the checkout.
CloseUnder(root, co) ==
  /\ Signed < MaxSigned
  /\ closed' = closed \cup {[terms |-> Terms(co), aud |-> MerchantOf[co], nonce |-> co,
                            sd_hash |-> [root |-> root, shown |-> Disclosures(root)]]}
  /\ UNCHANGED <<live, open, presented, accepted, now>>

\* sdJwtIssue and sdJwtPresent: the wallet issues the credential, reveals some claims,
\* and the user's key binds the two to the merchant and the checkout.
SignPresent(co) ==
  /\ Signed < MaxSigned
  /\ LET credential == [terms |-> Terms(co), sd |-> Claims, exp |-> now + Lifetime] IN
       presented' = presented \cup
         {[credential |-> credential, shown |-> Revealed,
           kb |-> [aud |-> MerchantOf[co], nonce |-> co,
                   sd_hash |-> [credential |-> credential, shown |-> Revealed]]]}
  /\ UNCHANGED <<live, open, closed, accepted, now>>

-----------------------------------------------------------------------------
(***************************************************************************)
(* Verifying.                                                              *)
(***************************************************************************)
\* Mutant of ChainVerifies: the binding to the open mandate is not compared.
ChainUnbound(root, shown, leaf, co) == leaf.aud = MerchantOf[co] /\ leaf.nonce = co

\* verifyDelegateChain: the agent's signature holds under the key that the open mandate
\* names (there is one agent); exp is not looked at in either hop.
ChainVerifies(root, shown, leaf, co) ==
  /\ leaf.sd_hash = [root |-> root, shown |-> shown]
  /\ leaf.aud = MerchantOf[co]
  /\ leaf.nonce = co

\* sdJwtVerify and verifyCheckoutMandate.
PresentationVerifies(credential, shown, kb, co) ==
  /\ credential.exp >= now
  /\ shown \subseteq credential.sd
  /\ kb.aud = MerchantOf[co]
  /\ kb.nonce = co
  /\ kb.sd_hash = [credential |-> credential, shown |-> shown]

\* termsMatch: the mandate's checkout is the live one.
TermsMatch(terms, co) == terms = Terms(co)

\* evaluateCheckoutConstraints, with the disclosures that were shown: a merchant or an
\* item that is withheld is one that is not allowed.  Each requirement counts every line.
MerchantAllowed(root, shown, co) == MerchantOf[co] \in root.allowed \cap shown

Counted(terms, r, shown) ==
  SumFunctionOnSet(terms.basket, r.items \cap shown)

ConstraintsHold(root, shown, terms) ==
  /\ MerchantAllowed(root, shown, terms.id)
  /\ \A r \in root.reqs : Counted(terms, r, shown) >= r.qty

Accept(co, root, terms) ==
  accepted' = [co |-> co, root |-> root, terms |-> terms, live |-> Terms(co), at |-> now]

\* complete_checkout with a chain: its hops, the terms, and the open mandate.
AcceptChain(co) ==
  /\ \E root \in open, leaf \in closed : \E shown \in SUBSET Disclosures(root) :
       /\ ChainVerifies(root, shown, leaf, co)
       /\ TermsMatch(leaf.terms, co)
       /\ ConstraintsHold(root, shown, leaf.terms)
       /\ Accept(co, root, leaf.terms)
  /\ UNCHANGED <<live, open, closed, presented, now>>

\* complete_checkout with a presentation, whose parts may be of two of them.
AcceptPresentation(co) ==
  /\ \E p, q \in presented : \E shown \in SUBSET Claims :
       /\ PresentationVerifies(p.credential, shown, q.kb, co)
       /\ TermsMatch(p.credential.terms, co)
       /\ Accept(co, None, p.credential.terms)
  /\ UNCHANGED <<live, open, closed, presented, now>>

Tick ==
  /\ now < MaxTime
  /\ now' = now + 1
  /\ UNCHANGED <<live, open, closed, presented, accepted>>

Next ==
  \/ SignOpen \/ Tick
  \/ \E co \in Checkouts :
       \/ Update(co) \/ SignPresent(co) \/ AcceptChain(co) \/ AcceptPresentation(co)
       \/ \E root \in open : CloseUnder(root, co)

Spec == Init /\ [][Next]_vars

-----------------------------------------------------------------------------
(***************************************************************************)
(* Properties.                                                             *)
(***************************************************************************)
\* Reference: the pieces of a basket can be dealt out to the requirements, each piece
\* to one of them, so that every requirement gets enough acceptable ones.
Dealt(basket, reqs) ==
  \E deal \in [reqs -> Baskets] :
    /\ \A i \in Items : SumFunctionOnSet([r \in reqs |-> deal[r][i]], reqs) <= basket[i]
    /\ \A r \in reqs : SumFunctionOnSet(deal[r], r.items) >= r.qty

Disjoint(reqs) == \A r, t \in reqs : r # t => r.items \cap t.items = {}

\* Whatever pieces meet at a merchant, it accepts a mandate only for the checkout as it
\* is and that the user signed: the very presentation, within its lifetime, or a closed
\* mandate the agent signed under an open one that, read in full, allows it.  (An open
\* mandate's lifetime does not matter, several items may make up one requirement, which
\* OneItemServes is about, and one piece may serve two requirements that accept it.)
AcceptedIsAuthorized ==
  accepted # None =>
    /\ accepted.terms = accepted.live
    /\ IF accepted.root = None
       THEN \E p \in presented :
              p.credential.terms = accepted.live /\ accepted.at <= p.credential.exp
       ELSE /\ \E leaf \in closed : leaf.terms = accepted.live /\ leaf.sd_hash.root = accepted.root
            /\ MerchantOf[accepted.co] \in accepted.root.allowed
            /\ Disjoint(accepted.root.reqs) => Dealt(accepted.live.basket, accepted.root.reqs)

(***************************************************************************)
(* What comments say and the code does not do.                             *)
(***************************************************************************)
\* ap2.ts:244, "each requirement satisfied by one acceptable SKU at the required
\* quantity": in what a merchant accepts under an open mandate, one acceptable item of
\* each requirement is there as often as required.
OneItemServes ==
  (accepted # None /\ accepted.root # None) =>
    \A r \in accepted.root.reqs : r.qty > 0 =>
      \E i \in r.items : accepted.live.basket[i] >= r.qty
=============================================================================
