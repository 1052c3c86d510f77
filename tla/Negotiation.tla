---------------------------- MODULE Negotiation ----------------------------
(***************************************************************************)
(* Capability negotiation (negotiation.ts) as the shopping agent uses it   *)
(* for each business it discovers (runIntent): capabilities with a foreign *)
(* namespace are dropped, names and versions are intersected, and then     *)
(* extensions without a parent are pruned, pass after pass, until a pass   *)
(* changes nothing.  A pass visits the names that were active when it      *)
(* began, in the order of the object's keys, which is any order here, and  *)
(* takes an orphan out at once, so that the rest of the pass sees it gone. *)
(***************************************************************************)
EXTENDS Naturals

CONSTANTS
  Names,              \* capability names
  Platforms,          \* what the platform may support: versions of each name
  Businesses,         \* what a business may declare for each name
  None                \* extends: it is no extension

\* A declaration: the versions, the names it extends, if it is an extension (of nothing,
\* when the list is empty), and whether spec and schema come from the authority of the
\* name.
Declaration == [versions: SUBSET Nat, extends: {None} \cup SUBSET Names, genuine: BOOLEAN]

NegotiationAssumption ==
  /\ Platforms \subseteq [Names -> SUBSET Nat]
  /\ Businesses \subseteq [Names -> Declaration]

VARIABLES
  platform, business,  \* the two profiles
  active,              \* the names that are still in the intersection
  visit, changed,      \* the pass: names to visit, and whether it took one out
  pc

vars == <<platform, business, active, visit, changed, pc>>

\* pruneInvalidNamespaces: a capability without a genuine spec and schema is dropped.
Clean(b) == {n \in Names : b[n].genuine}

\* Names both have, with a version both have.
Mutual(p, b) == {n \in Clean(b) : p[n] \cap b[n].versions # {}}

Init ==
  /\ platform = [n \in Names |-> {}]
  /\ business = [n \in Names |-> [versions |-> {}, extends |-> None, genuine |-> FALSE]]
  /\ active = {}
  /\ visit = {}
  /\ changed = FALSE
  /\ pc = "idle"

\* Discovery: the profile of a business arrives, and intersection begins.
Discover ==
  /\ pc = "idle"
  /\ \E p \in Platforms, b \in Businesses :
       /\ platform' = p
       /\ business' = b
       /\ active' = Mutual(p, b)
       /\ visit' = Mutual(p, b)
  /\ changed' = FALSE
  /\ pc' = "pruning"

\* An extension needs one of its parents, and has none when its list is empty.
Supported(n, names) == business[n].extends = None \/ business[n].extends \cap names # {}

Visit(n) ==
  /\ pc = "pruning" /\ n \in visit
  /\ visit' = visit \ {n}
  /\ IF Supported(n, active) THEN UNCHANGED <<active, changed>>
     ELSE active' = active \ {n} /\ changed' = TRUE
  /\ UNCHANGED <<platform, business, pc>>

\* Mutant of EndPass: one pass is enough.
EndPassOnce ==
  /\ pc = "pruning" /\ visit = {}
  /\ pc' = "done"
  /\ UNCHANGED <<platform, business, active, visit, changed>>

\* A pass that took a name out is followed by another one.
EndPass ==
  /\ pc = "pruning" /\ visit = {}
  /\ IF changed THEN visit' = active /\ changed' = FALSE /\ pc' = pc
     ELSE pc' = "done" /\ UNCHANGED <<visit, changed>>
  /\ UNCHANGED <<platform, business, active>>

Next ==
  \/ Discover
  \/ \E n \in Names : Visit(n)
  \/ EndPass

Spec == Init /\ [][Next]_vars

-----------------------------------------------------------------------------
(***************************************************************************)
(* Properties.                                                             *)
(***************************************************************************)
\* Types of the two profiles and of the pass.
TypeOK ==
  /\ platform \in [Names -> SUBSET Nat]
  /\ business \in [Names -> Declaration]
  /\ active \subseteq Names /\ visit \subseteq Names
  /\ changed \in BOOLEAN
  /\ pc \in {"idle", "pruning", "done"}

\* A set of capabilities is closed when each of them has a parent in it, if it needs one.
Closed(names) == \A n \in names : Supported(n, names)

\* In whatever order passes visit the names, intersection ends with the one set that
\* is closed and contains every closed set of genuine capabilities with a common
\* version: nothing is lost, no orphan is left, and rings of extensions stay.
IntersectionIsGreatest ==
  pc = "done" =>
    /\ active \subseteq Mutual(platform, business)
    /\ Closed(active)
    /\ \A names \in SUBSET Mutual(platform, business) : Closed(names) => names \subseteq active
=============================================================================
