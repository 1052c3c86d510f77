----------------------------- MODULE MCServices -----------------------------
(***************************************************************************)
(* Services on small profiles and baskets.                                 *)
(***************************************************************************)
EXTENDS Services, TLC

\* Three capability names; versions, parents or a foreign namespace vary together.
CONSTANTS cap1, cap2, cap3
ThreeNames == {cap1, cap2, cap3}
OneVersion == [ThreeNames -> {{1}, {2}}]
SmallBusinesses ==
  [ThreeNames -> [versions: {{1}, {1, 2}}, extends: SUBSET ThreeNames \cup {Null},
                  genuine: {TRUE}]]
  \cup [ThreeNames -> [versions: {{1}}, extends: {Null, {cap1}}, genuine: BOOLEAN]]

\* Two merchants with a checkout each, and two items.
CONSTANTS m1, m2, co1, co2, i1, i2
TwoMerchants == {m1, m2}
TwoItems == {i1, i2}
OneEach == (co1 :> m1) @@ (co2 :> m2)
Need(items, qty) == [items |-> items, qty |-> qty]
SmallRequirements ==
  {{}, {Need({i1}, 1)}, {Need({i1, i2}, 2)}, {Need({i1}, 1), Need({i2}, 1)},
   {Need({i1}, 1), Need({i1, i2}, 1)}}
=============================================================================
