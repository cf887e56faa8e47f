--------------------------- MODULE MC_ListSection ---------------------------
(* Small instances of ListSection: names that fold together and names of which
   one begins another, and one declaration per way GitHub edits an item.   *)
EXTENDS ListSections

MCNames == {"a", "A", "ab"}
MCVals == {"v", "w", "x"}
MCFlags == {"on", "off"}

MCLower == [n \in MCNames |-> IF n = "A" THEN "a" ELSE n]
MCBegins == {<<"a", "ab">>}

MCDecls == {Labels, Milestones, Autolinks, DeployKeys, Webhooks, Rulesets}

(* A rotated deploy key. *)
MCKeys == {DeployKeys}

E(name, to, val, flag) == [name |-> name, to |-> to, val |-> val, flag |-> flag]

MCDocuments ==
  {[entries |-> es, policy |-> p] : p \in {"keep", "delete"},
   es \in {<<E("a", "-", "v", "-")>>, <<E("A", "ab", "v", "off")>>,
           <<E("a", "-", "v", "-"), E("ab", "-", "w", "off")>>,
           <<E("a", "ab", "v", "-"), E("ab", "-", "w", "-")>>}}

MCRotation == {[entries |-> <<E("a", "-", "v", "-")>>, policy |-> "keep"]}
=============================================================================
