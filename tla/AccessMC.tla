------------------------------ MODULE AccessMC ------------------------------
(***************************************************************************)
(* A small instance of Access for TLC.                                     *)
(***************************************************************************)
EXTENDS Access, TLC

(* The seeded roles have every grant, as Admin has.                        *)
AllSeeded == SystemRole \X Grant

(* Items with the two ids alone, and items with each of the keys that make *)
(* a difference.  A userId of the user in the path is like none.           *)
PlainItem == {i \in Item : i.plain}
AnyItem   == {i \in Item : /\ i.user \notin Called
                           /\ ~ i.legal => i.isEnable /\ i.user = None}

UpTo(n, items) == {body \in SUBSET items : Cardinality(body) <= n}

AnyBody   == UpTo(2, AnyItem)
PlainBody == UpTo(2, PlainItem)
ShortBody == UpTo(1, PlainItem)

AccessSymmetry ==
    Permutations(Grant) \cup Permutations(Called) \cup Permutations(Request)

=============================================================================
