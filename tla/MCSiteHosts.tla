----------------------------- MODULE MCSiteHosts -----------------------------
(***************************************************************************)
(* Instance of SiteHosts for TLC: a name under the suffix and a custom     *)
(* domain that requests on one asset claim.  What more assets and projects *)
(* may do is left to the proofs.                                           *)
(***************************************************************************)
EXTENDS SiteHosts, TLC

CONSTANTS n1, d1, a1, p1, s1, s2

MCNames     == {n1, d1}
MCCustom    == {d1}
MCAssets    == {a1}
MCProjects  == {p1}
MCProjectOf == a1 :> p1
MCSlots     == {s1, s2}

Symmetry == Permutations(MCSlots)
=============================================================================
