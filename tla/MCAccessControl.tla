---------------------------- MODULE MCAccessControl ----------------------------
(* One protected site, two clients with an address each, two passwords.     *)
EXTENDS AccessControl, TLC

CONSTANTS a1, c1, c2, p1, p2, k1, s1, s2

MCAssets == {a1}
MCClients == {c1, c2}
MCPasswords == {p1, p2}
MCSecrets == {k1}
MCSlots == {s1, s2}
MCAddress == [c \in MCClients |-> c]

Interchangeable == Permutations(MCClients) \cup Permutations(MCPasswords) \cup Permutations(MCSlots)
===============================================================================
