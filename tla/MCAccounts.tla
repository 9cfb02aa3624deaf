------------------------------ MODULE MCAccounts ------------------------------
(* One workspace and one project, two users (the second need not have       *)
(* signed in to be added), one anonymous session.                           *)
EXTENDS Accounts, TLC

CONSTANTS u1, u2, w1, p1, s1, r1, r2

MCUsers == {u1, u2}
MCWorkspaces == {w1}
MCProjects == {p1}
MCSessions == {s1}
MCSlots == {r1, r2}
MCRoles == {"editor", "admin", "owner"}
MCAnswers == {"ok", "forbidden"}

Interchangeable == Permutations(MCUsers) \cup Permutations(MCSlots)
=============================================================================
