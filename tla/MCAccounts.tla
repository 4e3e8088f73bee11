---- MODULE MCAccounts ----
(* Instances of AdminAccounts for TLC. *)
EXTENDS AdminAccounts, TLC

CONSTANTS root, bob, r1, r2, p1, p2, p3, admin, viewer, t1

OneRoot == {root}
TwoAdmins == {root, bob}
OneRequest == {r1}
TwoRequests == {r1, r2}
OnePassword == {p1}
TwoPasswords == {p1, p2}
ThreePasswords == {p1, p2, p3}
TwoRoles == {admin, viewer}
OneToken == {t1}

\* Requests run the same code and are interchangeable.
RequestSymmetry == Permutations(Requests)
====
