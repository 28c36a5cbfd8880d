--------------------------- MODULE MCUserSecrets ---------------------------
(***************************************************************************)
(* Instances of UserSecrets: alice and bob authenticate by SCRAM, carol by *)
(* X.509.                                                                  *)
(***************************************************************************)
EXTENDS UserSecrets

CONSTANTS alice, bob, carol, s1, s2, s3, c1, c2, p1, p2

User(name, scram, conn) == [name |-> name, scram |-> scram, conn |-> conn]

\* Users are added and removed, a Secret of credentials is renamed, a
\* connection string passes from one user to another, and a list is rejected.
OwnNames ==
  { <<User(alice, s1, c1), User(bob, s2, c2)>>,
    <<User(bob, s2, c1)>>,
    <<User(carol, None, c2), User(alice, s3, c1)>>,
    <<User(alice, s1, c1), User(bob, s1, c2)>> }

\* The name of the credentials Secret passes from alice to bob.
ReusedName ==
  { <<User(alice, s1, c1)>>, <<User(bob, s1, c2)>> }

OneUser == { <<User(alice, s1, c1)>> }
=============================================================================
