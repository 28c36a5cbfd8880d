----------------------- MODULE MCCertificateRotation -----------------------
(***************************************************************************)
(* Instances of CertificateRotation: every resource names a Secret of its  *)
(* own, or all name the same one.                                          *)
(***************************************************************************)
EXTENDS CertificateRotation, TLC

CONSTANTS r1, r2, s1, s2

OwnSecrets == (r1 :> s1) @@ (r2 :> s2)

SharedSecret == [r \in Resources |-> s1]
=============================================================================
