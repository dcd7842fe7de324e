----------------------- MODULE MCCertificateIssuance -----------------------
(***************************************************************************)
(* Two nodes with a request each for TLC: one only ever ensures the        *)
(* certificate, the other can be of any kind but "selfSigned", which takes *)
(* the steps of "upload".                                                  *)
(***************************************************************************)
EXTENDS CertificateIssuance, TLC

CONSTANTS n1, n2, f1, f2

MCNode == {n1, n2}
MCFlow == {f1, f2}
MCNodeOf == f1 :> n1 @@ f2 :> n2
MCTask == f1 :> {"ensure"} @@ f2 :> {"ensure", "upload", "retry", "rollback"}
=============================================================================
