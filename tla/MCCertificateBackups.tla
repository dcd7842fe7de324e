------------------------ MODULE MCCertificateBackups ------------------------
(***************************************************************************)
(* Two certificates whose lists of domains begin with the same domain, for *)
(* TLC.  (MCServices has an instance with imports.)                        *)
(***************************************************************************)
EXTENDS CertificateBackups

MCList == {<<"a">>, <<"a", "b">>, <<"b">>}
MCSent == {<<[domains |-> <<"b">>, pem |-> 3, sound |-> TRUE]>>}
=============================================================================
