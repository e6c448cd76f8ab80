----------------------------- MODULE MCAclCache -----------------------------
(***************************************************************************)
(* Instances of AclCache for TLC.                                          *)
(***************************************************************************)
EXTENDS AclCache, TLC

\* The URL of the public keys is never changed; it is read like the issuer.
MCLastVersion == [p \in Parts |-> IF p = "publicKeys" THEN 1 ELSE 2]

\* The second version of the entries is empty, that of the issuer is not.
MCBlank == {<<"entries", 2>>}

MCSymmetry == Permutations(Requests)
==============================================================================
