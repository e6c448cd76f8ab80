------------------------ MODULE MCManagedCredential ------------------------
(***************************************************************************)
(* Instances of ManagedCredential for TLC.                                 *)
(***************************************************************************)
EXTENDS ManagedCredential, TLC

\* Tokens that expire within the margin, and that outlive it by one unit.
MCLifetimes == {1, 3}

\* A token that expires just when the margin is over.
MCCriticalLifetimes == {2}
==============================================================================
