---------------------------- MODULE MCPostWebsite ----------------------------
(***************************************************************************)
(* Instances of PostWebsite for TLC.                                       *)
(***************************************************************************)
EXTENDS PostWebsite, TLC

CONSTANTS u1, u2

\* One page, two pages, and a payload that repeats a URL.
MCPayloads == {u1 :> 1 @@ u2 :> 0, u1 :> 1 @@ u2 :> 1, u1 :> 2 @@ u2 :> 0}
==============================================================================
