---------------------------- MODULE MCWebsiteScans ----------------------------
(***************************************************************************)
(* Instances of WebsiteScans for TLC.                                      *)
(***************************************************************************)
EXTENDS WebsiteScans, TLC

CONSTANTS w1, w2, n1, n2, p1, p2

\* Two websites whose ids have the same node (one process created both), so that they
\* share a partition. The other node is that of a guid from another process.
MCNodes == {n1, n2}

MCSharedNodeOf == (w1 :> n1) @@ (w2 :> n1)

\* Both pages belong to the first website.
MCWebsiteOf == [p \in {p1, p2} |-> w1]
===============================================================================
