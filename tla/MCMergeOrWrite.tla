---------------------------- MODULE MCMergeOrWrite ----------------------------
(***************************************************************************)
(* Instances of MergeOrWrite for TLC.                                      *)
(***************************************************************************)
EXTENDS MergeOrWrite, TLC

CONSTANTS n1, n2, u1, u2

MCNames == {n1, n2}
MCUrls == {u1, u2}

Array(one, two) == u1 :> one @@ u2 :> two

\* Payloads of websites: one that sets both fields, and one that leaves the
\* name alone and repeats a page; and the payload of a page or a scan.
MCPayloads == {[name |-> n1, pages |-> Array(1, 0)],
               [name |-> Undefined, pages |-> Array(0, 2)],
               [name |-> n2, pages |-> Undefined]}
===============================================================================
