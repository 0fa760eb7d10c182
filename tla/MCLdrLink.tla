----------------------------- MODULE MCLdrLink -----------------------------
(***************************************************************************)
(* LdrLink for TLC: task 1 has one file in and one out, task 2 none.        *)
(***************************************************************************)
EXTENDS LdrLinkProps

TheDownloads == [t \in Tasks |-> IF t = 1 THEN 1 ELSE 0]
TheUploads   == [t \in Tasks |-> IF t = 1 THEN 1 ELSE 0]
=============================================================================
