----------------------------- MODULE MCEncodeJobs -----------------------------
(* Two blobs of one file name in two folders, and one whose name has no    *)
(* extension.                                                              *)
EXTENDS EncodeJobs

CONSTANTS u1, u2, noDot, f1

MCFileIdOf == [u \in Urls |-> IF u = noDot THEN Null ELSE f1]
===============================================================================
