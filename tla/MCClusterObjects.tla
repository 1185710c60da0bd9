--------------------------- MODULE MCClusterObjects ---------------------------
(***************************************************************************)
(* ClusterObjects for TLC: the user changes the image once.                *)
(***************************************************************************)
EXTENDS ClusterObjects
=============================================================================
