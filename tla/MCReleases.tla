----------------------------- MODULE MCReleases -----------------------------
(* Instance of Releases for TLC: two versions, no interruption. *)
EXTENDS Releases

MCOffered == {<<1, 1>>, <<2, 1>>}
=============================================================================
