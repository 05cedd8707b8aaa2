---------------------------- MODULE MCMetaServer ----------------------------
(* MetaServer for TLC.                                                      *)
EXTENDS MetaServer, TLC

MetaSymmetry == Permutations(Keys) \cup Permutations(Threads)

=============================================================================
