---------------------------- MODULE MCRootServer ----------------------------
EXTENDS RootServerInvariant, TLC

MCSymmetry == Permutations(Contents)
=============================================================================
