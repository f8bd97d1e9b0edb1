---------------------------- MODULE MCAlignments ----------------------------
(* Instances of Alignments for TLC.                                        *)
EXTENDS Alignments

CONSTANTS w1, w2
=============================================================================
