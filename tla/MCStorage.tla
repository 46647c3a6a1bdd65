------------------------------ MODULE MCStorage ------------------------------
(* A small instance of Storage for TLC.                                    *)
EXTENDS Storage

CONSTANTS a, s1, s2
=============================================================================
