---------------------------- MODULE MCSupervisor ----------------------------
(* Small instances of Supervisor for TLC.                                  *)
EXTENDS Supervisor, TLC

CONSTANTS a, b, u, v, r1, r2, t1, t2, t3

\* Chains, requests, tasks and endpoints are interchangeable.
MCSymmetry == Permutations(Chains) \cup Permutations(Urls) \cup Permutations(Requests)
              \cup Permutations(Tasks)
=============================================================================
