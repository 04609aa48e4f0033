---------------------------- MODULE MCSupervisor ----------------------------
(***************************************************************************)
(* One directory with a policy that has every shape of the shipped one:    *)
(* two exponential steps (1, 2), one capped (3), the fourth crash fatal,   *)
(* and a window long enough for four crashes with their sleeps.            *)
(***************************************************************************)
EXTENDS Supervisor

\* The doubling is the exponential for every shift `backoff' can ask for.
ASSUME DoublingIsExponential == \A k \in 0 .. 30 : PowerOfTwo[k] = 2 ^ k

=============================================================================
