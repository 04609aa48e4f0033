----------------------------- MODULE MCMqttHost -----------------------------
(***************************************************************************)
(* Two plugins that share one filter, three incarnations in all: one of    *)
(* them restarts while the other one lives.  One slot in each mailbox and  *)
(* in the request channel: every wait for a slot happens, and the cycle of *)
(* waits through the event loop with them.  Both may ask for a malformed   *)
(* filter too.                                                             *)
(***************************************************************************)
EXTENDS MqttHost

CONSTANTS p1, p2, f1, bad, t1

MCMatches == {<<f1, t1>>}
MCGranted == {p1, p2} \X {f1, bad}

=============================================================================
