------------------------------- MODULE MCWorker -------------------------------
(* Two threads and three clients: a user that asks for its policies, a       *)
(* computer that asks for a certificate, and a probe.                        *)
EXTENDS Worker, TLC

CONSTANTS t1, t2, user, computer, probe, alice, host

MCMayAsk == user :> {"cep"} @@ computer :> {"ces", "health"} @@ probe :> {"readyz"}
MCAccountOf == user :> alice @@ computer :> host @@ probe :> host
=============================================================================
