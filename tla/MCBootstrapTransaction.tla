---------------------- MODULE MCBootstrapTransaction ----------------------
(* Two threads of one process and one of another bootstrap the same root. *)
EXTENDS BootstrapTransaction, TLC

CONSTANTS t1, t2, t3, p, q

MCProcessOf == t1 :> p @@ t2 :> p @@ t3 :> q
=============================================================================
