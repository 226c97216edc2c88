---------------------------- MODULE MCNonceAuth ----------------------------
(***************************************************************************)
(* A small instance of NonceAuth: a device's request, and two probes, which *)
(* share their nonce.  The skew is one second; the TTL, lag and drift meet  *)
(* the assumption with nothing to spare.                                    *)
(***************************************************************************)
EXTENDS NonceAuth

CONSTANTS n1, n2

MCProbes == {[nonce |-> n2, ts |-> 1], [nonce |-> n2, ts |-> 3]}
MCMessages == {[nonce |-> n1, ts |-> 2]} \cup MCProbes
=============================================================================
