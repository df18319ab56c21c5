---------------------------- MODULE MCWaConnection ----------------------------
(* WaConnection on small sets of calls and sockets. *)
EXTENDS WaConnection, TLC

\* Calls that do not overlap, without failures and with them.
MCModes == {<<TRUE, TRUE>>, <<TRUE, FALSE>>}

Symmetry == Permutations(Calls) \union Permutations(Sockets)
===============================================================================
