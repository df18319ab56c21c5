----------------------------- MODULE MCSendMessage -----------------------------
(* SendMessage on small sets of calls.  Calls of one kind are interchangeable. *)
EXTENDS SendMessage, TLC

Symmetry == Permutations(Sends) \union Permutations(Adjustments)
================================================================================
