-------------------------- MODULE MCInboundMessages --------------------------
(***************************************************************************)
(* InboundMessages with two senders: the first sends a picture, the second  *)
(* is an account of the platform too and sends a text.  Two automations     *)
(* match the picture's caption.  part, fixed at the start, says what is     *)
(* explored: deliveries and the users of the inbox ("inbox"), deliveries,   *)
(* reports and the automations ("answers"), or what happens to the text in  *)
(* both accounts ("reports").                                               *)
(***************************************************************************)
EXTENDS InboundMessages, TLC

CONSTANTS m1, m2, p1, p2, u1, u2

VARIABLE part

MCFrom == (m1 :> p1) @@ (m2 :> p2)
MCMatching == {<<u1, m1>>, <<u2, m1>>}
MCDeliveries == (m1 :> 2) @@ (m2 :> 1)

\* Every overlap and every failure, each without the other.
MCModes == {<<TRUE, TRUE>>, <<TRUE, FALSE>>, <<FALSE, TRUE>>}

MCInit == Init /\ part \in {"inbox", "answers", "reports"}
MCNext ==
    /\ Next /\ UNCHANGED part
    /\ part # "answers" => ~Report(m1) /\ \A j \in Matching : ~runAction(j)
    /\ part # "inbox" => \A p \in Phones : ~markRead(p)
    /\ part # "reports" => UNCHANGED <<out, ids, wa>>
    /\ part = "reports" => deliveries'[m1] = deliveries[m1]
MCSpec == MCInit /\ [][MCNext]_<<vars, part>> /\ Fairness
=============================================================================
