----------------------------- MODULE MCRegistry -----------------------------
(***************************************************************************)
(* Registry with two instances of a service on two hosts, one registered   *)
(* with a TTL and one without.  They write different entries and do not    *)
(* wait for each other, and one of them is running in each behaviour.      *)
(***************************************************************************)
EXTENDS Registry

CONSTANTS p1, p2

MCSvc == [p \in {p1, p2} |->
            [name |-> <<"task">>, version |-> IF p = p1 THEN <<"1">> ELSE << >>,
             host |-> IF p = p1 THEN "h1" ELSE "h2", port |-> 80]]
MCTtl == [p \in {p1, p2} |-> IF p = p1 THEN 3 ELSE 0]

MCInit == \E p \in Providers : InitOf({p})
MCSpec == MCInit /\ [][Next]_vars /\ Fairness
=============================================================================
