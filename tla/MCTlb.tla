------------------------------- MODULE MCTlb -------------------------------
(* Instances of Tlb: few pages, and the table entries worth telling apart.  *)
EXTENDS Tlb

Page(p, w, u, g, f) == [present |-> p, writable |-> w, user |-> u, global |-> g, frame |-> f,
                        accessed |-> FALSE, dirty |-> FALSE]
Region(w, u, lg, g) == [present |-> TRUE, writable |-> w, user |-> u, large |-> lg, global |-> g,
                        accessed |-> FALSE, dirty |-> FALSE]

\* One page with every right there is, and one that stays as it is, global.
MCLin     == {"l1", "l2"}
MCPages   == [l \in MCLin |->
                IF l = "l2" THEN {Page(TRUE, TRUE, TRUE, TRUE, "f1")}
                ELSE {Page(TRUE, TRUE, TRUE, FALSE, "f1"), Page(TRUE, FALSE, TRUE, FALSE, "f1"),
                      Page(TRUE, TRUE, FALSE, FALSE, "f1"), Page(TRUE, TRUE, TRUE, TRUE, "f2"),
                      Page(FALSE, FALSE, FALSE, FALSE, "f1")}]
MCRegions == {Region(TRUE, TRUE, FALSE, FALSE), Region(FALSE, TRUE, FALSE, FALSE),
              Region(TRUE, FALSE, TRUE, FALSE),
              [Region(FALSE, FALSE, FALSE, FALSE) EXCEPT !.present = FALSE]}
MCModes   == {"off", "two", "pse", "three"}
=============================================================================
