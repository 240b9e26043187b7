----------------------- MODULE MCExplorationAdmission -----------------------
(* One thread, where all contention happens: a controller and two           *)
(* interactive requests.                                                    *)
EXTENDS ExplorationAdmission

CONSTANTS t1, c1, i1, i2

MCKey == {t1}
MCRequest == {c1, i1, i2}
MCKeyOf == [r \in MCRequest |-> t1]
MCKindOf == [r \in MCRequest |-> IF r = c1 THEN "controller" ELSE "interactive"]

(* One of the interactive requests may be stopped. *)
MCCancellable == {i1}

=============================================================================
