---------------------------- MODULE MCConfigStore ----------------------------
(* Instances of the configuration store: two saves of the application and a *)
(* run of `cairn configure`.                                                *)
EXTENDS ConfigStore

CONSTANTS s1, s2, c1

MCSave == {s1, s2}
MCConfigure == {c1}

Calm == [kinds |-> {}, faults |-> 0, crashes |-> 1, losses |-> 1, ordered |-> TRUE,
         edn |-> "good", json |-> "none"]

(* A configuration, with a JSON left over; a JSON to migrate; none; and     *)
(* files that cannot be read.  One fault of any kind, an end of the         *)
(* application and of the power.  The migration also where the file system  *)
(* keeps no order.                                                          *)
MCSetups ==
    {[Calm EXCEPT !.json = "good", !.kinds = Faults, !.faults = 1],
     [Calm EXCEPT !.json = "good", !.edn = "none", !.kinds = Faults, !.faults = 1],
     [Calm EXCEPT !.json = "good", !.edn = "none", !.ordered = FALSE, !.crashes = 0,
                  !.kinds = Faults \ {"parentSync"}, !.faults = 1],
     [Calm EXCEPT !.edn = "none"],
     [Calm EXCEPT !.edn = "bad", !.json = "good"],
     [Calm EXCEPT !.edn = "none", !.json = "bad"]}

=============================================================================
