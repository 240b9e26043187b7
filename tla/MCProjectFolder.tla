-------------------------- MODULE MCProjectFolder --------------------------
(* The folder of one thread, three contents, the watcher and one client.    *)
EXTENDS ProjectFolder, TLC

CONSTANTS w, c

MCSource == {0, 1, 2}
MCClient == {c}

Nothing == [edits |-> 0, commits |-> 0, exports |-> 0, applies |-> 0, faults |-> 0,
            switches |-> 0, leaves |-> 0, restarts |-> 0]

(* The initial content passes; the others pass, are tolerated, cannot be     *)
(* rendered or are rejected by the verification.                             *)
Judged(one, two) == (0 :> "passes") @@ (1 :> one) @@ (2 :> two)
AnyVerdict == {Judged(one, two) : one \in {"passes", "tolerated"},
                                  two \in {"invalid", "rejected"}}
(* With one edit, only one of the two matters. *)
EachVerdict == {Judged("passes", "rejected"), Judged("tolerated", "invalid")}

Met(verdicts, late, left0) ==
    {[verdict |-> v, late |-> late, left |-> left0] : v \in verdicts}

MCSetups ==
    Met(AnyVerdict, FALSE, [Nothing EXCEPT !.edits = 3, !.commits = 1])
    \cup Met(AnyVerdict, TRUE, [Nothing EXCEPT !.edits = 2, !.commits = 1])
    \cup Met({Judged("passes", "rejected")}, FALSE,
             [Nothing EXCEPT !.edits = 2, !.commits = 1, !.exports = 1, !.switches = 1])
    \cup Met({Judged("tolerated", "rejected")}, TRUE,
             [Nothing EXCEPT !.edits = 1, !.applies = 1, !.faults = 1])
    \cup Met(EachVerdict, TRUE,
             [Nothing EXCEPT !.edits = 1, !.applies = 1, !.restarts = 1])
    \cup Met(EachVerdict, TRUE,
             [Nothing EXCEPT !.edits = 1, !.commits = 1, !.faults = 1, !.restarts = 1])
    \cup Met({Judged("passes", "rejected")}, FALSE, [Nothing EXCEPT !.edits = 1, !.applies = 2])
    \cup Met({Judged("passes", "rejected")}, FALSE, [Nothing EXCEPT !.edits = 2, !.commits = 2])
    \cup Met(EachVerdict, FALSE, [Nothing EXCEPT !.edits = 2, !.restarts = 1])
    \cup Met(EachVerdict, FALSE,
             [Nothing EXCEPT !.edits = 2, !.commits = 1, !.faults = 1])
    \cup Met(EachVerdict, FALSE,
             [Nothing EXCEPT !.edits = 1, !.commits = 1, !.applies = 1, !.leaves = 1])

=============================================================================
