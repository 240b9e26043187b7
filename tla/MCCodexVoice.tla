---------------------------- MODULE MCCodexVoice ----------------------------
(* Three sessions of one thread, alike to the program (TLC instance).       *)
EXTENDS CodexVoice, TLC

MCSymmetry == Permutations(Session)

=============================================================================
