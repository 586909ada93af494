------------------------------ MODULE MCInbox ------------------------------
(* Small instances of Inbox for TLC.                                       *)
EXTENDS Inbox, TLC

\* The sets are interchangeable; sound because no run checks liveness.
Interchangeable ==
    Permutations(User) \cup Permutations(Conv) \cup Permutations(Call)

=============================================================================
