------------------------------ MODULE MCHistory ------------------------------
(* Small instances of History for TLC.                                     *)
EXTENDS History, TLC

\* Without what no later step and none of the run's invariants depends on:
\* what events told, the views of messages that may be seen again, and, as a
\* message that left the history never returns, what was hidden of the deleted
\* ones and what a walk no longer owes.
HistoryView ==
    <<now, msgs, {m \in hidden : msgs[m].state # "deleted"}, viewed \cap Once,
      [d \in Device |-> [lists[d] EXCEPT !.owed = @ \cap Visible]], given>>

=============================================================================
