-------------------------- MODULE MCMessageService --------------------------
(* Small instances of MessageService for TLC.                              *)
EXTENDS MessageService, TLC

\* Message ids and keys are interchangeable; sound for safety only.
Interchangeable == Permutations(MsgId) \cup Permutations(ObjKey)

\* What the properties of the runs that use it, their fairness and all steps
\* can tell apart when no message can be edited (EditWindow = 0): not who was
\* told of which message, and not when it was created.
RetentionView ==
    <<now, [m \in MsgId |-> [rows[m] EXCEPT !.created = 0]], objects,
      requests, workerVars, gcs, faults>>

=============================================================================
