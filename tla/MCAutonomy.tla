----------------------------- MODULE MCAutonomy -----------------------------
(* One drive of each kind: it reads the web, it writes code (or, with no   *)
(* model to write it, reviews memories), it reflects, and it recalls.  In  *)
(* the program's own wiring boredom has a tool; here it has none, as in a  *)
(* Deliberation built without tool_actions.                                *)
EXTENDS Autonomy

CONSTANTS curiosity, mastery, connection, boredom

MCDrives == {curiosity, mastery, connection, boredom}
MCToolDrives == {curiosity, mastery}
MCCodeDrives == {mastery}
MCWebReadDrives == {curiosity}
MCRecallDrives == {boredom}
MCReviewDrives == {mastery}

=============================================================================
