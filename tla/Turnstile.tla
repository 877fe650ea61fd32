------------------------------ MODULE Turnstile ------------------------------
(***************************************************************************)
(* What the pause/step gate promises the operator, without events, tasks   *)
(* or channels: while the turnstile is free the heartbeat passes at will;  *)
(* while it is held each pass uses up a permit, and there is at most one.  *)
(* Only a step issues a permit.  A hold takes permits back, except that a  *)
(* heartbeat already let through, and not yet on its way, keeps its pass.  *)
(***************************************************************************)
VARIABLES
    held,      \* the operator has paused (or is single-stepping) the heartbeat
    permit,    \* one pass is due although the turnstile is held
    inside     \* a tick is under way

tvars == <<held, permit, inside>>

TInit == held = FALSE /\ permit = FALSE /\ inside = FALSE

Free == held' = FALSE /\ permit' = FALSE /\ UNCHANGED inside

Hold ==
    /\ held' = TRUE
    /\ permit' \in BOOLEAN
    /\ permit' => ~held \/ permit
    /\ UNCHANGED inside

GrantOne == held' = TRUE /\ permit' = TRUE /\ UNCHANGED inside

Enter ==
    /\ ~inside
    /\ ~held \/ permit
    /\ inside' = TRUE /\ permit' = FALSE
    /\ UNCHANGED held

Leave == inside /\ inside' = FALSE /\ UNCHANGED <<held, permit>>

\* The heartbeat is cancelled or the process ends: a pass not used is void.
Void == permit' = FALSE /\ inside' = FALSE /\ held' \in {held, FALSE}

TNext == Free \/ Hold \/ GrantOne \/ Enter \/ Leave \/ Void

TSpec == TInit /\ [][TNext]_tvars

=============================================================================
