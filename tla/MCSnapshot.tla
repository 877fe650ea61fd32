----------------------------- MODULE MCSnapshot -----------------------------
(* One table of each kind: a memory table that may lose rows, a truncated   *)
(* one with serial ids, a truncated one with keys, and mood.                *)
EXTENDS Snapshot

MCMemoryTables == {"semantic_fact"}
MCStateTables == {"goal", "drive_state"}
MCKeyed == {"drive_state"}
=============================================================================
