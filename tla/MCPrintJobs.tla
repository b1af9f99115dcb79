----------------------------- MODULE MCPrintJobs -----------------------------
(* PrintJobs for TLC: each world asks the questions a part of the code faces. *)
EXTENDS PrintJobs

JobsWorld(r, j, p, f, e) == [rows |-> r, jobs |-> j, panel |-> p, faults |-> f, events |-> e]

\* Two jobs in turn; prints started at the panel.
MCWorlds ==
    {JobsWorld(2, 2, 0, 1, {"ignore", "power", "unsent", "refuse"}),
     JobsWorld(3, 0, 2, 2, {"restart", "reconnect", "power", "panel", "cancel"})}

\* A stop while the print would go on for ever, and a start refused; a job left to the
\* watcher by a restart; a print started at the panel.
MCLiveWorlds ==
    {JobsWorld(1, 1, 0, 1, {"cancel", "power", "unsent", "refuse"}),
     JobsWorld(1, 0, 1, 0, {"panel"}),
     JobsWorld(2, 1, 0, 1, {"restart", "reconnect", "power", "ignore", "overflow", "ends"})}

\* Worlds in which the code breaks a property.
MCCanceled == {JobsWorld(1, 1, 0, 0, {"cancel"})}
MCForeignStop == {JobsWorld(2, 1, 1, 0, {"panel", "cancel"})}
MCStaleList == {JobsWorld(2, 1, 1, 0, {"panel"})}
MCReplaced == {JobsWorld(3, 2, 0, 1, {"restart"})}
MCOrphan == {JobsWorld(1, 1, 0, 1, {"restart", "ignore", "ends"})}
=============================================================================
