------------------------------ MODULE MCLibrary ------------------------------
(* Library with an upload and a receipt of one content, and a printer file.  *)
EXTENDS Library

CONSTANTS u, n, f

MCContent == [c \in Captures |-> IF c = f THEN 1 ELSE 0]
Limits(quota, threads, events) ==
    [e \in {"quota", "active", "old", "unread", "bad", "delete", "print", "fault"} |->
        CASE e = "quota" -> quota [] e = "active" -> threads [] OTHER -> IF e \in events THEN IF e = "fault" THEN 2 ELSE 1 ELSE 0]
MCLibraryCases == {Limits(3, {"slicer", "scan"}, {"print", "fault", "bad", "delete"}),
                   Limits(2, {"scan", "copier"}, {"print", "fault", "delete"}),
                   Limits(2, {"slicer", "scan", "copier"}, {"print", "old"}),
                   Limits(1, {"copier", "catchup", "slicer"}, {"unread", "delete"})}
MCRetry == {Limits(3, {"copier"}, {"fault"})}
MCRace == {Limits(1, {"slicer", "copier", "scan"}, {"print"})}
=============================================================================
