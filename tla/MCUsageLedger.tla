---------------------------- MODULE MCUsageLedger ----------------------------
(***************************************************************************)
(* UsageLedger for TLC: which rare events meet on which kind of print.      *)
(***************************************************************************)
EXTENDS UsageLedger

MCMaxUse == [x \in Spools |-> x]

MCCapacity == [x \in Spools |-> x]
MCAmple == [x \in Spools |-> 3]
MCOne == [x \in Spools |-> 1]

With(events, k) == [kind |-> [x \in Attempts |-> k],
                    budget |-> [e \in Rare |-> IF e \in events THEN 1 ELSE 0]]

Twice(events) == [With(events \cup {"move"}, "counted") EXCEPT !.budget["move"] = 2]

\* A move that is cut off by a crash or a silent answer may be asked for again.  A write lands late
\* where nothing sends it again: on a print without a plan, whose owner has one request.
MCCases == {Twice({"crash"}), With({"archive", "move"}, "counted"), With({"crash", "resolve"}, "loose"),
            With({"late", "resolve"}, "unplanned"), With({"resolve"}, "counted"), With({"edit"}, "counted")}

MCPlain == {With({}, "counted")}
MCEdits == {1}
MCUndoing == {-1}
MCEdit == {With({"edit"}, "counted")}
MCMoves == {[kind |-> [x \in Attempts |-> "counted"],
             budget |-> [e \in Rare |-> IF e = "move" THEN 2 ELSE 0]]}
MCMoveCrash == {[c EXCEPT !.budget["crash"] = 1] : c \in MCMoves}
MCLate == {With({"late"}, "counted")}
MCResolve == {With({"resolve"}, "loose")}
=============================================================================
