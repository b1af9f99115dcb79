---------------------------- MODULE MCNativeInbox ----------------------------
(***************************************************************************)
(* NativeInbox for TLC.  A behaviour is the life of one receipt under every *)
(* caller, or two receipts that compete for the printer without the owner's *)
(* decisions and replays.  The evidence a printer can show is cut down to   *)
(* what observe() tells apart: command answers, and state edges that name   *)
(* one target as the plate file or as the archive, with or without the task *)
(* name.                                                                   *)
(***************************************************************************)
EXTENDS NativeInbox, TLC

CONSTANT Single     \* the one receipt of the other part

VARIABLES part, row, event, verdict, marked, decided, claimed

Answer(i, ok) ==
    [report |-> [ack |-> i, ok |-> ok, state |-> None, names |-> FALSE, rewound |-> FALSE],
     merged |-> [state |-> "IDLE", gcode |-> None, file |-> None, task |-> None]]

Edge(s, gcode, file, task, rewound) ==
    [report |-> [ack |-> None, ok |-> FALSE, state |-> s, names |-> TRUE, rewound |-> rewound],
     merged |-> [state |-> s, gcode |-> gcode, file |-> file, task |-> task]]

EvidenceOf(S) ==
    {Answer(i, ok) : i \in S, ok \in BOOLEAN}
    \union {Edge(s, t, None, None, FALSE) :
                s \in {"RUNNING", "FINISH", "FAILED", "IDLE"}, t \in S \union {None}}
    \union {Edge("RUNNING", None, n, n, r) : n \in Names, r \in BOOLEAN}
    \union {Edge(s, None, n, n, FALSE) : n \in Names, s \in {"FINISH", "IDLE"}}

MCEvidence == EvidenceOf(Ids)
Symmetry == Permutations(Ids)

Receipt == INSTANCE NativeInbox WITH
    Ids <- {Single}, Callers <- AllCallers, Evidence <- EvidenceOf({Single}), uploads <- row,
    events <- event, verdicts <- verdict, deleting <- marked, resolving <- decided, claims <- claimed

receiptVars == <<row, event, verdict, marked, decided, claimed>>

\* The part that is not chosen rests in its first state.
PartInit == part \in {"fence", "receipt"} /\ Init /\ Receipt!Init

PartNext ==
    \/ part = "fence" /\ Next /\ UNCHANGED <<part, receiptVars>>
    \/ part = "receipt" /\ Receipt!Next /\ UNCHANGED <<part, inboxVars>>

PartSpec == PartInit /\ [][PartNext]_<<part, inboxVars, receiptVars>>

\* One receipt under every caller, the owner, the replay and the deletion included: what
\* was published was whole, what was charged was printed, and nothing that keeps the
\* printer is given up or hidden.
ReceiptSound == /\ Receipt!TypeOK /\ Receipt!ClaimOnce
                /\ Receipt!OwnersAreLive /\ Receipt!StartsWereReal
=============================================================================
