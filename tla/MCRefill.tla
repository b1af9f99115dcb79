----------------------------- MODULE MCRefill -----------------------------
(* Two slots; at the start each holds an untagged spool of its own           *)
(* filament, or the second a tagged one.                                     *)
EXTENDS Refill

CONSTANTS w1, w2, white, brown, tagged, pla, petg, red

Two(a, b) == [w \in {w1, w2} |-> IF w = w1 THEN a ELSE b]
Tray(s, d) == [spool |-> s, decl |-> [filament |-> d, colour |-> red]]
MCSeats == {Two(Tray(white, pla), Tray(brown, petg)), Two(Tray(white, pla), Tray(tagged, petg))}

OneOf(some) == [e \in Events |-> IF e \in some THEN 1 ELSE 0]
MCTroubles == {OneOf({"timeout"}), OneOf({"crash"}), OneOf({"declare"}), OneOf({"unload", "load"}),
               OneOf({"loss"}), OneOf({"print"}), OneOf({"silence"})}
EditTroubles == {[OneOf({}) EXCEPT !["declare"] = 2]}
SeatTroubles == {OneOf({"unload", "load", "crash"})}
=============================================================================
