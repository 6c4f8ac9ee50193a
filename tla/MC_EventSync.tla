---------------------------- MODULE MC_EventSync ----------------------------
(* Small instances of EventSync for TLC. *)
EXTENDS EventSync, TLC

CONSTANTS e1, h1, h2

OneEvent == {e1}
TwoHandlers == {h1, h2}

(* Handlers are interchangeable; used in safety runs only. *)
HandlerSymmetry == Permutations(TwoHandlers)
=============================================================================
