----------------------------- MODULE MCHelpers -----------------------------
(***************************************************************************)
(* The packages under pkg/common: HexUtil, Numbers and Files share no      *)
(* state and are checked side by side, one of them taking steps while the  *)
(* others are at their initial state.                                      *)
(***************************************************************************)
EXTENDS HexUtil, Numbers, Files

CONSTANTS w1, w2, w3

Alphabet == {"0", "1", "B", "g"}

Bodies == UNION {[1 .. n -> Alphabet] : n \in 0 .. 3} \cup [1 .. 4 -> {"B", "g"}]

Beginnings == {<< >>, <<"0", "x">>, <<"0", "X">>, <<"-">>, <<"0", "x", "-">>}

MCTexts == {p \o b : p \in Beginnings, b \in Bodies}

MCValues == -16 .. 40

helperVars == <<hexVars, regs, fileVars>>

HelpersInit == HexInit /\ NumbersInit /\ FilesInit

HexIdle == kind = "Bytes" /\ val = << >> /\ pc = "idle" /\ UNCHANGED hexVars

NumbersIdle == NumbersInit /\ UNCHANGED regs

FilesIdle == FilesInit /\ UNCHANGED fileVars

Next == \/ HexNext /\ NumbersIdle /\ FilesIdle
        \/ NumbersNext /\ HexIdle /\ FilesIdle
        \/ FilesNext /\ HexIdle /\ NumbersIdle

Spec == HelpersInit /\ [][Next]_helperVars
=============================================================================
