-------------------------- MODULE MCLuminosityTable --------------------------
(* Instances of LuminosityTable for TLC. *)
EXTENDS LuminosityTable

Ask(p, is) == [population |-> p, luminosities |-> is, tracks |-> FALSE]

(* Two populations; the entries asked for do not come in order. *)
TwoTables == {Ask(1, {2}), Ask(1, {1, 2}), Ask(2, {1})}

SameTable == {Ask(1, {2})}

OneTable == {Ask(1, {2}), Ask(1, {1}), [Ask(1, {1}) EXCEPT !.tracks = TRUE]}
=============================================================================
