-------------------------------- MODULE MCTui ---------------------------------
(***************************************************************************)
(* Two windows, today and all time, up to two sessions in each.             *)
(***************************************************************************)
EXTENDS Tui

MCSlot == 1 .. 3
MCOpening == [sessions |-> <<1, 1>>, plan |-> TRUE]

==============================================================================
