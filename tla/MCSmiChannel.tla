---------------------------- MODULE MCSmiChannel ----------------------------
(* Small instances of SmiChannel: cells 0 (padding), 1 and the magic.       *)
EXTENDS SmiChannel

MCCell == {0, 1}
MCMessages == {<<1>>, <<1, 0, 1>>}
MCReadSizes == {1, 3}
=============================================================================
