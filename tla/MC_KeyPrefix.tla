---------------------------- MODULE MC_KeyPrefix ----------------------------
(* Bytes 0..1 (1 is 0xFF), keys of up to 3 bytes, stores of up to 3 keys.  *)
EXTENDS KeyPrefix

MCPrefixes == {<<1>>, <<0, 0>>, <<0, 1>>, <<1, 0>>, <<1, 1>>}
MCBounds == {<<>>, <<0>>, <<1>>}
=============================================================================
