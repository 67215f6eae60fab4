------------------------- MODULE MC_HaProxyClient -------------------------
(* Small instance of HaProxyClient for TLC: two concurrent calls, two IPv4  *)
(* addresses and one IPv6 address, payload lengths 1, 65499 (fills the     *)
(* IPv6 length field exactly) and 65524 (one byte too many for IPv4).      *)
EXTENDS HaProxyClient

MCReq == {"r1", "r2"}

MCAddr4 == {"a4", "b4"}

MCAddr6 == {"a6"}

MCPayloadLens == {1, 65499, 65524}
=============================================================================
