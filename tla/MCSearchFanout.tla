---------------------------- MODULE MCSearchFanout ----------------------------
(* Model-checking instance of SearchFanout. *)
EXTENDS SearchFanout, TLC

MCCanonical == <<"vpn", "tor2">>
MCLists == {<<"vpn", "tor2">>, <<"tor2", "vpn">>}
MCVpnFirst == {<<"vpn", "tor2">>}
===============================================================================
