--------------------------- MODULE MCAddressFilter ---------------------------
(* Two addresses: s is monitored throughout, n comes and goes. *)
EXTENDS AddressFilter

MCAddress == {"s", "n"}
MCStable == {"s"}
TwoRequests == {"r1", "r2"}
==============================================================================
