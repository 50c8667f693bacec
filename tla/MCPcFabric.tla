----------------------------- MODULE MCPcFabric -----------------------------
(* Instances of PcFabric for TLC.                                           *)
EXTENDS PcFabric

MCRequest(id, action) == [id |-> id, action |-> action]

(* Two actions with the same ActionId, as two chat tasks produce, and the  *)
(* two kinds of request no handler takes.                                  *)
AllRequests ==
    {MCRequest(1, "write"), MCRequest(1, "read"), MCRequest(2, "missing"),
     MCRequest(2, "newer")}

OneWrite == {MCRequest(1, "write")}
=============================================================================
