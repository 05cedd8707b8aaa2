---------------------------- MODULE MCDataServer ----------------------------
(* DataServer for TLC: a put that fits one message, a put whose object comes *)
(* in two pieces, a get, a close, and a put of pomme_client_put_data with    *)
(* 2000 bytes, whose first piece is of POMME_MAX_PROTO_DATA.                 *)
EXTENDS DataServer, TLC

CONSTANTS small, large, getter, shipped, closer

MCClients == {small, large, getter, shipped, closer}

MCMessage ==
  (small   :> [op |-> "put", id |-> small, first |-> 100, total |-> 100]) @@
  (large   :> [op |-> "put", id |-> large, first |-> 200, total |-> 1400]) @@
  (getter  :> [op |-> "get", id |-> small, first |-> 0, total |-> 1400]) @@
  (shipped :> [op |-> "put", id |-> shipped, first |-> MaxProto, total |-> 2000]) @@
  (closer  :> [op |-> "close", id |-> closer, first |-> 0, total |-> 0])

=============================================================================
