------------------------------- MODULE MCMsgQ -------------------------------
(* Process ids and keys for the runs of MsgQ: clients 11, 12 and 13, server *)
(* processes 101, 102, ...; client 13 is started with 11's key.            *)
EXTENDS MsgQ

MCNames == {"srv", "k1", "k2"}
MCKeyOf == [c \in Clients |-> IF c = 12 THEN "k2" ELSE "k1"]
=============================================================================
