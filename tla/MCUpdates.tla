----------------------------- MODULE MCUpdates -----------------------------
(***************************************************************************)
(* Small instances of Updates for TLC: how far the server of each box goes *)
(* on.  The channels get more changes than the common box, whose changes   *)
(* matter to them only through its requests.                               *)
(***************************************************************************)
EXTENDS Updates

CONSTANTS CommonLimit, ChannelLimit

MCLimit == [b \in Boxes |-> IF b = Common THEN CommonLimit ELSE ChannelLimit]
=============================================================================
