------------------------------- MODULE MCScreen -------------------------------
(* The conversation screen with one row of history, one message arriving      *)
(* and one written on it, and pages of one row.                               *)
EXTENDS Screen

CONSTANTS file, reply, mine, lost, chat

MCMessages == {file, reply, mine, lost}
MCGroupOf == [m \in MCMessages |-> chat]
MCKindOf == [m \in MCMessages |-> CASE m = file -> "file-pending" [] m = mine -> "sent" [] OTHER -> "received"]
MCPast == <<file>>
MCVault ==
    [owner |-> "me", secret |-> "old",
     records |-> {[id |-> file, kind |-> "file-pending", by |-> "other", file |-> FALSE],
                  [id |-> lost, kind |-> "file-outgoing", by |-> "me", file |-> TRUE]}]
===============================================================================
