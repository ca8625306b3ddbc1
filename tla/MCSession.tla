------------------------------ MODULE MCSession ------------------------------
(* Session for TLC.                                                          *)
EXTENDS Session

MCFileSize == [A |-> 1, B |-> 3]
MCCommands ==
    {c \in CommandLine :
        CASE c.kind = "cipher" -> TRUE
          [] c.kind = "base64" -> ~c.base64 /\ c.secret = "key"
          [] c.kind = "digest" -> /\ ~c.base64 /\ c.secret = "key"
                                  /\ c.output = NoFile /\ c.mode = "encode"}
=============================================================================
