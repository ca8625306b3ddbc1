------------------------------- MODULE ReadAll -------------------------------
(***************************************************************************)
(* What read_file promises its caller, io_open: it answers once, either    *)
(* with a failure and no payload, or with a payload that is exactly the    *)
(* bytes the descriptor delivered before its end.  Nothing is said of      *)
(* reads, buffers or allocations.                                          *)
(***************************************************************************)
EXTENDS Sequences

CONSTANT Files      \* the contents a descriptor may deliver

VARIABLES file, outcome, payload
vars == <<file, outcome, payload>>

Init == file \in Files /\ outcome = "pending" /\ payload = <<>>

Deliver == /\ outcome = "pending"
           /\ outcome' = "delivered"
           /\ payload' = file
           /\ UNCHANGED file

Fail == /\ outcome = "pending"
        /\ outcome' = "failed"
        /\ UNCHANGED <<file, payload>>

Next == Deliver \/ Fail

Spec == Init /\ [][Next]_vars /\ WF_vars(Next)
=============================================================================
