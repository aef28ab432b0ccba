------------------------------- MODULE StartOnce -------------------------------
(***************************************************************************)
(* What the command-intent barrier promises about one occurrence, seen     *)
(* from the disk: a start is committed before it is sent, it is sent at    *)
(* most once, and only a commitment that was not used can be withdrawn.    *)
(***************************************************************************)
EXTENDS Naturals

VARIABLES
  status,   \* "open", "committed" or "closed", as the disk has it
  sent      \* start commands sent

Init == status = "open" /\ sent = 0

Commit == status = "open" /\ sent = 0 /\ status' = "committed" /\ UNCHANGED sent

Withdraw == status = "committed" /\ sent = 0 /\ status' = "open" /\ UNCHANGED sent

Send == status = "committed" /\ sent = 0 /\ sent' = 1 /\ UNCHANGED status

Close == status # "closed" /\ status' = "closed" /\ UNCHANGED sent

Next == Commit \/ Withdraw \/ Send \/ Close

Spec == Init /\ [][Next]_<<status, sent>>
==============================================================================
