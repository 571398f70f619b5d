------------------------------- MODULE Keying -------------------------------
(***************************************************************************)
(* What the transmit control of the program promises, whoever asks for     *)
(* what and when: the radio is on the air for one reason at a time, VOX    *)
(* never displaces another reason, no request to go on the air is granted  *)
(* while the TX inhibit line is active, and a line that stays active takes *)
(* the radio off the air.  A request that was granted just before the line *)
(* became active still goes through; there is at most one.                 *)
(***************************************************************************)
CONSTANT Reasons    \* the reasons to be on the air

VARIABLES reason,   \* why the radio is on the air, or "none"
          inhibit,  \* the TX inhibit line is active
          granted   \* the request that has been granted, or "none"

vars == <<reason, inhibit, granted>>

Init == reason = "none" /\ inhibit = FALSE /\ granted = "none"

Grant(r) == /\ granted = "none"
            /\ ~inhibit
            /\ granted' = r
            /\ UNCHANGED <<reason, inhibit>>

\* Go on the air, or change the reason for being there.
Key(r) == /\ granted = r
          /\ r # reason
          /\ r = "vox" => reason = "none"
          /\ reason' = r
          /\ granted' = "none"
          /\ UNCHANGED inhibit

\* The radio is on the air for that reason already.
Withdraw == granted # "none" /\ granted' = "none" /\ UNCHANGED <<reason, inhibit>>

Unkey == reason # "none" /\ reason' = "none" /\ granted' = "none" /\ UNCHANGED inhibit

Line == inhibit' = ~inhibit /\ UNCHANGED <<reason, granted>>

Next == Withdraw \/ Unkey \/ Line \/ \E r \in Reasons : Grant(r) \/ Key(r)

Spec == Init /\ [][Next]_vars

FairSpec == Spec /\ WF_vars(inhibit /\ Unkey)
=============================================================================
