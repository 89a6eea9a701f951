---------------------------- MODULE SharedValue ----------------------------
(***************************************************************************)
(* What a mutex of the client promises about what it guards: one thread    *)
(* posts whole values, and another takes the latest, to be done with it    *)
(* before it takes the next.                                               *)
(***************************************************************************)
CONSTANTS Value, Nothing

VARIABLES posted, taken

Init == posted \in Value /\ taken = Nothing

Post == posted' \in Value /\ UNCHANGED taken
Take == taken = Nothing /\ taken' = posted /\ UNCHANGED posted
Done == taken # Nothing /\ taken' = Nothing /\ UNCHANGED posted

Spec == Init /\ [][Post \/ Take \/ Done]_<<posted, taken>>

=============================================================================
