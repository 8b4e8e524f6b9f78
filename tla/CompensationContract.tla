------------------------ MODULE CompensationContract ------------------------
(***************************************************************************)
(* What a one-click compensation promises, whoever carries it out and      *)
(* however often it is interrupted: while the recovery snapshot is intact  *)
(* the outside world may be in any state; the snapshot is given up only    *)
(* once the world is back, and from then on the world stays back; the      *)
(* journal is cleared only after that, and otherwise stays, closed.        *)
(***************************************************************************)
VARIABLES phase,        \* "unpublished", "open", "cleared" or "incomplete"
          restored,     \* every authority is back to its before-image
          recoverable   \* the recovery snapshot is whole and protected

cvars == <<phase, restored, recoverable>>

Init == /\ phase = "unpublished"
        /\ restored = FALSE
        /\ recoverable = TRUE

Publish == /\ phase = "unpublished"
           /\ phase' = "open"
           /\ UNCHANGED <<restored, recoverable>>

\* Effects on the world need an open journal and an intact snapshot.
Work == /\ phase = "open" /\ recoverable
        /\ restored' \in BOOLEAN
        /\ UNCHANGED <<phase, recoverable>>

GiveUpSnapshot == /\ phase = "open" /\ restored
                  /\ recoverable' = FALSE
                  /\ UNCHANGED <<phase, restored>>

Clear == /\ phase = "open" /\ restored /\ ~recoverable
         /\ phase' = "cleared"
         /\ UNCHANGED <<restored, recoverable>>

CloseIncomplete == /\ phase = "open"
                   /\ phase' = "incomplete"
                   /\ UNCHANGED <<restored, recoverable>>

Next == Publish \/ Work \/ GiveUpSnapshot \/ Clear \/ CloseIncomplete

Spec == Init /\ [][Next]_cvars
=============================================================================
