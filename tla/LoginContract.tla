---------------------------- MODULE LoginContract ----------------------------
(***************************************************************************)
(* What browser logins promise, whoever starts, watches, cancels or kills   *)
(* them: they take turns, and work only in their turn and under a durable   *)
(* receipt of their start; a refusal and a commit exclude each other and    *)
(* neither is taken back; and what is recorded or said of a login is true   *)
(* when it is said and cannot become false later.                           *)
(***************************************************************************)
CONSTANT Logins

VARIABLES turn,     \* of each login: "new", "active" or "ended"
          durable,  \* the logins whose receipt tells of a start
          barrier,  \* of each login: the state of its control
          stored,   \* the logins whose credentials are on disk
          said      \* of each login: what is recorded and said of it

cvars == <<turn, durable, barrier, stored, said>>

Init == /\ turn = [o \in Logins |-> "new"]
        /\ durable = {}
        /\ barrier = [o \in Logins |-> "waiting_start"]
        /\ stored = {}
        /\ said = [o \in Logins |-> {}]

Active(o) == turn[o] = "active"

Moves(o, from, to) == /\ barrier[o] \in from
                      /\ barrier' = [barrier EXCEPT ![o] = to]

\* The child of a login: the one decision, and what it stores.
Start(o)  == /\ Moves(o, {"waiting_start"}, "running") /\ o \in durable
             /\ UNCHANGED stored
Refuse(o) == /\ Moves(o, {"waiting_start", "running"}, "cancelled")
             /\ UNCHANGED stored
Pass(o)   == /\ Moves(o, {"running"}, "committing")
             /\ UNCHANGED stored
Store(o)  == /\ barrier[o] = "committing" /\ stored' = stored \cup {o}
             /\ UNCHANGED barrier
Finish(o) == /\ Moves(o, {"running", "cancelled", "committing"}, "finished")
             /\ o \in durable /\ UNCHANGED stored

Child(o) == /\ Active(o)
            /\ Start(o) \/ Refuse(o) \/ Pass(o) \/ Store(o) \/ Finish(o)
            /\ UNCHANGED <<turn, durable, said>>

\* What a word says of a login; the other words say nothing that could fail.
True(o, w) ==
  /\ w \in {"accepted", "cancelled"} =>
       barrier[o] \in {"cancelled", "finished"} /\ o \notin stored
  /\ w \in {"committing", "commit_in_progress"} =>
       barrier[o] \in {"committing", "finished"}
  /\ w = "succeeded" => o \in stored

\* Words may be forgotten, and new ones are true.
Speak == \A o \in Logins : \A w \in said'[o] \ said[o] : True(o, w)

TurnTo(o, t) == turn' = [turn EXCEPT ![o] = t]

\* The Desktop.
Begin(o)   == /\ turn[o] = "new" /\ \A q \in Logins : ~Active(q)
              /\ TurnTo(o, "active") /\ UNCHANGED durable
Prepare(o) == /\ Active(o) /\ durable' = durable \cup {o} /\ UNCHANGED turn
End(o)     == /\ Active(o) /\ TurnTo(o, "ended") /\ UNCHANGED durable
Report     == UNCHANGED <<turn, durable>>

Desktop == /\ UNCHANGED <<barrier, stored>>
           /\ \/ Report
              \/ \E o \in Logins : Begin(o) \/ Prepare(o) \/ End(o)
           /\ Speak

Next == Desktop \/ \E o \in Logins : Child(o)

Spec == Init /\ [][Next]_cvars
=============================================================================
