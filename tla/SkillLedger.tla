----------------------------- MODULE SkillLedger -----------------------------
(* The durable ledger of a confirmed Skill operation: what it records of the    *)
(* two native effects, the single steps it may take, how a step is written, and *)
(* what the host answers from it.  An install commits the package and attaches  *)
(* it to the agent; a removal detaches it and moves it into quarantine.         *)
EXTENDS Naturals, FiniteSets

CONSTANTS
  Installs,      \* operation ids of installs
  Removals,      \* operation ids of removals
  Package,       \* operation id of an install -> the package it plans
  None,          \* no file, no directory, no answer
  Torn,          \* a file whose writing was cut short
  MaxFaults      \* bound: failing calls, unclear requests, crashes, changes from outside

ASSUME SkillConstants ==
  /\ IsFiniteSet(Installs) /\ IsFiniteSet(Removals) /\ Installs \cap Removals = {}
  /\ MaxFaults \in Nat /\ None # Torn
  /\ {None, Torn, "legacy", "foreign"} \cap (Installs \cup Removals) = {}

Ids == Installs \cup Removals
(* Who made the directory that carries the Skill's name: an install, the legacy *)
(* bridge before, or something that bears no CSSwitch marker.                   *)
Leaves == Installs \cup {"legacy", "foreign"}

VARIABLES
  ledger,   \* operation id -> ledger file
  pend,     \* operation id -> pending successor beside it
  faults    \* failures so far

(* ------------------------------------------------------------------------- *)
(* The record.                                                                 *)
(* ------------------------------------------------------------------------- *)
EffectStates == {"not_started", "verified", "failed", "uncertain"}
Effects == [state : EffectStates, intent : BOOLEAN]
\* leaf: the directory object the plan seals (an install's own package).
Ledgers == [consumed : BOOLEAN, leaf : Leaves, eff : [1..2 -> Effects]]

ASSUME NoLedger == \A x \in {None, Torn} : x \notin Ledgers

Untouched   == [state |-> "not_started", intent |-> FALSE]
Fresh(leaf) == [consumed |-> FALSE, leaf |-> leaf, eff |-> [i \in 1..2 |-> Untouched]]

\* The capability is consumed together with the intent of the first effect.
Begun(l, i) == [l EXCEPT !.eff[i].intent = TRUE, !.consumed = @ \/ i = 1]
Closed(l, i, s) == [l EXCEPT !.eff[i] = [state |-> s, intent |-> s = "uncertain"]]

Verified(l, i)   == l.eff[i] = [state |-> "verified", intent |-> FALSE]
InProgress(l, i) == l.eff[i].intent
(* The shape `continue` is admitted by.                                         *)
Continuable(l) == l.consumed /\ Verified(l, 1) /\ l.eff[2] = Untouched
Settled(l) == \A i \in 1..2 : l.eff[i].state \in {"verified", "failed"} /\ ~l.eff[i].intent

(* One effect changes, along one edge of its protocol; the intent of an effect  *)
(* needs every earlier one verified.  An uncertain effect may stay uncertain.   *)
Legal(l, m) ==
  \E i \in 1..2 :
    \/ l.eff[i] = Untouched /\ m = Begun(l, i) /\ (\A j \in 1..(i - 1) : Verified(l, j))
    \/ /\ l.eff[i].intent /\ l.eff[i].state \in {"not_started", "uncertain"}
       /\ \E s \in {"verified", "failed", "uncertain"} : m = Closed(l, i, s)

(* ------------------------------------------------------------------------- *)
(* Writing a successor: pending file, sync, rename over the ledger, sync of the  *)
(* directory.  A failure leaves the old ledger, a pending file (torn or whole),  *)
(* or the new ledger without the caller knowing.  A leftover pending file makes  *)
(* every later write fail.                                                       *)
(* ------------------------------------------------------------------------- *)
Fault == faults < MaxFaults /\ faults' = faults + 1

Writable(o, next) == pend[o] = None /\ ledger[o] \in Ledgers /\ Legal(ledger[o], next)

Persist(o, next, ok) ==
  \/ /\ ok /\ Writable(o, next)
     /\ ledger' = [ledger EXCEPT ![o] = next]
     /\ UNCHANGED <<pend, faults>>
  \/ /\ ~ok /\ (~Writable(o, next) \/ next = ledger[o])
     /\ UNCHANGED <<ledger, pend, faults>>
  \/ /\ ~ok /\ Writable(o, next) /\ Fault
     /\ \/ UNCHANGED <<ledger, pend>>
        \/ UNCHANGED ledger /\ pend' = [pend EXCEPT ![o] = Torn]
        \/ UNCHANGED ledger /\ pend' = [pend EXCEPT ![o] = next]
        \/ UNCHANGED pend /\ ledger' = [ledger EXCEPT ![o] = next]

(* What a request finds when it loads the ledger: a whole pending successor is   *)
(* promoted first; anything else pending, or a torn ledger, is not usable.       *)
Loaded(o) ==
  IF pend[o] = None THEN ledger[o]
  ELSE IF pend[o] \in Ledgers /\ ledger[o] \in Ledgers /\ Legal(ledger[o], pend[o])
       THEN pend[o] ELSE Torn
Promote(o) ==
  /\ ledger' = [ledger EXCEPT ![o] = IF Loaded(o) = Torn THEN @ ELSE Loaded(o)]
  /\ pend'   = [pend EXCEPT ![o] = IF Loaded(o) = Torn THEN @ ELSE None]

(* ------------------------------------------------------------------------- *)
(* Answers.  "first" and "second" speak of the two effects.                     *)
(* ------------------------------------------------------------------------- *)
Says == {"true", "false", "unknown"}
Answers == [kind : {"plan", "unplanned", "refused", "error", "final", "observed"},
            first : Says, second : Says, recovery : BOOLEAN]
Answer(kind, says, recovery) ==
  [kind |-> kind, first |-> says, second |-> says, recovery |-> recovery]

Planned   == Answer("plan", "false", FALSE)
Unplanned == Answer("unplanned", "false", FALSE)  \* the planning failed
Refused   == Answer("refused", "false", FALSE)    \* a definite rejection
Failure   == Answer("error", "unknown", TRUE)     \* the ledger may need a readback

Said(effect) ==
  CASE effect.state = "verified"  -> "true"
    [] effect.state = "uncertain" -> "unknown"
    [] OTHER                      -> "false"
Project(l) ==
  [kind |-> "final", first |-> Said(l.eff[1]), second |-> Said(l.eff[2]),
   recovery |-> \E i \in 1..2 : l.eff[i].intent \/ l.eff[i].state = "uncertain"]
(* After an effect whose receipt could not be written: the immediate readback.   *)
Observed(l, i, says) ==
  LET p == Project(l)
  IN [p EXCEPT !.kind = "observed", !.recovery = TRUE,
               !.first = IF i = 1 THEN says ELSE @, !.second = IF i = 2 THEN says ELSE @]
=============================================================================
