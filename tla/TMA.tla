-------------------------------- MODULE TMA --------------------------------
(***************************************************************************)
(* What a trusted modeling agent promises its trust orchestrator.          *)
(*                                                                         *)
(* The agent classifies security state points (coefficients).  A point is  *)
(* unknown until it is either loaded from a model file or produced by an   *)
(* event.  A point first seen before the model is sealed is valid, one     *)
(* first seen afterwards is invalid, and neither ever changes again.  The  *)
(* verdict on an event is the classification of its point.  An agent that  *)
(* fails is poisoned and judges nothing any more.                          *)
(*                                                                         *)
(* The detailed agent, SecurityModel/TSEM.c, is module TSEM; it implements *)
(* this specification (TSEM!RefinesTMA).                                   *)
(***************************************************************************)
CONSTANTS Points,       \* the security state points
          NoVerdict     \* the agent has not answered, or answered an error

VARIABLES status,       \* the classification of every point
          sealed,       \* no point becomes valid any more
          poisoned,     \* the agent has failed
          verdict       \* the answer to the latest event

vars == <<status, sealed, poisoned, verdict>>

Classes == {"unknown", "valid", "invalid"}

Verdicts == [point : Points, discipline : BOOLEAN, sealed : BOOLEAN]

TypeOK == /\ status \in [Points -> Classes]
          /\ sealed \in BOOLEAN
          /\ poisoned \in BOOLEAN
          /\ verdict \in Verdicts \cup {NoVerdict}

Init == /\ status = [p \in Points |-> "unknown"]
        /\ sealed = FALSE
        /\ poisoned = FALSE
        /\ verdict = NoVerdict

\* The classification of p once an event has produced it.
Class(p) == IF status[p] = "unknown"
              THEN IF sealed THEN "invalid" ELSE "valid"
              ELSE status[p]

\* An event with point p is modelled and its process is judged.
Judge(p) == /\ ~poisoned
            /\ status' = [status EXCEPT ![p] = Class(p)]
            /\ verdict' = [point |-> p, discipline |-> Class(p) = "invalid",
                           sealed |-> sealed]
            /\ UNCHANGED <<sealed, poisoned>>

\* A model file names p as a point of the model.
Admit(p) == /\ ~poisoned
            /\ ~sealed
            /\ status' = [status EXCEPT ![p] = Class(p)]
            /\ UNCHANGED <<sealed, poisoned, verdict>>

Seal == /\ sealed' = TRUE
        /\ UNCHANGED <<status, poisoned, verdict>>

\* Modelling an event with point p fails, before or after p is classified.
Fail(p) == /\ poisoned' = TRUE
           /\ verdict' = NoVerdict
           /\ \/ UNCHANGED status
              \/ ~poisoned /\ status' = [status EXCEPT ![p] = Class(p)]
           /\ UNCHANGED sealed

\* The agent fails outside the modelling of an event.
Collapse == /\ poisoned' = TRUE
            /\ UNCHANGED <<status, sealed, verdict>>

Next == \/ \E p \in Points : Judge(p) \/ Admit(p) \/ Fail(p)
        \/ Seal
        \/ Collapse

Spec == Init /\ [][Next]_vars

-----------------------------------------------------------------------------

\* A point that has been classified keeps its class for ever: an accepted
\* point is never disciplined later, and a violation is never forgiven by
\* being repeated (SecurityPoint.c: the valid flag is only ever cleared).
ClassesAreFinal ==
  [][\A p \in Points : status[p] # "unknown" => status'[p] = status[p]]_vars

\* Once the model is sealed no point becomes valid (TSEM.c update and
\* _update_map: a sealed model only gains violations).
SealedIsFrozen ==
  [][sealed => /\ sealed'
               /\ \A p \in Points : status'[p] = "valid" => status[p] = "valid"]_vars
=============================================================================
