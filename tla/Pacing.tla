------------------------------- MODULE Pacing -------------------------------
(***************************************************************************)
(* When the collector of CollectorGarbage is stepped.  An engine with an   *)
(* allocation assistant reports to it what a boundary has made the heap    *)
(* grow by; the assistant runs up a debt and, once a cycle is under way,   *)
(* makes a step of the cycle when the debt has reached the step budget.    *)
(* Safepoints make further steps.  Nobody else steps the collector: a      *)
(* program that neither allocates nor passes a safepoint leaves a cycle    *)
(* where it is.  An engine without an assistant never steps the collector  *)
(* itself; then the steps stand for what the Go code that owns it calls.   *)
(*                                                                         *)
(* All spans have one size, the unit of bytes here.  Whether the trigger   *)
(* of a pause has been reached is left open: in a pause the collector may  *)
(* or may not prepare a cycle.                                             *)
(***************************************************************************)
EXTENDS CollectorGarbage

CONSTANTS
  StepBudgets,  \* budgets in spans; with 0 every allocation steps, without bound
  NoAssistant

ASSUME PacingAssumption == StepBudgets \subseteq Nat /\ NoAssistant \notin StepBudgets

VARIABLES
  budget,     \* step budget of the engine's assistant, or NoAssistant
  allocDebt,
  left,       \* spans the step of AssistAllocation in progress may visit, or 0
  unpaid      \* history: what was allocated in a cycle since it last advanced

paceVars == <<budget, allocDebt, left, unpaid>>
pacedVars == <<garbageVars, paceVars>>

PacedInit ==
  /\ GarbageInit
  /\ budget \in StepBudgets \cup {NoAssistant}
  /\ allocDebt = 0 /\ left = 0 /\ unpaid = 0

Assisted == budget # NoAssistant

LiveBytes == Cardinality({o \in Offsets : kind[o] # "free"})
Growth == LiveBytes' - LiveBytes

Chunk == IF budget = 0 THEN MaxSpans + 1 ELSE budget

\* Slip: the debt is what the last boundary allocated.
AssistLastAllocation ==
  IF Assisted /\ Growth > 0
  THEN /\ allocDebt' = Growth
       /\ IF phase = "pause"
          THEN UNCHANGED <<left, unpaid>>
          ELSE /\ unpaid' = unpaid + Growth
               /\ left' = IF budget # 0 /\ allocDebt' < budget THEN 0 ELSE Chunk
  ELSE UNCHANGED <<allocDebt, left, unpaid>>

\* AssistAllocation up to its step: a pause only runs up debt (a step that
\* prepares a cycle is one of AssistSafepoint here), a cycle is advanced as
\* soon as the debt is not below the budget.
AssistAllocation ==
  IF Assisted /\ Growth > 0
  THEN /\ allocDebt' = allocDebt + Growth
       /\ IF phase = "pause"
          THEN UNCHANGED <<left, unpaid>>
          ELSE /\ unpaid' = unpaid + Growth
               /\ left' = IF budget # 0 /\ allocDebt' < budget THEN 0 ELSE Chunk
  ELSE UNCHANGED <<allocDebt, left, unpaid>>

\* A boundary of the program, with the assistant called at its end.
Boundary ==
  /\ left = 0
  /\ ClearProgram
  /\ Remember
  /\ AssistAllocation
  /\ UNCHANGED budget

Advances == <<phase, walk>>' # <<phase, walk>>

\* One span of the sweep, or another phase as a whole.
StepOnce ==
  /\ CollectorStep
  /\ Remember
  /\ unpaid' = IF Advances THEN 0 ELSE unpaid
  /\ UNCHANGED budget

\* The step of AssistAllocation ends with its phase, with the cycle or, in a
\* sweep, with its chunk; the debt is then forgiven or paid off by one budget.
StepEnds == phase # "sweepObjects" \/ phase' = "pause" \/ left = 1

AssistStep ==
  /\ left > 0
  /\ StepOnce
  /\ left' = IF StepEnds THEN 0 ELSE left - 1
  /\ allocDebt' = IF ~StepEnds THEN allocDebt
                  ELSE IF phase' = "pause" \/ budget = 0 \/ allocDebt < budget THEN 0
                  ELSE allocDebt - budget

\* A safepoint's step pays nothing; one that ends in a pause forgives the debt,
\* whereas AssistAllocation leaves it after a step that prepares a cycle.
AssistSafepoint ==
  /\ left = 0
  /\ StepOnce
  /\ UNCHANGED left
  /\ \/ phase' # "pause" /\ UNCHANGED allocDebt
     \/ phase' = "pause" /\ allocDebt' = 0
     \/ phase = "pause" /\ phase' = "pause" /\ UNCHANGED allocDebt

PacedNext == Boundary \/ AssistStep \/ AssistSafepoint

PacedSpec == PacedInit /\ [][PacedNext]_pacedVars

-----------------------------------------------------------------------------
(* Properties                                                              *)

\* A cycle keeps pace with the program: between two steps of an assisted cycle
\* less than a budget has been allocated since it last advanced, whatever mix
\* of boundaries and safepoints led there and whatever debt the pause before
\* the cycle had run up (AssistAllocation, AssistSafepoint).  A cycle has a
\* bounded number of advances, so it ends before the program has allocated
\* that many budgets more.
PaceKept == Assisted /\ phase # "pause" /\ left = 0 => unpaid = 0 \/ unpaid < budget

\* The invariant behind it: the debt covers what is unpaid, and only a step in
\* progress leaves a budget of both.
PaceInv ==
  /\ budget \in StepBudgets \cup {NoAssistant}
  /\ allocDebt \in Nat /\ unpaid \in Nat /\ left \in Nat
  /\ left > 0 => Assisted /\ phase # "pause"
  /\ Assisted /\ phase # "pause" =>
       /\ unpaid <= allocDebt
       /\ left = 0 => unpaid = 0 \/ allocDebt < budget
=============================================================================
