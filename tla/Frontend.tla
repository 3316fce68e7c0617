------------------------------ MODULE Frontend ------------------------------
(***************************************************************************)
(* One run for the pages and for the forms: a behaviour is that of a page  *)
(* (CrmPages) or that of a form with its host (Forms); the other part is   *)
(* parked in a state where nothing can happen.                             *)
(***************************************************************************)
EXTENDS CrmPages

CONSTANTS Host, Row, MaxOpenings, MaxMade, MaxMissed

VARIABLES host, open, row, draft, touched, opening, making, made, stored, seen,
          busy, saves, reads, missed, kept, crossed, late

F == INSTANCE Forms

\* What a field of a form can hold: nothing, or a value as Forms writes it.
Value == {None} \cup ((Row \cup {None}) \X Nat)

\* There is a row for the pages that show one, and null is neither a row nor a
\* record of its fields.
ASSUME RowAssumption == Row # {} /\ None \notin Row /\ None \notin [F!Field -> Value]

formvars == <<host, open, row, draft, touched, opening, making, made, stored, seen,
              busy, saves, reads, missed, kept, crossed, late>>

PagesParked == page = "elsewhere" /\ Mount(FALSE, FALSE, "effect")

FormsParked ==
    /\ host = "parked" /\ open = FALSE /\ row = None /\ draft = None /\ touched = {}
    /\ opening = 0 /\ making = None /\ made = 0 /\ stored = None /\ seen = None /\ busy = FALSE
    /\ saves = {} /\ reads = {} /\ missed = 0 /\ kept = {} /\ crossed = FALSE /\ late = FALSE

FrontendInit == (Init /\ FormsParked) \/ (F!FormsInit /\ PagesParked)

FrontendNext == (Next /\ UNCHANGED formvars) \/ (F!FormsNext /\ UNCHANGED vars)

FrontendSpec == /\ FrontendInit /\ [][FrontendNext]_<<vars, formvars>>
                /\ WF_vars(Serve) /\ WF_vars(Answer)

\* What a form sends is its row's, typed in this opening, or saved in one before.
NoLeftovers == F!NoLeftovers

\* An edit changes only what was typed.
UntouchedFieldsKept == F!UntouchedFieldsKept

\* At rest an open form shows its row as the server has it, save for what was typed.
OpenFormIsCurrent == F!OpenFormIsCurrent
=============================================================================
