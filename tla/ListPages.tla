----------------------------- MODULE ListPages -----------------------------
(***************************************************************************)
(* The pages that show one list of records: contacts, companies, leads,    *)
(* deals, documents and the audit log.  Each page is its mount (state,     *)
(* fetchX and the effect), its search box, its other controls, its rows,   *)
(* and its dialogs with the handlers behind them.                          *)
(***************************************************************************)
EXTENDS Pages

PickIs(k) == [query EXCEPT !.pick = k]

-----------------------------------------------------------------------------
\* app/contacts/page.tsx

ContactsMount == page = "contacts" /\ Mount(TRUE, TRUE, "effect")

ContactsSearch == Search(typed # "")

\* toggleSort changes the order every time and keeps the page number.
ContactsSort == RowsShown /\ Control(Ask(PickIs(1 - query.pick)))

\* components/ui/advanced-filters.tsx, the button that clears: setPage(1), then a
\* refetch for the page number of before.  The filters are in no request.
AdvancedFilters ==
    LET First == [query EXCEPT !.page = 1] IN
    /\ Free /\ Moving /\ query' = First
    /\ loads' = (IF query = First THEN loads ELSE Kept \cup {Load(First, "effect")})
                \cup {Load(query, "refetch")}
    /\ overtaken' = (overtaken \/ loads # {} \/ query # First)
    /\ failed' = FALSE /\ loading' = TRUE
    /\ UNCHANGED <<page, typed, shown, form, target, confirm, picked,
                   writes, committed, acked, opened, created, lost>>

\* The badges of the filters in force: removing one is setPage(1) only.
ActiveFilters == Control(Slip([query EXCEPT !.page = 1]))

\* The buttons above the rows: new, delete the selected rows.
ContactsToolbar ==
    \/ Free /\ OpenForm(FALSE)
    \/ picked /\ Free /\ ~InFlight({"bulk"}) /\ Send("bulk")

\* The rows: select, edit, delete; the pages; the retry of the error view.
ContactsRows ==
    \/ /\ RowsShown /\ Free /\ picked' = ~picked
       /\ UNCHANGED <<page, query, typed, loading, failed, shown, form, target, confirm, net, moves>>
    \/ RowsShown /\ Free /\ (OpenForm(TRUE) \/ OpenConfirm)
    \/ RowsShown /\ Turn
    \/ Retry

\* handleFormSubmit (contact-form.tsx disables its button while it runs) and
\* handleDelete, whose button stays enabled.
ContactsHandlers ==
    \/ SubmitForm(TRUE) \/ (confirm /\ Send("delete"))
    \/ CloseForm(FALSE) \/ CloseConfirm
    \/ Settle({"create", "update"}, {"form", "target"})

\* A deleted row leaves the selection, a bulk deletion empties it.
ContactsDeleted ==
    \E w \in writes :
        /\ \/ w.kind = "delete" /\ Acknowledge(w, {"confirm"}) /\ picked' \in {picked, FALSE}
           \/ w.kind = "bulk" /\ Acknowledge(w, {}) /\ picked' = FALSE
        /\ Refetch(w.q) /\ loading' = TRUE /\ UNCHANGED <<page, query, shown>>

ContactsNext == /\ page = "contacts"
                /\ \/ ContactsSearch \/ ContactsSort \/ AdvancedFilters \/ ActiveFilters
                   \/ ContactsToolbar \/ ContactsRows \/ ContactsHandlers \/ ContactsDeleted \/ Translate
                   \/ \E text \in Term : Type(text)

-----------------------------------------------------------------------------
\* app/companies/page.tsx

CompaniesMount == page = "companies" /\ Mount(TRUE, TRUE, "effect")

CompaniesSearch == Search(typed # "")

CompaniesRows ==
    \/ Free /\ OpenForm(FALSE)
    \/ RowsShown /\ Free /\ (OpenForm(TRUE) \/ OpenConfirm)
    \/ RowsShown /\ Turn
    \/ Retry

CompaniesHandlers ==
    \/ SubmitForm(TRUE) \/ (confirm /\ Send("delete"))
    \/ CloseForm(FALSE) \/ CloseConfirm
    \/ Settle({"create", "update"}, {"form", "target"})
    \/ Settle({"delete"}, {"confirm"})

CompaniesNext == /\ page = "companies"
                 /\ \/ CompaniesSearch \/ CompaniesRows \/ CompaniesHandlers \/ Translate
                    \/ \E text \in Term : Type(text)

-----------------------------------------------------------------------------
\* app/leads/page.tsx

\* The effect does not depend on t.  The figures above the list are loaded and
\* fetched again beside it.
LeadsMount == page = "leads" /\ Mount(TRUE, TRUE, "effect")

\* The cross appears only while a search is in force.
LeadsSearch == Search(query.search # "")

\* The two filters and the order: each changes and goes back to the first page.
LeadsFilter == Control(Ask([query EXCEPT !.pick = 1 - @, !.page = 1]))

\* The error view has no retry.  Any row that is not converted can be
\* converted; the dialog is counted with the one that deletes.
LeadsRows ==
    \/ Free /\ OpenForm(FALSE)
    \/ RowsShown /\ Free /\ (OpenForm(TRUE) \/ OpenConfirm)
    \/ RowsShown /\ Turn

LeadsHandlers ==
    \/ SubmitForm(TRUE)
    \/ confirm /\ (Send("delete") \/ (~InFlight({"convert"}) /\ Send("convert")))
    \/ CloseForm(FALSE) \/ CloseConfirm
    \/ Settle({"create", "update"}, {"form", "target"})
    \/ Settle({"delete", "convert"}, {"confirm"})

LeadsNext == /\ page = "leads"
             /\ \/ LeadsSearch \/ LeadsFilter \/ LeadsRows \/ LeadsHandlers
                \/ \E text \in Term : Type(text)

-----------------------------------------------------------------------------
\* app/documents/page.tsx

DocumentsMount == page = "documents" /\ Mount(TRUE, TRUE, "effect")

DocumentsSearch == Search(typed # "")

\* A folder, the current one included; a new upload; the rows.  Each upload
\* creates a row; downloads change nothing.
DocumentsRows ==
    \/ \E k \in {0, 1} : Control(Ask(PickIs(k)))
    \/ Free /\ OpenForm(FALSE)
    \/ RowsShown /\ Free /\ OpenConfirm
    \/ Retry

\* handleUpload (its button is disabled by `uploading') and handleDelete.
DocumentsHandlers ==
    \/ SubmitForm(TRUE) \/ (confirm /\ Send("delete"))
    \/ CloseForm(FALSE) \/ CloseConfirm
    \/ Settle({"create"}, {"form"}) \/ Settle({"delete"}, {"confirm"})

DocumentsNext == /\ page = "documents"
                 /\ \/ DocumentsSearch \/ DocumentsRows \/ DocumentsHandlers \/ Translate
                    \/ \E text \in Term : Type(text)

-----------------------------------------------------------------------------
\* app/deals/page.tsx

DealsMount == page = "deals" /\ Mount(TRUE, TRUE, "effect")

DealsSearch == Search(typed # "")

\* handleStageFilter: a second click on a stage takes the filter off.
DealsFilter == Control(Ask([query EXCEPT !.pick = 1 - @, !.page = 1]))

\* A deal among the rows, as a card or as a line: edit, delete.
DealCard == RowsShown /\ Free /\ (OpenForm(TRUE) \/ OpenConfirm)

\* A card of the pipeline is dropped on a stage.
DealDragged == RowsShown /\ Free /\ Send("move")

\* The list has pages.
DealsTable == DealCard \/ (RowsShown /\ Turn)

\* The pipeline or the list, a button for a new deal, the retry.
DealsRows ==
    \/ Free /\ OpenForm(FALSE)
    \/ DealDragged \/ DealsTable
    \/ Retry

\* handleFormSubmit, handleDelete and handleStageChange.
DealsHandlers ==
    \/ SubmitForm(TRUE) \/ (confirm /\ Send("delete"))
    \/ CloseForm(FALSE) \/ CloseConfirm
    \/ Settle({"create", "update"}, {"form", "target"})
    \/ Settle({"delete"}, {"confirm"}) \/ Settle({"move"}, {})

DealsNext == /\ page = "deals"
             /\ \/ DealsSearch \/ DealsFilter \/ DealsRows \/ DealsHandlers \/ Translate
                \/ \E text \in Term : Type(text)

-----------------------------------------------------------------------------
\* app/audit/page.tsx: read only; the search filters the list on the screen.

AuditMount == page = "audit" /\ Mount(TRUE, TRUE, "effect")

AuditRows == \/ \E k \in {0, 1} : Control(Ask(PickIs(k)))
             \/ Retry

AuditNext == page = "audit" /\ (AuditRows \/ Translate)
=============================================================================
