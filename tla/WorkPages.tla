----------------------------- MODULE WorkPages -----------------------------
(***************************************************************************)
(* The pages with a shape of their own: activities, calendar, e-mail, the  *)
(* dashboard, the reports, and the sections of the administration page.    *)
(***************************************************************************)
EXTENDS Pages

-----------------------------------------------------------------------------
\* app/activities/page.tsx: one list on a calendar.  A click on an event opens
\* its detail (confirm), whose buttons edit, complete or delete it.

ActivitiesMount == page = "activities" /\ Mount(TRUE, TRUE, "effect")

\* The button above the calendar and a click on a day open the new form.
ActivitiesRows ==
    \/ Free /\ OpenForm(FALSE)
    \/ RowsShown /\ Free /\ OpenConfirm
    \/ Retry

\* handleCreate and handleEdit share `submitting'; handleEdit needs a selected
\* activity, which a deletion or completion answered meanwhile takes away.
ActivitiesSubmit ==
    /\ ~InFlight({"create", "update"})
    /\ \/ form = "new" /\ Send("create")
       \/ form = "edit" /\ target /\ Send("update")

\* openEdit leaves the detail open below the form.
ActivitiesDetail ==
    \/ confirm /\ form = "closed" /\ (OpenForm(TRUE) \/ Send("delete") \/ Send("complete"))
    \/ CloseConfirm \/ CloseForm(TRUE)

ActivitiesHandlers ==
    \/ Settle({"create"}, IF form = "new" THEN {"form"} ELSE {})
    \/ Settle({"update"}, {"confirm", "target"} \cup (IF form = "edit" THEN {"form"} ELSE {}))
    \/ Settle({"delete", "complete"}, {"confirm", "target"})

ActivitiesNext == /\ page = "activities"
                  /\ \/ ActivitiesRows \/ ActivitiesSubmit \/ ActivitiesDetail
                     \/ ActivitiesHandlers \/ Translate

-----------------------------------------------------------------------------
\* app/calendar/page.tsx

CalendarMount == page = "calendar" /\ Mount(TRUE, TRUE, "effect")

\* Previous, next and today: a new Date object each time, so the effect always
\* runs again.
CalendarNavigate == Control(Ask([query EXCEPT !.pick = moves]))

\* The days and the button open the form for a new event, an event its own;
\* the connected calendar can be synchronised.
CalendarGrid ==
    \/ Free /\ OpenForm(FALSE)
    \/ RowsKept /\ Free /\ OpenForm(TRUE)
    \/ Free /\ Send("sync")

\* handleSaveEvent updates the selected event and creates one when none is.
\* No button is disabled while a request runs.
CalendarForm ==
    \/ ~confirm /\ (SubmitForm(FALSE) \/ CloseForm(TRUE))
    \/ form # "closed" /\ target /\ ~confirm /\ OpenConfirm
    \/ confirm /\ target /\ Send("delete")
    \/ CloseConfirm

\* A deletion clears the selected event and leaves the form open.
CalendarHandlers ==
    \/ Settle({"create", "update"}, {"form"})
    \/ Settle({"delete"}, {"confirm", "target"})
    \/ Settle({"sync"}, {})

CalendarNext == /\ page = "calendar"
                /\ (CalendarNavigate \/ CalendarGrid \/ CalendarForm \/ CalendarHandlers)

-----------------------------------------------------------------------------
\* app/email/page.tsx with its panels, twice: the list of the logs tab and the
\* list of the templates tab.  query.pick is 1 while that tab is shown.

EmailLogsMount == page = "email_logs" /\ Mount(FALSE, FALSE, "effect")
EmailTemplatesMount == page = "email_templates" /\ Mount(FALSE, FALSE, "effect")

\* The effect loads the list of the tab that is shown.
EmailShow(q) ==
    /\ query' = q /\ loading' = (loading \/ q.pick = 1)
    /\ IF q = query THEN UNCHANGED <<loads, overtaken>> ELSE Rerun(q, q.pick = 1)

EmailTab == \E k \in {0, 1} : Steer(EmailShow([query EXCEPT !.pick = k]))

\* handleSend and handleSendFromTemplate, under one `sending'.
EmailSend == ~InFlight({"send"}) /\ Send("send")

\* compose-panel.tsx; on its own tab, so not while the logs are shown.
ComposePanel == query.pick = 0 /\ EmailSend

\* Sending done: setLogsLoading(true), setTab("logs").  The effect loads the
\* logs only if the user was on another tab.
EmailSent(k) ==
    \E w \in writes :
        /\ w.kind = "send" /\ Acknowledge(w, {})
        /\ EmailShow([query EXCEPT !.pick = k])
        /\ UNCHANGED <<page, failed, shown, picked>>

EmailLogsPanel == /\ query.pick = 1 /\ shown # None
                  /\ \E p \in 1..2 : Steer(EmailShow([query EXCEPT !.page = p]))

\* The form stands above the templates and covers nothing; a template is
\* deleted without a question.
EmailTemplatesPanel ==
    /\ query.pick = 1
    /\ \/ OpenForm(FALSE) \/ CloseForm(TRUE) \/ SubmitForm(FALSE)
       \/ RowsKept /\ (OpenForm(TRUE) \/ Send("delete"))

EmailTemplatesHandlers ==
    \/ Settle({"create", "update"}, {"form", "target"})
    \/ Settle({"delete"}, {})

EmailLogsNext == /\ page = "email_logs"
                 /\ \/ EmailTab \/ EmailLogsPanel \/ EmailSent(1)
                    \/ query.pick = 0 /\ EmailSend

EmailTemplatesNext == /\ page = "email_templates"
                      /\ \/ EmailTab \/ EmailTemplatesPanel \/ EmailTemplatesHandlers
                         \/ EmailSend \/ EmailSent(0)

-----------------------------------------------------------------------------
\* app/dashboard/page.tsx: four lists loaded together, counted as one that
\* fails when all four do.  While it loads the whole page is a skeleton.

DashboardMount == page = "dashboard" /\ Mount(TRUE, TRUE, "effect")

DashboardBody ==
    \/ RowsKept /\ Free /\ OpenForm(FALSE)
    \/ ~loading /\ (SubmitForm(TRUE) \/ CloseForm(FALSE))
    \/ shown = None /\ Retry

\* handleCreateDeal
DashboardHandler == Settle({"create"}, {"form"})

DashboardNext == /\ page = "dashboard"
                 /\ (DashboardBody \/ DashboardHandler \/ Translate)

\* app/reports/page.tsx: read only.
ReportsMount == page = "reports" /\ Mount(TRUE, TRUE, "effect")

ReportsNext == page = "reports" /\ ((shown = None /\ Retry) \/ Translate)

-----------------------------------------------------------------------------
\* app/admin/page.tsx shows one section at a time.  A section has no spinner,
\* ignores the errors of its loads, and disables no button while a request
\* runs.  Opening a form sets or clears the row it edits, closing it does not.

PipelinesMount == page = "pipelines" /\ Mount(FALSE, TRUE, "effect")

\* openPipeForm, handleDeletePipe and handleAddStage.
PipelinesRows ==
    \/ Free /\ OpenForm(FALSE)
    \/ RowsKept /\ Free /\ (OpenForm(TRUE) \/ Send("delete") \/ Send("stage"))

PipelinesHandlers ==
    \/ SubmitForm(FALSE) \/ CloseForm(TRUE)
    \/ SettleInPlace({"create", "update"}, {"form"})
    \/ SettleInPlace({"delete", "stage"}, {})

ProfilesMount == page = "profiles" /\ Mount(FALSE, TRUE, "effect")

ProfilesRows ==
    \/ Free /\ OpenForm(FALSE)
    \/ RowsKept /\ Free /\ OpenForm(TRUE)

ProfilesHandlers ==
    \/ SubmitForm(FALSE) \/ CloseForm(TRUE)
    \/ SettleInPlace({"create", "update"}, {"form"})

UsersMount == page = "users" /\ Mount(FALSE, TRUE, "effect")

UsersRows == RowsKept /\ Free /\ (OpenForm(TRUE) \/ Send("delete"))

\* handleAssignProfile and handleDeleteUser.
UsersHandlers ==
    \/ SubmitForm(FALSE) \/ CloseForm(TRUE)
    \/ SettleInPlace({"update"}, {"form"}) \/ SettleInPlace({"delete"}, {})

WebhooksMount == page = "webhooks" /\ Mount(FALSE, TRUE, "effect")

\* openDeliveries (picked) asks for the deliveries first and opens their
\* dialog with the answer, whatever is open by then.
WebhooksRows ==
    \/ Free /\ OpenForm(FALSE)
    \/ RowsKept /\ Free /\ (Send("delete") \/ Send("toggle"))
    \/ /\ RowsKept /\ Free /\ ~picked /\ Moving /\ picked' = TRUE
       /\ UNCHANGED <<page, query, typed, loading, failed, shown, form, target, confirm, net>>

WebhooksHandlers ==
    \/ SubmitForm(FALSE) \/ CloseForm(FALSE) \/ CloseConfirm
    \/ SettleInPlace({"create"}, {"form"}) \/ SettleInPlace({"delete", "toggle"}, {})
    \/ /\ picked /\ picked' = FALSE /\ confirm' = TRUE
       /\ UNCHANGED <<page, query, typed, loading, failed, shown, form, target, net, moves>>

\* One record, edited in place; fetchBranding fills the fields in again.
BrandingMount == page = "branding" /\ Mount(FALSE, TRUE, "effect")

BrandingHandlers ==
    \/ ~InFlight({"update"}) /\ Send("update")
    \/ SettleInPlace({"update"}, {})

AdminNext ==
    \/ page = "pipelines" /\ (PipelinesRows \/ PipelinesHandlers)
    \/ page = "profiles" /\ (ProfilesRows \/ ProfilesHandlers)
    \/ page = "users" /\ (UsersRows \/ UsersHandlers)
    \/ page = "webhooks" /\ (WebhooksRows \/ WebhooksHandlers)
    \/ page = "branding" /\ BrandingHandlers
=============================================================================
