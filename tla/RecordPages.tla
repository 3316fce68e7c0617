---------------------------- MODULE RecordPages ----------------------------
(***************************************************************************)
(* The pages of one record: contacts/[id], companies/[id], deals/[id] and  *)
(* leads/[id].  When its record cannot be loaded a page sends the router   *)
(* to the list, and it does so too when the record has been deleted, also  *)
(* if the user has left the page by then: `elsewhere' is any other page,   *)
(* `dragged' the list the user was moved to from there.                    *)
(***************************************************************************)
EXTENDS Pages

\* router.push
Push == page' = IF page \in {"elsewhere", "dragged"} THEN "dragged" ELSE "elsewhere"

\* What is left of a page when it is unmounted: the requests that can still
\* move the router.  The effect's clean-up drops its own.
Abandon == /\ loads' = {l \in loads : l.by = "loose"}
           /\ writes' = {w \in writes : w.kind = "delete"}

\* The user follows a link to another page.
Leave == /\ page # "elsewhere" /\ Free /\ Moving
         /\ page' = "elsewhere" /\ Abandon
         /\ UNCHANGED <<ui, committed, acked, opened, created, lost, overtaken>>

\* The effect of the first three pages: setLoading(true) and a load that no
\* clean-up stops.
RecordReload ==
    /\ Moving /\ loading' = TRUE /\ loads' = loads \cup {Load(query, "loose")}
    /\ overtaken' = ((loads \cup writes) # {} /\ (overtaken \/ loads # {}))
    /\ UNCHANGED <<page, query, typed, failed, shown, form, target, confirm, picked,
                   writes, committed, acked, opened, created, lost>>

\* An answer: setX(data) and setLoading(false) on a mounted page only.
RecordReceive ==
    \E l \in loads :
        /\ l.has # None /\ loads' = loads \ {l}
        /\ IF page = "elsewhere" THEN UNCHANGED <<shown, loading, failed>>
           ELSE /\ shown' = [q |-> l.q, has |-> l.has, by |-> l.by]
                /\ loading' = (loading /\ l.by = "refetch") /\ failed' = FALSE
        /\ UNCHANGED <<page, query, typed, form, target, confirm, picked, moves, writes,
                       committed, acked, opened, created, lost, overtaken>>

MutantRecordFail ==                   \* the page stays
    \E l \in loads :
        /\ loads' = loads \ {l} /\ failed' = TRUE /\ loading' = FALSE
        /\ UNCHANGED <<page, query, typed, shown, form, target, confirm, picked, moves, writes,
                       committed, acked, opened, created, lost, overtaken>>

\* A load of the record that fails leaves the page, the one after an update
\* shows a message.
RecordFail ==
    \E l \in loads :
        /\ IF l.by = "refetch" THEN /\ page' = page /\ loads' = loads \ {l}
                                    /\ UNCHANGED <<writes, loading>>
           ELSE /\ Push /\ loads' = {k \in loads : k.by = "loose"} \ {l}
                /\ writes' = {w \in writes : w.kind = "delete"} /\ loading' = FALSE
        /\ failed' = TRUE
        /\ UNCHANGED <<query, typed, shown, form, target, confirm, picked, moves,
                       committed, acked, opened, created, lost, overtaken>>

\* handleDelete
RecordDeleted ==
    \E w \in writes :
        /\ w.kind = "delete" /\ w.done = "ok" /\ Push
        /\ loads' = {l \in loads : l.by = "loose"}
        /\ writes' = {v \in writes : v.kind = "delete"} \ {w} /\ acked' = acked \cup {w.no}
        /\ UNCHANGED <<ui, committed, opened, created, lost, overtaken, moves>>

-----------------------------------------------------------------------------
\* app/contacts/[id]/page.tsx, app/companies/[id]/page.tsx, app/deals/[id]/page.tsx:
\* the record is loaded with the lists of its tabs, and after an update alone.

ContactMount == page = "contact" /\ Mount(TRUE, TRUE, "loose")
CompanyMount == page = "company" /\ Mount(TRUE, TRUE, "loose")
DealMount    == page = "deal" /\ Mount(TRUE, TRUE, "loose")

RecordButtons == RowsKept /\ Free /\ (OpenForm(TRUE) \/ OpenConfirm)

\* handleUpdate closes the form, then reads the record.
RecordHandlers ==
    \/ SubmitForm(TRUE) \/ (confirm /\ Send("delete"))
    \/ CloseForm(TRUE) \/ CloseConfirm
    \/ SettleInPlace({"update"}, {"form"})

ContactNext == page = "contact" /\ (RecordButtons \/ (~loading /\ RecordHandlers) \/ RecordReload)
CompanyNext == page = "company" /\ (RecordButtons \/ (~loading /\ RecordHandlers) \/ RecordReload)
DealNext    == page = "deal" /\ (RecordButtons \/ (~loading /\ RecordHandlers) \/ RecordReload)

-----------------------------------------------------------------------------
\* app/leads/[id]/page.tsx.  Its effect has a clean-up and does not depend on t;
\* fetchLead, called after an update or a conversion, leaves the page when it
\* fails.

LeadMount == page = "lead" /\ Mount(TRUE, TRUE, "effect")

LeadButtons == RowsKept /\ Free /\ (OpenForm(TRUE) \/ OpenConfirm)

\* handleStatusChange, for each status but the lead's: they stay enabled.
LeadStatusButtons == RowsKept /\ Free /\ Send("status")

\* The dialogs of LeadForm and ConvertLeadDialog disable their buttons.
LeadHandlers ==
    \/ SubmitForm(TRUE)
    \/ confirm /\ (Send("delete") \/ (~InFlight({"convert"}) /\ Send("convert")))
    \/ CloseForm(TRUE) \/ CloseConfirm

\* onSuccess: the dialog closes, fetchLead().
LeadSettled ==
    \E w \in writes :
        /\ w.kind \in {"update", "convert"}
        /\ Acknowledge(w, IF w.kind = "update" THEN {"form"} ELSE {"confirm"})
        /\ loads' = loads \cup {Load(w.q, "loose")} /\ overtaken' = (overtaken \/ loads # {})
        /\ UNCHANGED <<page, query, loading, failed, shown, picked>>

\* setLead({...lead, status}) with the lead of the click.
LeadStatusSet ==
    \E w \in writes :
        /\ w.kind = "status" /\ Acknowledge(w, {})
        /\ shown' = [q |-> w.q, has |-> w.sees.has \cup {w.no}, by |-> "local"]
        /\ overtaken' = (overtaken \/ loads # {} \/ w.sees # shown)
        /\ UNCHANGED <<page, query, loading, failed, picked, loads>>

LeadNext ==
    /\ page = "lead"
    /\ LeadButtons \/ LeadStatusButtons \/ LeadHandlers \/ LeadSettled \/ LeadStatusSet

-----------------------------------------------------------------------------
\* The activities of a lead: a list of its own on the same page.  Its errors
\* are ignored; the form is inline and covers nothing.

LeadActivitiesMount == page = "lead_activities" /\ Mount(FALSE, TRUE, "effect")

LeadActivitiesPanel ==
    \/ OpenForm(FALSE) \/ CloseForm(FALSE) \/ SubmitForm(TRUE)
    \/ RowsKept /\ (Send("complete") \/ Send("delete_activity"))

LeadActivitiesHandlers ==
    \/ SettleInPlace({"create"}, {"form"})
    \/ SettleInPlace({"complete", "delete_activity"}, {})

LeadActivitiesNext == page = "lead_activities" /\ (LeadActivitiesPanel \/ LeadActivitiesHandlers)
=============================================================================
