----------------------------- MODULE PanelPages -----------------------------
(***************************************************************************)
(* Lists that belong to something selected or typed: the conversations of  *)
(* app/whatsapp, the tabs of app/settings, the history of a deal, the      *)
(* notifications, the tags of a record, and the boxes that search while    *)
(* one types.  On the boxes query.pick is the text (0: too short), picked  *)
(* that their timer runs, and target that a row has been chosen.           *)
(***************************************************************************)
EXTENDS Pages

Select(k) == [query EXCEPT !.pick = k]

\* A write that ends without a refetch: nothing on the list tells of it.
Finish(w, closes) ==
    /\ w.done = "ok" /\ writes' = writes \ {w}
    /\ form' = (IF "form" \in closes THEN "closed" ELSE form)
    /\ UNCHANGED <<page, query, typed, loading, failed, shown, confirm, loads, committed,
                   acked, opened, created, lost, overtaken, moves>>

-----------------------------------------------------------------------------
\* app/whatsapp/page.tsx: the conversations.

WhatsAppMount == page = "whatsapp" /\ Mount(TRUE, TRUE, "effect")

\* The refresh button.  Enter sends the text again while it is being sent.
WhatsAppRows ==
    \/ /\ Free /\ Moving /\ Refetch(query) /\ loading' = TRUE
       /\ UNCHANGED <<page, query, typed, shown, form, target, confirm, picked,
                      writes, committed, acked, opened, created, lost>>
    \/ Free /\ Send("send")

\* handleSend: fetchMessages() is on the page below.
WhatsAppSend == SettleInPlace({"send"}, {})

\* handleExtractLead and handleSaveExtractedContact: the answer of the extraction
\* opens its dialog, which creates a contact.
WhatsAppExtract ==
    \/ /\ Free /\ ~picked /\ Moving /\ picked' = TRUE
       /\ UNCHANGED <<page, query, typed, loading, failed, shown, form, target, confirm, net>>
    \/ /\ picked /\ picked' = FALSE /\ form' = "new" /\ target' = FALSE /\ opened' = moves
       /\ UNCHANGED <<page, query, typed, loading, failed, shown, confirm, loads, writes,
                      committed, acked, created, lost, overtaken, moves>>
    \/ SubmitForm(FALSE) \/ CloseForm(FALSE)
    \/ \E w \in writes : w.kind = "create" /\ Finish(w, {"form"}) /\ UNCHANGED <<target, picked>>

WhatsAppNext == page = "whatsapp" /\ (WhatsAppRows \/ WhatsAppSend \/ WhatsAppExtract)

-----------------------------------------------------------------------------
\* The messages of the selected conversation: query.pick, 0 for none.

MessagesMount == page = "messages" /\ Mount(FALSE, FALSE, "effect")

\* setSelectedPhone(): the old messages stay until the answer.
MessagesSelect ==
    \E k \in 0..2 :
        Steer(/\ k # query.pick /\ query' = Select(k)
              /\ Rerun(Select(k), k # 0) /\ UNCHANGED loading)

\* handleSend, then fetchMessages() for the conversation of the click.
MessagesSend ==
    \/ query.pick # 0 /\ Send("send")
    \/ SettleInPlace({"send"}, {})

MessagesNext == page = "messages" /\ (MessagesSelect \/ MessagesSend)

-----------------------------------------------------------------------------
\* app/settings/page.tsx: the integrations, listed while their tab (query.pick
\* = 1) is shown.  Left out is the return from a provider; its dialogs are in Forms.

SettingsMount == page = "settings" /\ Mount(FALSE, FALSE, "effect")

\* The tabs: the flag is set when the tab of the integrations is clicked, also
\* if it is shown already.
SettingsTab ==
    \E k \in {0, 1} :
        Control(/\ query' = Select(k) /\ loading' = (loading \/ k = 1)
                /\ IF k = query.pick THEN UNCHANGED <<loads, overtaken>>
                   ELSE Rerun(Select(k), k = 1))

SettingsDisconnect ==
    \/ query.pick = 1 /\ shown # None /\ Free /\ Send("disconnect")
    \/ Settle({"disconnect"}, {})

SettingsNext == /\ page = "settings"
                /\ (SettingsTab \/ SettingsDisconnect)

-----------------------------------------------------------------------------
\* app/deals/page.tsx: the history in the dialog of one deal.  openView empties
\* it and asks for the history of its deal; nothing drops an earlier answer.

HistoryMount == page = "deal_history" /\ Mount(FALSE, FALSE, "effect")

HistoryOpen ==
    \E k \in 1..2 :
        /\ ~confirm /\ Moving /\ confirm' = TRUE
        /\ query' = Select(k) /\ shown' = None /\ loading' = TRUE
        /\ loads' = loads \cup {Load(Select(k), "refetch")} /\ overtaken' = (loads # {})
        /\ UNCHANGED <<page, typed, failed, form, target, picked, writes, committed,
                       acked, opened, created, lost>>

\* components/deals/deal-detail-modal.tsx is open until it is closed.
DealDetailModal == CloseConfirm

HistoryNext == page = "deal_history" /\ (HistoryOpen \/ DealDetailModal)

-----------------------------------------------------------------------------
\* components/ui/notification-center.tsx

NoticesMount == page = "notifications" /\ Mount(FALSE, TRUE, "refetch")

\* setInterval(fetchData, 30000)
NoticesPoll ==
    /\ Moving /\ loads' = loads \cup {Load(query, "refetch")}
    /\ overtaken' = (loads \cup writes # {} /\ (overtaken \/ loads # {}))
    /\ UNCHANGED <<page, ui, writes, committed, acked, opened, created, lost>>

\* The list: mark one or all as read, delete one.
NoticesRows == shown # None /\ (Send("read") \/ Send("delete"))

MutantNoticesDone ==                  \* the list of the click is changed
    \E w \in writes :
        /\ w.kind \in {"read", "delete"} /\ Acknowledge(w, {})
        /\ shown' = [shown EXCEPT !.has = {n \in @ : n < w.no} \cup {w.no}]
        /\ overtaken' = (overtaken \/ loads # {})
        /\ UNCHANGED <<page, query, loading, failed, picked, loads>>

\* handleMarkAsRead, handleMarkAllAsRead, handleDelete: the list that is there
\* when the answer arrives is changed.
NoticesDone ==
    \E w \in writes :
        /\ w.kind \in {"read", "delete"} /\ Acknowledge(w, {})
        /\ shown' = [shown EXCEPT !.has = @ \cup {w.no}]
        /\ overtaken' = (overtaken \/ loads # {})
        /\ UNCHANGED <<page, query, loading, failed, picked, loads>>

NoticesNext == page = "notifications" /\ (NoticesPoll \/ NoticesRows \/ NoticesDone)

-----------------------------------------------------------------------------
\* components/ui/tags-input.tsx, once its tags have arrived.

TagsMount == page = "tags" /\ Mount(FALSE, TRUE, "refetch")

\* A tag is assigned or removed, or created and assigned (one at a time).
TagsBox == RowsShown /\ (Send("status") \/ (~InFlight({"tag"}) /\ Send("tag")))

\* setTags([...tags, tag]) and setTags(tags.filter(...)): the tags of the click.
TagsDone ==
    \E w \in writes :
        /\ w.kind \in {"status", "tag"} /\ Acknowledge(w, {})
        /\ shown' = [shown EXCEPT !.has = w.sees.has \cup {w.no}]
        /\ overtaken' = (overtaken \/ w.sees # shown)
        /\ UNCHANGED <<page, query, loading, failed, picked, loads>>

TagsNext == page = "tags" /\ (TagsBox \/ TagsDone)

-----------------------------------------------------------------------------
\* components/ui/global-search.tsx: an effect on the text starts the timer; its
\* clean-up stops the timer and aborts the request, but not the spinner.

SearchMount == page = "global_search" /\ Mount(FALSE, FALSE, "effect")

\* Typing; choosing a result or all of them empties the box.
SearchType ==
    \E k \in {0, moves} :
        /\ k # query.pick /\ Moving /\ query' = Select(k) /\ picked' = TRUE
        /\ Rerun(Select(k), FALSE)
        /\ UNCHANGED <<page, typed, loading, failed, shown, form, target, confirm,
                       writes, committed, acked, opened, created, lost>>

\* The timer: a text that is too short asks nothing.
SearchFire ==
    /\ picked /\ picked' = FALSE
    /\ \/ query.pick = 0 /\ shown' = None /\ UNCHANGED <<loads, overtaken, loading>>
       \/ query.pick # 0 /\ Rerun(query, TRUE) /\ loading' = TRUE /\ UNCHANGED shown
    /\ UNCHANGED <<page, query, typed, failed, form, target, confirm,
                   writes, committed, acked, opened, created, lost, moves>>

SearchNext == page = "global_search" /\ (SearchType \/ SearchFire)

-----------------------------------------------------------------------------
\* The boxes that choose a company or a contact: components/ui/
\* company-async-select.tsx, and the two in components/forms/deal-form.tsx.
\* Nothing stops a request once it is sent.

CompanySelectMount == page = "company_select" /\ Mount(FALSE, FALSE, "effect")
DealContactMount   == page = "deal_contact" /\ Mount(FALSE, FALSE, "effect")
DealCompanyMount   == page = "deal_company" /\ Mount(FALSE, FALSE, "effect")

\* Typing takes the choice back and starts the timer again.
BoxType ==
    \E k \in {0, moves} :
        /\ k # query.pick /\ Moving /\ query' = Select(k) /\ picked' = TRUE /\ target' = FALSE
        /\ UNCHANGED <<page, typed, loading, failed, shown, form, confirm, net>>

BoxFire ==
    /\ picked /\ picked' = FALSE
    /\ \/ query.pick = 0 /\ shown' = None /\ UNCHANGED <<loads, overtaken>>
       \/ /\ query.pick # 0 /\ loads' = loads \cup {Load(query, "refetch")}
          /\ overtaken' = (loads # {}) /\ UNCHANGED shown
    /\ UNCHANGED <<page, query, typed, loading, failed, form, target, confirm,
                   writes, committed, acked, opened, created, lost, moves>>

BoxChoose ==
    /\ RowsShown /\ ~target /\ target' = TRUE
    /\ UNCHANGED <<page, query, typed, loading, failed, shown, form, confirm, picked, net, moves>>

\* A new row is created in the box and chosen, whatever was chosen meanwhile.
BoxCreated ==
    \E w \in writes : w.kind = "create" /\ Finish(w, {}) /\ target' = TRUE /\ UNCHANGED picked

CompanySelect == BoxType \/ BoxFire \/ BoxChoose \/ BoxCreated \/ Send("create")

\* In the deal form the button is disabled while a row is created.
QuickCreate == ~InFlight({"create"}) /\ Send("create")

DealContactBox == BoxType \/ BoxFire \/ BoxChoose
DealCompanyBox == BoxType \/ BoxFire \/ BoxChoose

BoxesNext ==
    \/ page = "company_select" /\ CompanySelect
    \/ page = "deal_contact" /\ (DealContactBox \/ QuickCreate \/ BoxCreated)
    \/ page = "deal_company" /\ (DealCompanyBox \/ QuickCreate \/ BoxCreated)

PanelsNext == \/ WhatsAppNext \/ MessagesNext \/ SettingsNext \/ HistoryNext \/ NoticesNext
              \/ TagsNext \/ SearchNext \/ BoxesNext
=============================================================================
