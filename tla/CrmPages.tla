------------------------------ MODULE CrmPages ------------------------------
(***************************************************************************)
(* The pages of the frontend under one specification: a run mounts one of  *)
(* the pages in Page and follows its user, its requests and the server.    *)
(***************************************************************************)
EXTENDS ListPages, WorkPages, RecordPages, PanelPages

\* Pages whose record decides whether they stay mounted.
Record == {"contact", "company", "deal", "lead"}

\* Pages where a control can ask for the query already shown: setLoading(true)
\* is called and no effect runs; and the box whose requests are aborted.
Repeating == {"contacts", "companies", "leads", "deals", "documents", "audit",
              "email_logs", "email_templates", "settings", "global_search"}

\* Pages that search for what is typed.
Boxes == {"global_search", "company_select", "deal_contact", "deal_company"}

Init ==
    /\ page \in Page
    /\ \/ ContactsMount \/ CompaniesMount \/ LeadsMount \/ DealsMount \/ DocumentsMount
       \/ AuditMount \/ ActivitiesMount \/ CalendarMount \/ EmailLogsMount
       \/ EmailTemplatesMount \/ DashboardMount \/ ReportsMount \/ PipelinesMount
       \/ ProfilesMount \/ UsersMount \/ WebhooksMount \/ BrandingMount
       \/ ContactMount \/ CompanyMount \/ DealMount \/ LeadMount \/ LeadActivitiesMount
       \/ WhatsAppMount \/ MessagesMount \/ SettingsMount \/ HistoryMount \/ NoticesMount
       \/ TagsMount \/ SearchMount \/ CompanySelectMount \/ DealContactMount \/ DealCompanyMount

Routed == page \in Record \cup {"elsewhere", "dragged"}

\* The end of a list request.
Answer == IF Routed THEN RecordReceive \/ RecordFail ELSE Receive \/ Fail

User == \/ ContactsNext \/ CompaniesNext \/ LeadsNext \/ DealsNext \/ DocumentsNext
        \/ AuditNext \/ ActivitiesNext \/ CalendarNext \/ EmailLogsNext
        \/ EmailTemplatesNext \/ DashboardNext \/ ReportsNext \/ AdminNext
        \/ ContactNext \/ CompanyNext \/ DealNext \/ LeadNext \/ LeadActivitiesNext
        \/ PanelsNext
        \/ (page \in Record /\ Leave)

Next == User \/ Serve \/ Answer \/ Commit \/ Refuse \/ (Routed /\ RecordDeleted)

\* Every list request is served and answered: fetch() settles.
Spec == Init /\ [][Next]_vars /\ WF_vars(Serve) /\ WF_vars(Answer)

-----------------------------------------------------------------------------
\* The list is on the screen: that of a tab while the tab is, the messages of
\* a conversation that is selected, the rows for a text whose timer has fired.
Looking == /\ page \in Page
           /\ page \in {"email_logs", "email_templates", "settings"} => query.pick = 1
           /\ page \in Boxes \cup {"messages"} => query.pick # 0
           /\ page \in Boxes => ~picked

TypeOK ==
    /\ page \in Page \cup {"elsewhere", "dragged"}
    /\ query \in Query /\ typed \in Term /\ moves \in 0..MaxMoves /\ lost \in 0..MaxLost
    /\ {loading, failed, target, confirm, picked, overtaken} \subseteq BOOLEAN
    /\ form \in {"closed", "new", "edit"} /\ acked \subseteq committed

\* When a page is at rest and nothing crossed since its last lone load, what it
\* shows answers the query of its controls and reflects every write it was told
\* had succeeded.
RowsAreCurrent ==
    Quiet /\ Looking /\ ~overtaken => shown.q = query /\ acked \subseteq shown.has

\* A list at rest that came from the effect answers the query of the controls,
\* whatever crossed: the clean-up drops the answers of earlier queries.
QueryShown ==
    Quiet /\ Looking => shown.q = query \/ shown.by # "effect"

\* A spinner ends, unless a control repeated the query (see Repeating).
SpinnerEnds ==
    (page \in Page /\ loading) ~>
        (page \notin Page \/ ~loading \/ (page \in Repeating /\ loads = {}))

\* A form that disables its button while it submits creates at most one row
\* each time it is opened, and one more for each success it was not told of.
CreatesOncePerOpening ==
    page \in {"contacts", "companies", "leads", "deals", "documents", "dashboard",
              "activities", "lead_activities"} =>
        \A n \in 0..MaxMoves : Cardinality({c \in created : c[1] = n}) <= 1 + lost

\* A form opened on a row still has its row when it is submitted.  (It may lose
\* it on the activities and the calendar pages.)
EditFormKnowsItsRow ==
    form = "edit" /\ page \notin {"activities", "calendar"} => target

\* The page of a record is blank only on its way to the list.
RecordIsShown == page \in Record /\ ~loading => shown # None
=============================================================================
