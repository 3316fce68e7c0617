SPECIFICATION FrontendSpec
CONSTANTS
    Page = {"contacts", "companies", "leads", "deals", "documents", "audit", "activities",
            "calendar", "email_logs", "email_templates", "dashboard", "reports", "pipelines",
            "profiles", "users", "webhooks", "branding", "contact", "company", "deal", "lead",
            "lead_activities", "whatsapp", "messages", "settings", "deal_history", "notifications",
            "tags", "global_search", "company_select", "deal_contact", "deal_company"}
    MaxMoves = 4
    MaxLost = 1
    None = None
    Host = {"contacts", "companies", "leads", "deals", "dashboard", "contact", "company", "lead",
            "deal", "convert", "profile", "preferences", "whatsapp_config", "lead_config", "ai_config", "branding"}
    Row = {r1, r2}
    MaxOpenings = 2
    MaxMade = 1
    MaxMissed = 1
INVARIANTS TypeOK RowsAreCurrent QueryShown CreatesOncePerOpening EditFormKnowsItsRow RecordIsShown NoLeftovers OpenFormIsCurrent
PROPERTIES SpinnerEnds UntouchedFieldsKept
CHECK_DEADLOCK FALSE
