------------------------------- MODULE Forms -------------------------------
(***************************************************************************)
(* What the forms of the frontend hold and send.  A form stays mounted     *)
(* while it is closed, so its fields live on from one opening to the next; *)
(* it takes them from the row it is given when it is opened or closed, and *)
(* when that row is replaced by another object.                            *)
(*                                                                         *)
(* A host is a page with its form.  The pages of a list give the row that  *)
(* is edited, or none; the page of a record always gives its record.       *)
(*                                                                         *)
(* A value is written as its origin: <<r, 0>> is what row r held at first, *)
(* <<r, n>> what the user typed for row r in opening n, None is empty.     *)
(* `note' stands for the text fields, `link' for a contact or a company    *)
(* that is chosen.  `unshown' is a column that no form shows, where edits  *)
(* change it all the same: the time of day of a deal's close date (`note'  *)
(* is then the day), and the territories of the assignment of leads.       *)
(***************************************************************************)
EXTENDS Naturals, FiniteSets

CONSTANTS Host,         \* the forms explored
          Row,
          None,
          MaxOpenings,  \* bound: openings of the form (clicks, for switches)
          MaxMade,      \* bound: quick creations
          MaxMissed     \* bound: answers lost, reads that fail

VARIABLES
    host,
    open, row, draft, touched,  \* the form: its row, its fields, those typed in
    opening,                    \* number of the current opening
    making, made,               \* value of link that is being created; how many were
    stored,                     \* server
    seen,                       \* the rows as the page knows them
    busy,                       \* the page shows no rows
    saves, reads,               \* requests
    missed, kept, crossed, late \* faults; openings committed; crossings

formvars == <<host, open, row, draft, touched, opening, making, made, stored, seen,
              busy, saves, reads, missed, kept, crossed, late>>

Lists   == {"contacts", "companies", "leads", "deals"}
Records == {"contact", "company", "lead", "deal"}
Configs == {"whatsapp_config", "lead_config", "ai_config"}
Deals   == {"deals", "deal", "dashboard"}
Field   == {"note", "link", "unshown"}
Blank   == [f \in Field |-> None]
Default == <<None, 0>>                  \* what an input shows of no row
Mine    == CHOOSE r \in Row : TRUE      \* the row of a record page, or the user

Linked  == {"contacts", "contact", "deals", "deal", "dashboard"}
\* The fields of a form.
FieldsOf(h) ==
    IF h \in Linked \cup {"convert", "profile", "preferences", "whatsapp_config", "ai_config",
                         "branding"}
    THEN {"note", "link"} ELSE {"note"}

-----------------------------------------------------------------------------
\* The fields after a reset: `data' is the row given, None for a new one.

MutantContactReset(d, data) ==        \* no else for a contact without a company
    IF data = None THEN Blank
    ELSE [data EXCEPT !.link = IF @ = None THEN d.link ELSE @]

\* components/forms/contact-form.tsx
ContactReset(d, data) == IF data = None THEN Blank ELSE data

\* components/forms/company-form.tsx
CompanyReset(d, data) == IF data = None THEN Blank ELSE [Blank EXCEPT !.note = data.note]

\* components/forms/lead-form.tsx
LeadReset(d, data) == IF data = None THEN Blank ELSE [Blank EXCEPT !.note = data.note]

\* components/forms/deal-form.tsx: a deal without a contact leaves the one
\* that is there, and of the close date only the day is taken.
DealReset(d, data) ==
    IF data = None THEN Blank
    ELSE [note |-> data.note, link |-> IF data.link = None THEN d.link ELSE data.link,
          unshown |-> None]

\* The dialogs that convert a lead or configure an integration are never reset.
Reset(d, data) ==
    CASE host \in {"contacts", "contact"}           -> ContactReset(d, data)
      [] host \in {"companies", "company"}          -> CompanyReset(d, data)
      [] host \in {"leads", "lead"}                 -> LeadReset(d, data)
      [] host \in Deals                            -> DealReset(d, data)
      [] OTHER                                      -> d

-----------------------------------------------------------------------------
\* The host opens and closes the form.

\* openCreate, openEdit
Opened(r) ==
    /\ ~open /\ opening < MaxOpenings /\ opening' = opening + 1
    /\ open' = TRUE /\ row' = r /\ touched' = {}
    /\ draft' = Reset(draft, IF r = None THEN None ELSE seen[r])
    /\ UNCHANGED <<host, making, made, stored, seen, busy, saves, reads, missed, kept, crossed, late>>

Open == \/ host \in Lists /\ Opened(None)
        \/ host = "dashboard" /\ ~busy /\ Opened(None)
        \/ host \in Lists \cup {"convert"} /\ ~busy /\ \E r \in Row : Opened(r)
        \/ host \in Records /\ ~busy /\ Opened(Mine)

\* What a closed form is left with.  A page of a list then gives no row.
Shut ==
    /\ open' = FALSE /\ touched' = {}
    /\ row' = IF host \in Records THEN row ELSE None
    /\ draft' = Reset(draft, IF host \in Records /\ row # None THEN seen[row] ELSE None)

\* onClose
Close == /\ open /\ host \notin {"profile", "preferences", "branding"} /\ Shut
         /\ UNCHANGED <<host, opening, making, made, stored, seen, busy, saves, reads, missed,
                        kept, crossed, late>>

-----------------------------------------------------------------------------
\* The forms.

Type(f) ==
    /\ open /\ draft[f] # <<row, opening>>
    /\ draft' = [draft EXCEPT ![f] = <<row, opening>>] /\ touched' = touched \cup {f}
    /\ UNCHANGED <<host, open, row, opening, making, made, stored, seen, busy, saves, reads,
                   missed, kept, crossed, late>>

Clear(f) ==
    /\ open /\ draft[f] # None
    /\ draft' = [draft EXCEPT ![f] = None] /\ touched' = touched \cup {f}
    /\ UNCHANGED <<host, open, row, opening, making, made, stored, seen, busy, saves, reads,
                   missed, kept, crossed, late>>

MutantSaving == saves # {}            \* the handler does not wait for the record

\* `loading' of the form, while onSubmit runs: on three of the record pages it
\* ends with the record read again.
Saving == saves # {} \/ (host \in {"contact", "company", "deal"} /\ reads # {})

\* An empty field is not sent: `x || undefined'.
Payload(d) == [f \in {g \in FieldsOf(host) : d[g] # None} |-> d[f]]

Request(sent) == [row |-> row, sent |-> sent, opening |-> opening, done |-> FALSE,
                  touched |-> touched, before |-> Blank]

Save(sent) ==
    /\ saves' = saves \cup {Request(sent)}
    /\ UNCHANGED <<host, open, row, draft, touched, opening, making, made, stored, seen, busy,
                   reads, missed, kept, crossed, late>>

\* handleSubmit of each form; the button is disabled by `loading'.
ContactSubmit == host \in {"contacts", "contact"} /\ open /\ ~Saving /\ Save(Payload(draft))
CompanySubmit == host \in {"companies", "company"} /\ open /\ ~Saving /\ Save(Payload(draft))
LeadSubmit    == host \in {"leads", "lead"} /\ open /\ ~Saving /\ Save(Payload(draft))

\* A day is sent as its midnight, whatever time of day the deal had.
DealPayload == [f \in DOMAIN Payload(draft) \cup {g \in {"unshown"} : draft.note # None}
                   |-> IF f = "unshown" THEN None ELSE draft[f]]
DealSubmit  == host \in Deals /\ open /\ ~Saving /\ Save(DealPayload)

\* The inputs.  Where there is a link, it is the one that is emptied.
ContactFields == /\ host \in {"contacts", "contact"}
                 /\ Clear("link") \/ \E f \in FieldsOf(host) : Type(f)
CompanyFields == host \in {"companies", "company"} /\ (Type("note") \/ Clear("note"))
LeadFields    == host \in {"leads", "lead"} /\ (Type("note") \/ Clear("note"))
DealFields    == /\ host \in Deals
                 /\ Clear("link") \/ \E f \in FieldsOf(host) : Type(f)

\* A new contact or company made inside the form (deal-form.tsx, and
\* company-async-select.tsx in the contact form), chosen when it is there.
QuickCreate ==
    /\ host \in Linked /\ open /\ making = None /\ making' = <<row, opening>>
    /\ made < MaxMade /\ made' = made + 1
    /\ UNCHANGED <<host, open, row, draft, touched, opening, stored, seen, busy, saves, reads,
                   missed, kept, crossed, late>>

QuickCreated ==
    /\ making # None /\ making' = None
    /\ \/ UNCHANGED <<draft, touched, late>>                     \* it failed
       \/ host = "dashboard" /\ busy /\ UNCHANGED <<draft, touched, late>>
       \/ /\ ~(host = "dashboard" /\ busy)
          /\ draft' = [draft EXCEPT !.link = making]
          /\ touched' = IF open THEN touched \cup {"link"} ELSE touched
          /\ late' = (late \/ ~open \/ making # <<row, opening>>)
    /\ UNCHANGED <<host, open, row, opening, made, stored, seen, busy, saves, reads, missed,
                   kept, crossed>>

-----------------------------------------------------------------------------
\* The requests.

\* A column that is not sent keeps what it has (COALESCE); but
\* update_whatsapp_config and update_lead_assignment_config replace the record.
Kept(data) == IF host \in {"whatsapp_config", "lead_config"} THEN Blank ELSE data

Commit(c) ==
    /\ ~c.done /\ saves' = (saves \ {c}) \cup {[c EXCEPT !.done = TRUE]}
    /\ stored' = IF c.row = None \/ host = "convert" THEN stored
                 ELSE [stored EXCEPT ![c.row] =
                          [f \in Field |-> IF f \in DOMAIN c.sent THEN c.sent[f]
                                          ELSE Kept(stored[c.row])[f]]]
    /\ kept' = kept \cup {c.opening}
    /\ UNCHANGED <<host, open, row, draft, touched, opening, making, made, seen, busy, reads,
                   missed, crossed, late>>

Refused(c) ==
    /\ c.done => missed < MaxMissed
    /\ missed' = IF c.done THEN missed + 1 ELSE missed
    /\ saves' = saves \ {c}

\* A refusal, or an answer that is lost: an error toast.
Refuse(c) ==
    /\ host # "preferences" /\ Refused(c)
    /\ UNCHANGED <<host, open, row, draft, touched, opening, making, made, stored, seen, busy,
                   reads, kept, crossed, late>>

Reread ==
    /\ reads' = reads \cup {[opening |-> opening, got |-> None]}
    /\ crossed' = (crossed \/ reads # {})

\* handleFormSubmit of the pages of a list, handleFormSuccess of the leads: the
\* form is closed, whatever it shows by then, and the list fetched again.
ListSaved(c) ==
    /\ host \in Lists /\ c.done /\ saves' = saves \ {c}
    /\ Shut /\ busy' = TRUE /\ Reread
    /\ UNCHANGED <<host, opening, making, made, stored, seen, missed, kept, late>>

\* handleUpdate of the pages of a record, onSuccess of the lead.
RecordSaved(c) ==
    /\ host \in Records /\ c.done /\ saves' = saves \ {c}
    /\ Shut /\ Reread
    /\ UNCHANGED <<host, opening, making, made, stored, seen, busy, missed, kept, late>>

\* handleCreateDeal: the dashboard becomes a skeleton, and the form is unmounted.
DashboardSaved(c) ==
    /\ host = "dashboard" /\ c.done /\ saves' = saves \ {c}
    /\ open' = FALSE /\ row' = None /\ touched' = {} /\ draft' = Blank
    /\ busy' = TRUE /\ Reread
    /\ UNCHANGED <<host, opening, making, made, stored, seen, missed, kept, late>>

\* The server reads the rows.
Read ==
    \E l \in reads :
        /\ l.got = None /\ reads' = (reads \ {l}) \cup {[l EXCEPT !.got = stored]}
        /\ UNCHANGED <<host, open, row, draft, touched, opening, making, made, stored, seen, busy,
                       saves, missed, kept, crossed, late>>

\* They arrive.  For a record this is another object: an open form loses what
\* was typed.
Arrive ==
    \E l \in reads :
        /\ host \notin Configs \cup {"branding"}
        /\ l.got # None /\ reads' = reads \ {l} /\ seen' = l.got
        /\ busy' = FALSE
        /\ IF host \in Records
           THEN /\ draft' = Reset(draft, l.got[Mine]) /\ touched' = {}
           ELSE UNCHANGED <<draft, touched>>
        /\ UNCHANGED <<host, open, row, opening, making, made, stored, saves, missed, kept,
                       crossed, late>>

\* A record that cannot be read again: a toast, or, for a lead, the list.
ReadFails ==
    \E l \in reads :
        /\ host \in Records /\ missed < MaxMissed /\ missed' = missed + 1
        /\ reads' = reads \ {l}
        /\ IF host = "lead" THEN open' = FALSE /\ busy' = TRUE ELSE UNCHANGED <<open, busy>>
        /\ UNCHANGED <<host, row, draft, touched, opening, making, made, stored, seen, saves,
                       kept, crossed, late>>

-----------------------------------------------------------------------------
\* components/forms/convert-lead-dialog.tsx on the leads: note is the title of
\* the deal, link the pipeline.

\* The pipelines arrive, and the first is the default if none was chosen.
ConvertPipelines ==
    /\ host = "convert" /\ row # None /\ draft.link = None
    /\ draft' = [draft EXCEPT !.link = Default]
    /\ UNCHANGED <<host, open, row, touched, opening, making, made, stored, seen, busy, saves,
                   reads, missed, kept, crossed, late>>

ConvertFields == host = "convert" /\ (Type("note") \/ Clear("note") \/ (draft.link # None /\ Type("link")))

\* handleConvert
ConvertSubmit == /\ host = "convert" /\ open /\ ~Saving /\ draft.link # None
                 /\ Save(Payload(draft))

\* handleConvertSuccess
Converted(c) ==
    /\ host = "convert" /\ c.done /\ saves' = saves \ {c}
    /\ Shut /\ busy' = TRUE /\ Reread
    /\ UNCHANGED <<host, opening, making, made, stored, seen, missed, kept, late>>

-----------------------------------------------------------------------------
\* app/settings/page.tsx: the dialogs of WhatsApp (link is its token), of the
\* assignment of leads and of the AI (link is its key).  The fields are state of
\* the page: those of the last two begin with defaults.  Opening a dialog asks
\* for the configuration, which has no secret.

ConfigOpen ==
    /\ host \in Configs /\ ~open /\ opening < MaxOpenings /\ opening' = opening + 1
    /\ open' = TRUE /\ row' = Mine /\ touched' = {}
    /\ reads' = reads \cup {[opening |-> opening + 1, got |-> None]}
    /\ crossed' = (crossed \/ reads # {})
    /\ UNCHANGED <<host, draft, making, made, stored, seen, busy, saves, missed, kept, late>>

\* What such a record shows when it is read.
Filled == IF host = "branding" THEN {"note", "link"} ELSE {"note"}

\* fetchWhatsAppConfig, fetchLeadConfig, fetchAiConfig and fetchBranding: the
\* answer is put into the fields, whatever was typed there.
ConfigArrives ==
    \E l \in reads :
        /\ host \in Configs \cup {"branding"}
        /\ l.got # None /\ reads' = reads \ {l} /\ seen' = l.got
        /\ draft' = [f \in Field |-> IF f \in Filled THEN l.got[Mine][f] ELSE draft[f]]
        /\ touched' = touched \ Filled
        /\ UNCHANGED <<host, open, row, opening, making, made, stored, busy, saves, missed, kept,
                       crossed, late>>

\* It cannot be read: the fields stay as they are, and nobody is told.
ConfigMissing ==
    \E l \in reads :
        /\ host \in Configs \cup {"branding"} /\ missed < MaxMissed /\ missed' = missed + 1
        /\ reads' = reads \ {l} /\ late' = TRUE
        /\ UNCHANGED <<host, open, row, draft, touched, opening, making, made, stored, seen, busy,
                       saves, kept, crossed>>

\* The button is disabled while the configuration is saved, not while it is read.
ConfigSubmit ==
    /\ open /\ ~Saving
    /\ saves' = saves \cup {Request(Payload(draft))} /\ late' = (late \/ reads # {})
    /\ UNCHANGED <<host, open, row, draft, touched, opening, making, made, stored, seen, busy,
                   reads, missed, kept, crossed>>

ConfigSaved(c) ==
    /\ host \in Configs /\ c.done /\ saves' = saves \ {c} /\ Shut
    /\ UNCHANGED <<host, opening, making, made, stored, seen, busy, reads, missed, kept, crossed,
                   late>>

\* The token is required; note is the phone number, which is not (the two ids
\* are, and like it otherwise).
WhatsAppConfig == /\ host = "whatsapp_config"
                  /\ \/ \E f \in FieldsOf(host) : Type(f) \/ Clear(f)
                     \/ draft.link # None /\ ConfigSubmit

\* The other two dialogs send whatever they show.
LeadConfig == host = "lead_config" /\ (Type("note") \/ ConfigSubmit)

AiConfig == /\ host = "ai_config"
            /\ Type("note") \/ Type("link") \/ Clear("link") \/ ConfigSubmit

\* components/admin/branding-section.tsx: a form on the page, filled in when its
\* record arrives, and again after each save.  link is the colours, which begin
\* with defaults.
BrandingForm == /\ host = "branding" /\ opening <= MaxOpenings
                /\ Type("note") \/ Clear("note") \/ Type("link") \/ ConfigSubmit

BrandingSaved(c) ==
    /\ host = "branding" /\ c.done /\ saves' = saves \ {c} /\ Reread
    /\ opening' = opening + 1
    /\ UNCHANGED <<host, open, row, draft, touched, making, made, stored, seen, busy, missed,
                   kept, late>>

-----------------------------------------------------------------------------
\* components/settings/profile-section.tsx.  The fields are required.  They
\* follow the user, but only from the first change on: they begin empty.

ProfileFields == host = "profile" /\ \E f \in FieldsOf(host) : Type(f) \/ Clear(f)

ProfileSubmit == /\ host = "profile" /\ ~Saving /\ None \notin {draft[f] : f \in FieldsOf(host)}
                 /\ Save(Payload(draft))

\* updateUser(updated)
ProfileSaved(c) ==
    /\ host = "profile" /\ c.done /\ saves' = saves \ {c}
    /\ seen' = stored /\ draft' = stored[Mine] /\ touched' = {}
    /\ opening' = IF opening < MaxOpenings THEN opening + 1 ELSE opening
    /\ UNCHANGED <<host, open, row, making, made, stored, busy, reads, missed, kept, crossed, late>>

-----------------------------------------------------------------------------
\* components/settings/notifications-section.tsx: two of its switches.

\* The preferences arrive; or they do not, and the defaults stay.
PreferencesArrive ==
    /\ host = "preferences" /\ busy /\ busy' = FALSE
    /\ \/ draft' = stored[Mine] /\ UNCHANGED missed
       \/ missed < MaxMissed /\ missed' = missed + 1 /\ UNCHANGED draft
    /\ UNCHANGED <<host, open, row, touched, opening, making, made, stored, seen, saves, reads,
                   kept, crossed, late>>

\* handleNotifToggle: the switch is set at once.
PreferenceToggle ==
    \E f \in FieldsOf(host) :
        /\ host = "preferences" /\ ~busy /\ opening < MaxOpenings
        /\ opening' = opening + 1
        /\ draft' = [draft EXCEPT ![f] = <<row, opening + 1>>]
        /\ saves' = saves \cup {[row |-> row, sent |-> [g \in {f} |-> <<row, opening + 1>>],
                                 opening |-> opening + 1, done |-> FALSE,
                                 touched |-> {f}, before |-> draft]}
        /\ crossed' = (crossed \/ \E c \in saves : f \in DOMAIN c.sent)
        /\ UNCHANGED <<host, open, row, touched, making, made, stored, seen, busy, reads, missed,
                       kept, late>>

PreferenceSaved(c) ==
    /\ host = "preferences" /\ c.done /\ saves' = saves \ {c}
    /\ UNCHANGED <<host, open, row, draft, touched, opening, making, made, stored, seen, busy,
                   reads, missed, kept, crossed, late>>

MutantPreferenceFails(c) ==           \* all switches go back to those of the click
    /\ host = "preferences" /\ Refused(c) /\ draft' = c.before
    /\ UNCHANGED <<host, open, row, touched, opening, making, made, stored, seen, busy, reads,
                   kept, crossed, late>>

\* setter(current): the switch goes back to what it was.
PreferenceFails(c) ==
    /\ host = "preferences" /\ Refused(c)
    /\ draft' = [f \in Field |-> IF f \in DOMAIN c.sent THEN c.before[f] ELSE draft[f]]
    /\ UNCHANGED <<host, open, row, touched, opening, making, made, stored, seen, busy, reads,
                   kept, crossed, late>>

-----------------------------------------------------------------------------
\* What the fields hold before any record is read.
Begun ==
    CASE host \in {"lead_config", "ai_config"} -> [Blank EXCEPT !.note = Default]
      [] host = "branding"                    -> [Blank EXCEPT !.link = Default]
      [] OTHER                                -> Blank

\* A loaded page with its form closed; the two sections of the settings and that
\* of the branding have no dialog, and the preferences and the record of the
\* branding are still to come.
FormsInit ==
    /\ host \in Host
    /\ \E linked \in {{}, {Mine}, Row} :
          /\ linked # {} => host \in Linked
          /\ stored = [r \in Row |->
                 [note |-> <<r, 0>>,
                  link |-> IF r \in linked \/ host \in {"profile", "preferences", "branding"}
                           THEN <<r, 0>> ELSE None,
                  unshown |-> IF r = Mine /\ host \in {"deals", "deal", "lead_config"}
                              THEN <<r, 0>> ELSE None]]
    /\ seen = stored
    /\ open = (host \in {"profile", "preferences", "branding"}) /\ busy = (host = "preferences")
    /\ row = IF host \in Records \cup {"profile", "preferences", "branding"} THEN Mine ELSE None
    /\ opening = IF host \in {"profile", "branding"} THEN 1 ELSE 0
    /\ draft = Begun /\ touched = {}
    /\ reads = IF host = "branding" THEN {[opening |-> 1, got |-> None]} ELSE {}
    /\ making = None /\ made = 0 /\ saves = {}
    /\ missed = 0 /\ kept = {} /\ crossed = FALSE /\ late = FALSE

FormsNext ==
    \/ Open \/ Close \/ QuickCreate \/ QuickCreated
    \/ ContactFields \/ CompanyFields \/ LeadFields \/ DealFields
    \/ ContactSubmit \/ CompanySubmit \/ LeadSubmit \/ DealSubmit
    \/ ConvertPipelines \/ ConvertFields \/ ConvertSubmit
    \/ ConfigOpen \/ ConfigArrives \/ ConfigMissing \/ WhatsAppConfig \/ LeadConfig \/ AiConfig
    \/ BrandingForm
    \/ ProfileFields \/ ProfileSubmit \/ PreferencesArrive \/ PreferenceToggle
    \/ \E c \in saves : \/ Commit(c) \/ Refuse(c) \/ ListSaved(c) \/ RecordSaved(c)
                        \/ DashboardSaved(c) \/ Converted(c) \/ ProfileSaved(c)
                        \/ ConfigSaved(c) \/ BrandingSaved(c)
                        \/ PreferenceSaved(c) \/ PreferenceFails(c)
    \/ Read \/ Arrive \/ ReadFails

FormsSpec == FormsInit /\ [][FormsNext]_formvars

-----------------------------------------------------------------------------
\* The contact of a deal on its own page, and a secret, are left over from an
\* opening before.
Leaves(f) == host \in {"deal", "whatsapp_config", "ai_config"} /\ f = "link"

\* What a form sends is the row's own, was typed in this opening, or typed for
\* this row in an earlier one that was saved: nothing is left of an opening that
\* was cancelled, or of another row.  (Not in the dialog that converts a lead,
\* nor after a late quick creation, a configuration that was saved before it was
\* read, or one that could not be read.  The midnight of a date is of no row.)
NoLeftovers ==
    host # "convert" /\ ~late =>
        \A c \in saves : \A f \in DOMAIN c.sent \ {"unshown"} :
            \/ c.sent[f] = <<c.row, c.opening>>
            \/ c.row # None /\ c.sent[f][1] = c.row /\ c.sent[f][2] \in {0} \cup kept
            \/ Leaves(f)

\* An edit changes only what was typed, although the form sends every field: it
\* does not bring back what an earlier edit has replaced.  (A lead's page does
\* not wait for the lead to be read again.)  Only what no form shows is lost:
\* the time of day of a deal's close date, which becomes midnight, and the
\* territories of the assignment of leads.
UntouchedFieldsKept ==
    [][\A c \in saves :
           Commit(c) /\ c.row # None /\ host # "lead" /\ missed = 0 /\ ~crossed /\ ~late =>
               \A f \in Field \ c.touched :
                   \/ stored'[c.row][f] = stored[c.row][f] \/ Leaves(f)
                   \/ f = "unshown" /\ stored'[c.row][f] = None]_formvars

\* With no request under way and none that failed, an open form shows its row as
\* the server has it, save for what was typed; and the switches show what is set.
OpenFormIsCurrent ==
    /\ open /\ row # None /\ ~busy /\ saves = {} /\ reads = {} /\ missed = 0
    /\ ~crossed /\ ~late /\ host \notin {"convert", "profile"}
    => \A f \in FieldsOf(host) \ touched : draft[f] = stored[row][f] \/ Leaves(f)
=============================================================================
