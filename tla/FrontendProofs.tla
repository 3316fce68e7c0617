--------------------------- MODULE FrontendProofs ---------------------------
(***************************************************************************)
(* Proofs about the forms of the frontend, in the specification of the run *)
(* that has the pages and the forms, for every set of forms and rows and   *)
(* every bound.                                                            *)
(*                                                                         *)
(* The invariant says whose values a form, its rows and its requests hold  *)
(* (Owned), and that they are what the server has, as long as nothing was  *)
(* lost and no two reads crossed (Fresh).                                  *)
(***************************************************************************)
EXTENDS Frontend, TLAPS

Fields == [F!Field -> Value]
Sent   == UNION {[D -> Value] : D \in SUBSET F!Field}

SaveRequests == [row : Row \cup {None}, sent : Sent, opening : Nat, done : BOOLEAN,
                 touched : SUBSET F!Field, before : Fields]
ReadRequests == [opening : Nat, got : {None} \cup [Row -> Fields]]

(* The types of what a form and its host remember.                           *)
FormTypes ==
    /\ {open, busy, crossed, late} \subseteq BOOLEAN
    /\ row \in Row \cup {None} /\ making \in Value
    /\ opening \in Nat /\ made \in Nat /\ missed \in Nat /\ kept \subseteq Nat
    /\ draft \in Fields /\ touched \subseteq F!Field
    /\ stored \in [Row -> Fields] /\ seen \in [Row -> Fields]
    /\ saves \subseteq SaveRequests /\ reads \subseteq ReadRequests

PageHosts == F!Lists \cup F!Records \cup {"dashboard"}
Fetched   == F!Configs \cup {"branding"}
USE DEF PageHosts, Fetched, F!Lists, F!Records, F!Configs

-----------------------------------------------------------------------------
(* The steps of a form, with what their guards say of the host.              *)
Opening == \E r \in Row \cup {None} :
    /\ F!Opened(r) /\ host \in PageHosts \cup {"convert"}
    /\ r # None => ~busy
    /\ host \in F!Records => r = F!Mine
    /\ host = "dashboard" => r = None

Typing == host # "preferences" /\ \E f \in F!Field : F!Type(f) \/ F!Clear(f)

Sendable == IF host \in F!Deals THEN F!DealPayload ELSE F!Payload(draft)

Submitting ==
    /\ host \in PageHosts \cup {"convert", "profile"} /\ ~F!Saving
    /\ host = "profile" \/ open
    /\ F!Save(Sendable)

ConfigSubmitting == host \in Fetched /\ F!ConfigSubmit

(* The fields a host shows are fields, and none of them is `unshown'.        *)
LEMMA HostFields == F!FieldsOf(host) \subseteq F!Field \ {"unshown"}
BY DEF F!FieldsOf, F!Field

(* Every step of FormsNext is one of these.                                  *)
LEMMA Steps ==
    ASSUME F!FormsNext
    PROVE  \/ Opening \/ F!Close \/ F!QuickCreate \/ F!QuickCreated
           \/ Typing \/ F!ConvertPipelines \/ Submitting
           \/ F!ConfigOpen \/ F!ConfigArrives \/ F!ConfigMissing \/ ConfigSubmitting
           \/ F!PreferencesArrive \/ F!PreferenceToggle
           \/ \E c \in saves : \/ F!Commit(c) \/ F!Refuse(c) \/ F!ListSaved(c) \/ F!RecordSaved(c)
                               \/ F!DashboardSaved(c) \/ F!Converted(c) \/ F!ProfileSaved(c)
                               \/ F!ConfigSaved(c) \/ F!BrandingSaved(c)
                               \/ F!PreferenceSaved(c) \/ F!PreferenceFails(c)
           \/ F!Read \/ F!Arrive \/ F!ReadFails
<1>0. F!Mine \in Row
  BY RowAssumption DEF F!Mine
<1>1. F!Open => Opening
  BY <1>0 DEF F!Open, Opening
<1>2. F!ContactFields \/ F!CompanyFields \/ F!LeadFields \/ F!DealFields \/ F!ConvertFields
          \/ F!ProfileFields => Typing
  BY DEF F!ContactFields, F!CompanyFields, F!LeadFields, F!DealFields, F!ConvertFields,
         F!ProfileFields, F!Deals, F!FieldsOf,
         Typing, F!Field
<1>3. F!ContactSubmit \/ F!CompanySubmit \/ F!LeadSubmit \/ F!DealSubmit \/ F!ConvertSubmit
          \/ F!ProfileSubmit => Submitting
  BY DEF F!ContactSubmit, F!CompanySubmit, F!LeadSubmit, F!DealSubmit, F!ConvertSubmit,
         F!ProfileSubmit, F!Deals, Sendable,
         Submitting
<1>4. F!WhatsAppConfig \/ F!LeadConfig \/ F!AiConfig \/ F!BrandingForm
          => Typing \/ ConfigSubmitting
  BY HostFields
     DEF F!WhatsAppConfig, F!LeadConfig, F!AiConfig, F!BrandingForm, Typing,
         ConfigSubmitting, F!Field
<1> QED BY <1>1, <1>2, <1>3, <1>4 DEF F!FormsNext

-----------------------------------------------------------------------------
(* None is no row and no record, and an empty form is a form.                *)
LEMMA RowFacts == F!Mine \in Row /\ F!Mine # None /\ None \notin Fields /\ F!Blank \in Fields
BY RowAssumption DEF F!Mine, Fields, F!Blank, Value

(* What a form holds after a reset: nothing for a new row, and the fields of *)
(* the row that is given, save for a deal without a contact.                 *)
LEMMA ResetFacts ==
    ASSUME NEW d \in Fields, NEW data \in Fields \cup {None}
    PROVE  /\ F!Reset(d, data) \in Fields
           /\ host \notin PageHosts => F!Reset(d, data) = d
           /\ host \in PageHosts /\ data = None => F!Reset(d, data) = F!Blank
           /\ host \in PageHosts /\ data # None =>
                  \A f \in F!FieldsOf(host) :
                      \/ F!Reset(d, data)[f] = data[f]
                      \/ /\ f = "link" /\ host \in F!Deals
                         /\ data[f] = None /\ F!Reset(d, data)[f] = d[f]
<1> DEFINE value == F!Reset(d, data)
<1>1. CASE host \in {"contacts", "contact"}
  <2>1. value = IF data = None THEN F!Blank ELSE data
    BY <1>1 DEF F!Reset, F!ContactReset, F!Deals
  <2> QED BY <2>1, <1>1, RowFacts DEF F!Deals
<1>2. CASE host \in {"companies", "company", "leads", "lead"}
  <2>1. value = IF data = None THEN F!Blank ELSE [F!Blank EXCEPT !.note = data.note]
    BY <1>2 DEF F!Reset, F!CompanyReset, F!LeadReset, F!Deals
  <2>2. F!FieldsOf(host) = {"note"}
    BY <1>2 DEF F!FieldsOf, F!Linked
  <2>3. data # None => value \in Fields /\ value["note"] = data["note"]
    BY <2>1, RowFacts DEF Fields, F!Field, F!Blank
  <2> QED BY <2>1, <2>2, <2>3, <1>2, RowFacts DEF F!Deals
<1>3. CASE host \in F!Deals
  <2> DEFINE taken == [note |-> data.note, link |-> IF data.link = None THEN d.link ELSE data.link,
                       unshown |-> None]
  <2>1. value = IF data = None THEN F!Blank ELSE taken
    BY <1>3 DEF F!Reset, F!DealReset, F!Deals
  <2>2. host \in PageHosts
    BY <1>3 DEF F!Deals
  <2>3. CASE data = None
    BY <2>1, <2>2, <2>3, RowFacts
  <2>4. CASE data # None
    <3>1. value = taken /\ data \in Fields
      BY <2>1, <2>4
    <3>2. value \in Fields
      BY <3>1 DEF Fields, F!Field, Value
    <3>3. \A f \in F!Field \ {"unshown"} : \/ value[f] = data[f]
                                           \/ f = "link" /\ data[f] = None /\ value[f] = d[f]
      BY <3>1 DEF Fields, F!Field
    <3> QED BY <3>2, <3>3, <2>2, <2>4, <1>3, HostFields
  <2> QED BY <2>3, <2>4
<1>4. CASE host \notin PageHosts
  BY <1>4 DEF F!Reset, F!Deals
<1> QED BY <1>1, <1>2, <1>3, <1>4 DEF F!Deals

-----------------------------------------------------------------------------
(* What a form can send.                                                     *)
Sending(s) ==
    /\ s \in Sent
    /\ {g \in F!FieldsOf(host) : draft[g] # None} \subseteq DOMAIN s
    /\ DOMAIN s \subseteq F!FieldsOf(host) \cup {"unshown"}
    /\ \A f \in DOMAIN s \ {"unshown"} : s[f] = draft[f] /\ draft[f] # None
    /\ "unshown" \in DOMAIN s => s["unshown"] = None

(* A payload has the fields that are not empty, and a deal its midnight.     *)
LEMMA PayloadFacts == ASSUME FormTypes PROVE Sending(F!Payload(draft)) /\ Sending(Sendable)
<1> DEFINE D == {g \in F!FieldsOf(host) : draft[g] # None}
           E == D \cup {g \in {"unshown"} : draft.note # None}
<1>1. "unshown" \notin D /\ D \subseteq F!Field /\ E \subseteq F!Field
  BY HostFields DEF F!Field
<1>2. F!Payload(draft) = [f \in D |-> draft[f]]
  BY DEF F!Payload
<1>3. \A f \in F!Field : draft[f] \in Value
  BY DEF FormTypes, Fields
<1>4. Sending(F!Payload(draft))
  <2>1. F!Payload(draft) \in [D -> Value]
    BY <1>1, <1>2, <1>3
  <2>2. F!Payload(draft) \in Sent
    BY <1>1, <2>1 DEF Sent
  <2> QED BY <1>1, <1>2, <2>2 DEF Sending
<1>5. Sending(F!DealPayload)
  <2>1. F!DealPayload = [f \in E |-> IF f = "unshown" THEN None ELSE draft[f]]
    BY <1>2 DEF F!DealPayload
  <2>2. F!DealPayload \in [E -> Value]
    BY <1>1, <1>3, <2>1 DEF Value
  <2>3. F!DealPayload \in Sent
    BY <1>1, <2>2 DEF Sent
  <2> QED BY <1>1, <2>1, <2>3 DEF Sending
<1> QED BY <1>4, <1>5 DEF Sendable

(* A request keeps the types.                                                *)
LEMMA RequestType ==
    ASSUME FormTypes, NEW sent \in Sent
    PROVE  F!Request(sent) \in SaveRequests
BY RowFacts DEF F!Request, SaveRequests, FormTypes

(* A form that is submitted makes one request, of what it holds.             *)
LEMMA Submitted ==
    ASSUME FormTypes, Submitting \/ ConfigSubmitting
    PROVE  \E c \in SaveRequests :
               /\ saves' = saves \cup {c} /\ saves = {} /\ ~c.done
               /\ c.row = row /\ c.opening = opening /\ c.touched = touched /\ Sending(c.sent)
<1>1. PICK s \in Sent : saves' = saves \cup {F!Request(s)} /\ Sending(s)
  BY PayloadFacts DEF Submitting, ConfigSubmitting, F!Save, F!ConfigSubmit, Sending
<1>2. F!Request(s) \in SaveRequests
  BY <1>1, RequestType
<1>3. saves = {}
  BY DEF Submitting, ConfigSubmitting, F!ConfigSubmit, F!Saving
<1> QED BY <1>1, <1>2, <1>3 DEF F!Request

(* What a form that was shut is left with.                                   *)
LEMMA ShutTypes ==
    ASSUME FormTypes, F!Shut
    PROVE  /\ open' = FALSE /\ touched' = {} /\ row' \in Row \cup {None} /\ draft' \in Fields
           /\ host \in F!Records => row' = row
           /\ host \notin F!Records => row' = None
           /\ host \in PageHosts \ F!Records => draft' = F!Blank
           /\ host \notin PageHosts => draft' = draft
<1> DEFINE given == IF host \in F!Records /\ row # None THEN seen[row] ELSE None
<1>1. given \in Fields \cup {None}
  BY DEF FormTypes
<1>2. draft' = F!Reset(draft, given) /\ draft \in Fields
  BY DEF F!Shut, FormTypes
<1>3. host \notin F!Records => given = None
  OBVIOUS
<1>4. /\ draft' \in Fields
      /\ host \notin PageHosts => draft' = draft
      /\ host \in PageHosts /\ given = None => draft' = F!Blank
  <2> HIDE DEF given
  <2> QED BY <1>1, <1>2, ResetFacts
<1>5. /\ open' = FALSE /\ touched' = {}
      /\ row' = IF host \in F!Records THEN row ELSE None
  BY DEF F!Shut
<1> QED BY <1>3, <1>4, <1>5 DEF FormTypes

(* A read that begins keeps the types.                                       *)
LEMMA RereadTypes ==
    ASSUME FormTypes, F!Reread
    PROVE  reads' \subseteq ReadRequests /\ crossed' \in BOOLEAN
BY DEF FormTypes, F!Reread, ReadRequests

(* A save that is done is a save.                                            *)
LEMMA CommittedType ==
    ASSUME NEW c \in SaveRequests
    PROVE  [c EXCEPT !.done = TRUE] \in SaveRequests
BY DEF SaveRequests

(* What the row of a save is when it is committed.                           *)
Written(c) == [f \in F!Field |-> IF f \in DOMAIN c.sent THEN c.sent[f]
                                 ELSE F!Kept(stored[c.row])[f]]

(* The types are inductive, and a form never changes its host.               *)
LEMMA TypesStep ==
    ASSUME FormTypes, F!FormsNext
    PROVE  FormTypes' /\ host' = host
<1>1. CASE Opening
  <2>1. PICK r \in Row \cup {None} : F!Opened(r)
    BY <1>1 DEF Opening
  <2> DEFINE given == IF r = None THEN None ELSE seen[r]
  <2>2. given \in Fields \cup {None}
    BY DEF FormTypes
  <2>3. draft' = F!Reset(draft, given) /\ draft \in Fields
    BY <2>1 DEF F!Opened, FormTypes
  <2>4. draft' \in Fields
    <3> HIDE DEF given
    <3> QED BY <2>2, <2>3, ResetFacts
  <2> QED BY <2>1, <2>4 DEF F!Opened, FormTypes
<1>2. CASE F!Close
  BY <1>2, ShutTypes DEF F!Close, FormTypes
<1>3. CASE F!QuickCreate
  BY <1>3 DEF F!QuickCreate, FormTypes, Value
<1>4. CASE F!QuickCreated
  <2>1. draft' \in Fields
    BY <1>4 DEF F!QuickCreated, FormTypes, Fields
  <2>2. touched' \subseteq F!Field
    BY <1>4 DEF F!QuickCreated, FormTypes, F!Field
  <2>3. late' \in BOOLEAN
    BY <1>4 DEF F!QuickCreated, FormTypes
  <2>4. making' \in Value
    BY <1>4 DEF F!QuickCreated, Value
  <2> QED BY <1>4, <2>1, <2>2, <2>3, <2>4 DEF F!QuickCreated, FormTypes
<1>5. CASE Typing
  <2>1. PICK f \in F!Field : F!Type(f) \/ F!Clear(f)
    BY <1>5 DEF Typing
  <2>2. draft' \in Fields
    BY <2>1 DEF F!Type, F!Clear, FormTypes, Fields, Value
  <2> QED BY <2>1, <2>2 DEF F!Type, F!Clear, FormTypes
<1>6. CASE F!ConvertPipelines
  <2>1. draft' \in Fields
    BY <1>6 DEF F!ConvertPipelines, F!Default, FormTypes, Fields, Value
  <2> QED BY <1>6, <2>1 DEF F!ConvertPipelines, FormTypes
<1>7. CASE Submitting
  BY <1>7, Submitted DEF Submitting, F!Save, FormTypes
<1>8. CASE F!ConfigOpen
  BY <1>8, RowFacts DEF F!ConfigOpen, FormTypes, ReadRequests
<1>9. CASE F!ConfigArrives
  <2>1. PICK l \in reads :
            /\ l.got # None /\ reads' = reads \ {l} /\ seen' = l.got
            /\ draft' = [f \in F!Field |-> IF f \in F!Filled THEN l.got[F!Mine][f] ELSE draft[f]]
            /\ touched' = touched \ F!Filled
    BY <1>9 DEF F!ConfigArrives
  <2>2. l.got \in [Row -> Fields]
    BY <2>1 DEF FormTypes, ReadRequests
  <2>3. l.got[F!Mine] \in Fields
    BY <2>2, RowFacts
  <2>4. draft' \in Fields
    BY <2>1, <2>3 DEF FormTypes, Fields
  <2> QED BY <1>9, <2>1, <2>2, <2>4 DEF F!ConfigArrives, FormTypes
<1>10. CASE F!ConfigMissing
  BY <1>10 DEF F!ConfigMissing, FormTypes
<1>11. CASE ConfigSubmitting
  <2>1. late' \in BOOLEAN
    BY <1>11 DEF ConfigSubmitting, F!ConfigSubmit, FormTypes
  <2> QED BY <1>11, <2>1, Submitted DEF ConfigSubmitting, F!ConfigSubmit, FormTypes
<1>12. CASE F!PreferencesArrive
  <2>1. draft' \in Fields
    BY <1>12, RowFacts DEF F!PreferencesArrive, FormTypes
  <2>2. missed' \in Nat
    BY <1>12 DEF F!PreferencesArrive, FormTypes
  <2>3. busy' = FALSE /\ UNCHANGED <<host, open, row, touched, opening, making, made, stored, seen,
                                     saves, reads, kept, crossed, late>>
    BY <1>12 DEF F!PreferencesArrive
  <2> QED BY <2>1, <2>2, <2>3 DEF FormTypes
<1>13. CASE F!PreferenceToggle
  <2>1. PICK f \in F!Field :
            /\ opening' = opening + 1
            /\ draft' = [draft EXCEPT ![f] = <<row, opening + 1>>]
            /\ saves' = saves \cup {[row |-> row, sent |-> [g \in {f} |-> <<row, opening + 1>>],
                                    opening |-> opening + 1, done |-> FALSE,
                                    touched |-> {f}, before |-> draft]}
            /\ crossed' \in BOOLEAN
    BY <1>13, HostFields DEF F!PreferenceToggle, FormTypes
  <2>2. <<row, opening + 1>> \in Value /\ opening + 1 \in Nat
    BY DEF FormTypes, Value
  <2>3. draft' \in Fields
    BY <2>1, <2>2 DEF FormTypes, Fields
  <2>4. [g \in {f} |-> <<row, opening + 1>>] \in [{f} -> Value]
    BY <2>2
  <2>5. [g \in {f} |-> <<row, opening + 1>>] \in Sent
    BY <2>4 DEF Sent
  <2>6. PICK e : e = [g \in {f} |-> <<row, opening + 1>>]
    OBVIOUS
  <2>7. [row |-> row, sent |-> e, opening |-> opening + 1, done |-> FALSE,
         touched |-> {f}, before |-> draft] \in SaveRequests
    BY <2>2, <2>5, <2>6 DEF FormTypes, SaveRequests
  <2>8. saves' \subseteq SaveRequests
    BY <2>1, <2>6, <2>7 DEF FormTypes
  <2> QED BY <1>13, <2>1, <2>2, <2>3, <2>8 DEF F!PreferenceToggle, FormTypes
<1>14. ASSUME NEW c \in saves, F!Commit(c)
       PROVE  FormTypes' /\ host' = host
  <2>1. c \in SaveRequests /\ c.sent \in Sent
    BY DEF FormTypes, SaveRequests
  <2>2. stored' \in [Row -> Fields]
    <3>1. CASE c.row = None \/ host = "convert"
      BY <1>14, <3>1 DEF F!Commit, FormTypes
    <3>2. CASE ~(c.row = None \/ host = "convert")
      <4>1. stored' = [stored EXCEPT ![c.row] = Written(c)]
        BY <1>14, <3>2 DEF F!Commit, Written
      <4>2. c.row \in Row
        BY <2>1, <3>2 DEF SaveRequests
      <4>3. F!Kept(stored[c.row]) \in Fields
        BY <4>2, RowFacts DEF FormTypes, F!Kept
      <4>4. Written(c) \in Fields
        BY <2>1, <4>3 DEF Sent, Fields, Written
      <4> QED BY <4>1, <4>2, <4>4 DEF FormTypes
    <3> QED BY <3>1, <3>2
  <2>3. saves' \subseteq SaveRequests
    BY <1>14, <2>1, CommittedType DEF F!Commit, FormTypes
  <2>4. kept' \subseteq Nat
    BY <1>14, <2>1 DEF F!Commit, FormTypes, SaveRequests
  <2> QED BY <1>14, <2>2, <2>3, <2>4 DEF F!Commit, FormTypes
<1>15. ASSUME NEW c \in saves,
              F!Refuse(c) \/ F!ListSaved(c) \/ F!RecordSaved(c) \/ F!DashboardSaved(c) \/ F!Converted(c)
                  \/ F!ConfigSaved(c) \/ F!BrandingSaved(c) \/ F!PreferenceSaved(c)
       PROVE  FormTypes' /\ host' = host
  <2>1. CASE F!Refuse(c)
    BY <2>1 DEF F!Refuse, F!Refused, FormTypes
  <2>2. CASE F!ListSaved(c)
    BY <2>2, ShutTypes, RereadTypes DEF F!ListSaved, FormTypes
  <2>3. CASE F!RecordSaved(c)
    BY <2>3, ShutTypes, RereadTypes DEF F!RecordSaved, FormTypes
  <2>4. CASE F!DashboardSaved(c)
    BY <2>4, RowFacts, RereadTypes DEF F!DashboardSaved, FormTypes
  <2>5. CASE F!Converted(c)
    BY <2>5, ShutTypes, RereadTypes DEF F!Converted, FormTypes
  <2>6. CASE F!ConfigSaved(c)
    BY <2>6, ShutTypes DEF F!ConfigSaved, FormTypes
  <2>7. CASE F!BrandingSaved(c)
    BY <2>7, RereadTypes DEF F!BrandingSaved, FormTypes
  <2>8. CASE F!PreferenceSaved(c)
    BY <2>8 DEF F!PreferenceSaved, FormTypes
  <2> QED BY <1>15, <2>1, <2>2, <2>3, <2>4, <2>5, <2>6, <2>7, <2>8
<1>16. ASSUME NEW c \in saves, F!ProfileSaved(c)
       PROVE  FormTypes' /\ host' = host
  BY <1>16, RowFacts DEF F!ProfileSaved, FormTypes
<1>17. ASSUME NEW c \in saves, F!PreferenceFails(c)
       PROVE  FormTypes' /\ host' = host
  <2>1. c.before \in Fields /\ draft \in Fields
    BY DEF FormTypes, SaveRequests
  <2>2. draft' \in Fields
    BY <1>17, <2>1 DEF F!PreferenceFails, Fields
  <2> QED BY <1>17, <2>2 DEF F!PreferenceFails, F!Refused, FormTypes
<1>18. CASE F!Read
  <2>1. PICK l \in reads : reads' = (reads \ {l}) \cup {[l EXCEPT !.got = stored]}
    BY <1>18 DEF F!Read
  <2>2. [l EXCEPT !.got = stored] \in ReadRequests
    BY DEF FormTypes, ReadRequests
  <2> QED BY <1>18, <2>1, <2>2 DEF F!Read, FormTypes
<1>19. CASE F!Arrive
  <2>1. PICK l \in reads :
            /\ l.got # None /\ reads' = reads \ {l} /\ seen' = l.got
            /\ IF host \in F!Records
               THEN draft' = F!Reset(draft, l.got[F!Mine]) /\ touched' = {}
               ELSE UNCHANGED <<draft, touched>>
    BY <1>19 DEF F!Arrive
  <2>2. l.got \in [Row -> Fields]
    BY <2>1 DEF FormTypes, ReadRequests
  <2>3. l.got[F!Mine] \in Fields
    BY <2>2, RowFacts
  <2>4. draft' \in Fields /\ touched' \subseteq F!Field
    BY <2>1, <2>3, ResetFacts DEF FormTypes
  <2> QED BY <1>19, <2>1, <2>2, <2>4 DEF F!Arrive, FormTypes
<1>20. CASE F!ReadFails
  <2>1. reads' \subseteq ReadRequests /\ missed' \in Nat
    BY <1>20 DEF F!ReadFails, FormTypes
  <2>2. open' \in BOOLEAN /\ busy' \in BOOLEAN
    BY <1>20 DEF F!ReadFails, FormTypes
  <2>3. UNCHANGED <<host, row, draft, touched, opening, making, made, stored, seen, saves,
                    kept, crossed, late>>
    BY <1>20 DEF F!ReadFails
  <2> QED BY <2>1, <2>2, <2>3 DEF FormTypes
<1> QED BY <1>1, <1>2, <1>3, <1>4, <1>5, <1>6, <1>7, <1>8, <1>9, <1>10, <1>11, <1>12, <1>13,
           <1>14, <1>15, <1>16, <1>17, <1>18, <1>19, <1>20, Steps

-----------------------------------------------------------------------------
(* What each host shows: which row, when it is open, and that the form of a  *)
(* list or of the dashboard is empty when it is closed.                      *)
FormPlaced ==
    /\ host \in F!Records \cup {"profile", "preferences", "branding"} => row = F!Mine
    /\ host = "dashboard" => row = None
    /\ host \in {"profile", "preferences", "branding"} => open
    /\ host \in F!Configs /\ open => row = F!Mine
    /\ host \in F!Lists \cup {"dashboard"} /\ ~open /\ ~late => draft = F!Blank
    /\ host \in F!Lists /\ open /\ row # None => ~busy

(* One save and, unless two have crossed, one read at a time. *)
RequestsPlaced ==
    /\ host # "preferences" => \A c, d \in saves : c = d
    /\ ~crossed => \A l, m \in reads : l = m
    /\ host \in F!Lists /\ ~busy /\ ~crossed => reads = {}
    /\ host \in {"profile", "preferences"} => reads = {}
    /\ host = "preferences" /\ busy => saves = {}
    /\ \A c \in saves : c.done => c.opening \in kept

(* A form is open, or something is created inside it, where there is one.    *)
HostPlaced ==
    /\ making # None => host \in F!Linked
    /\ open => host \in PageHosts \cup Fetched \cup {"convert", "profile", "preferences"}

(* A save sends fields that its form shows, and of the others at most None;  *)
(* the assignment of leads has no secret.                                    *)
FieldsPlaced ==
    /\ \A c \in saves : /\ DOMAIN c.sent \subseteq F!FieldsOf(host) \cup {"unshown"}
                        /\ "unshown" \in DOMAIN c.sent => c.sent["unshown"] = None
    /\ host = "lead_config" => \A r \in Row : stored[r]["link"] = None

(* HostPlaced is inductive.                                                  *)
LEMMA HostPlacedStep ==
    ASSUME HostPlaced, F!FormsNext
    PROVE  HostPlaced'
<1>1. ASSUME making' = making, host' = host, open' => open
      PROVE  HostPlaced'
  BY <1>1 DEF HostPlaced
<1>2. CASE F!QuickCreate \/ F!QuickCreated
  BY <1>2 DEF F!QuickCreate, F!QuickCreated, HostPlaced
<1>3. CASE Opening \/ F!ConfigOpen
  BY <1>3 DEF Opening, F!Opened, F!ConfigOpen, HostPlaced
<1>4. ASSUME NEW c \in saves, F!Commit(c) \/ F!Refuse(c) \/ F!ListSaved(c) \/ F!RecordSaved(c)
                         \/ F!DashboardSaved(c) \/ F!Converted(c) \/ F!ProfileSaved(c)
                         \/ F!ConfigSaved(c)
                         \/ F!BrandingSaved(c) \/ F!PreferenceSaved(c) \/ F!PreferenceFails(c)
      PROVE  making' = making /\ host' = host /\ (open' => open)
  BY <1>4 DEF F!Commit, F!Refuse, F!ListSaved, F!RecordSaved, F!DashboardSaved, F!Converted,
              F!Shut,
              F!ProfileSaved, F!ConfigSaved, F!BrandingSaved, F!PreferenceSaved,
              F!PreferenceFails
<1>5. ASSUME F!Close \/ Typing \/ F!ConvertPipelines \/ F!ConfigMissing
                 \/ Submitting \/ ConfigSubmitting \/ F!ConfigArrives \/ F!PreferencesArrive
                 \/ F!PreferenceToggle \/ F!Read \/ F!Arrive \/ F!ReadFails
      PROVE  making' = making /\ host' = host /\ (open' => open)
  BY <1>5 DEF F!Close, F!Shut, Typing, F!Type, F!Clear, F!ConfigMissing,
              F!ConvertPipelines, Submitting, F!Save, ConfigSubmitting, F!ConfigSubmit,
              F!ConfigArrives,
              F!PreferencesArrive, F!PreferenceToggle, F!Read, F!Arrive, F!ReadFails
<1> QED BY <1>1, <1>2, <1>3, <1>4, <1>5, Steps

(* FormPlaced is inductive.                                                  *)
LEMMA FormPlacedStep ==
    ASSUME FormTypes, FormPlaced, F!FormsNext
    PROVE  FormPlaced'
<1>0. FormTypes' /\ host' = host
  BY TypesStep
<1>1. CASE Opening
  BY <1>1 DEF Opening, F!Opened, FormPlaced
<1>2. CASE F!Close
  BY <1>2, ShutTypes DEF F!Close, FormPlaced
<1>3. CASE F!QuickCreate
  BY <1>3 DEF F!QuickCreate, FormPlaced
<1>4. CASE F!QuickCreated
  <2>1. ~late' /\ ~open => draft' = draft /\ ~late
    BY <1>4 DEF F!QuickCreated, FormTypes
  <2>2. UNCHANGED <<host, open, row, busy>>
    BY <1>4 DEF F!QuickCreated
  <2> QED BY <2>1, <2>2 DEF FormPlaced
<1>5. CASE Typing
  BY <1>5 DEF Typing, F!Type, F!Clear, FormPlaced
<1>6. CASE F!ConvertPipelines
  BY <1>6 DEF F!ConvertPipelines, FormPlaced
<1>7. CASE Submitting
  BY <1>7 DEF Submitting, F!Save, FormPlaced
<1>8. CASE F!ConfigOpen
  BY <1>8 DEF F!ConfigOpen, FormPlaced
<1>9. CASE F!ConfigArrives
  BY <1>9 DEF F!ConfigArrives, FormPlaced
<1>10. CASE F!ConfigMissing
  BY <1>10 DEF F!ConfigMissing, FormPlaced
<1>11. CASE ConfigSubmitting
  BY <1>11 DEF ConfigSubmitting, F!ConfigSubmit, FormPlaced
<1>12. CASE F!PreferencesArrive
  BY <1>12 DEF F!PreferencesArrive, FormPlaced
<1>13. CASE F!PreferenceToggle
  BY <1>13 DEF F!PreferenceToggle, FormPlaced
<1>14. ASSUME NEW c \in saves, F!Commit(c) \/ F!Refuse(c) \/ F!ProfileSaved(c)
                  \/ F!BrandingSaved(c)
                                   \/ F!PreferenceSaved(c) \/ F!PreferenceFails(c)
       PROVE  FormPlaced'
  BY <1>14 DEF F!Commit, F!Refuse, F!Refused, F!ProfileSaved, F!BrandingSaved,
               F!PreferenceSaved,
               F!PreferenceFails, FormPlaced
<1>15. ASSUME NEW c \in saves,
              F!ListSaved(c) \/ F!RecordSaved(c) \/ F!Converted(c) \/ F!ConfigSaved(c)
       PROVE  FormPlaced'
  BY <1>15, ShutTypes DEF F!ListSaved, F!RecordSaved, F!Converted, F!ConfigSaved, FormPlaced
<1>16. ASSUME NEW c \in saves, F!DashboardSaved(c)
       PROVE  FormPlaced'
  BY <1>16 DEF F!DashboardSaved, FormPlaced
<1>17. CASE F!Read
  BY <1>17 DEF F!Read, FormPlaced
<1>18. CASE F!Arrive
  BY <1>18 DEF F!Arrive, FormPlaced
<1>19. CASE F!ReadFails
  BY <1>19 DEF F!ReadFails, FormPlaced
<1> QED BY <1>1, <1>2, <1>3, <1>4, <1>5, <1>6, <1>7, <1>8, <1>9, <1>10, <1>11, <1>12, <1>13,
           <1>14, <1>15, <1>16, <1>17, <1>18, <1>19, Steps

(* A read that begins is alone, unless it crosses another.                   *)
LEMMA RereadPlaced ==
    ASSUME FormTypes, F!Reread
    PROVE  ~crossed' => /\ reads' = {[opening |-> opening, got |-> None]}
                        /\ reads = {} /\ ~crossed
BY DEF FormTypes, F!Reread

(* A commit marks its save as done, and changes nothing else of it.          *)
LEMMA CommitsOne ==
    ASSUME FormTypes, NEW c \in saves, F!Commit(c)
    PROVE  \E d \in SaveRequests :
               /\ saves' = (saves \ {c}) \cup {d}
               /\ d.done /\ d.row = c.row /\ d.sent = c.sent /\ d.opening = c.opening
               /\ d.touched = c.touched /\ d.before = c.before
<1>1. c \in SaveRequests
  BY DEF FormTypes
<1>2. PICK d : d = [c EXCEPT !.done = TRUE]
  OBVIOUS
<1>3. /\ d \in SaveRequests /\ d.done /\ d.opening = c.opening /\ d.row = c.row /\ d.sent = c.sent
      /\ d.touched = c.touched /\ d.before = c.before
  BY <1>1, <1>2 DEF SaveRequests
<1> QED BY <1>2, <1>3 DEF F!Commit

(* FieldsPlaced is inductive.                                                *)
LEMMA FieldsPlacedStep ==
    ASSUME FormTypes, FieldsPlaced, F!FormsNext
    PROVE  FieldsPlaced'
<1>0. host' = host /\ F!FieldsOf(host)' = F!FieldsOf(host)
  <2>1. host' = host
    BY TypesStep
  <2> QED BY <2>1 DEF F!FieldsOf
<1>1. ASSUME saves' \subseteq saves, UNCHANGED stored
      PROVE  FieldsPlaced'
  BY <1>0, <1>1 DEF FieldsPlaced
<1>2. CASE Submitting \/ ConfigSubmitting
  <2>1. PICK c \in SaveRequests : saves' = saves \cup {c} /\ Sending(c.sent)
    BY <1>2, Submitted
  <2>2. UNCHANGED stored
    BY <1>2 DEF Submitting, F!Save, ConfigSubmitting, F!ConfigSubmit
  <2> QED BY <1>0, <2>1, <2>2 DEF FieldsPlaced, Sending
<1>3. CASE F!PreferenceToggle
  <2>1. PICK f \in F!FieldsOf(host) :
            saves' = saves \cup {[row |-> row, sent |-> [g \in {f} |-> <<row, opening + 1>>],
                                  opening |-> opening + 1, done |-> FALSE,
                                  touched |-> {f}, before |-> draft]}
    BY <1>3 DEF F!PreferenceToggle
  <2>2. PICK e : e = [row |-> row, sent |-> [g \in {f} |-> <<row, opening + 1>>],
                      opening |-> opening + 1, done |-> FALSE,
                      touched |-> {f}, before |-> draft]
    OBVIOUS
  <2>3. saves' = saves \cup {e} /\ DOMAIN e.sent = {f} /\ UNCHANGED stored
    BY <1>3, <2>1, <2>2 DEF F!PreferenceToggle
  <2>4. f # "unshown"
    BY HostFields
  <2> QED BY <1>0, <2>3, <2>4 DEF FieldsPlaced
<1>4. ASSUME NEW c \in saves, F!Commit(c)
      PROVE  FieldsPlaced'
  <2>1. PICK d \in SaveRequests : saves' = (saves \ {c}) \cup {d} /\ d.sent = c.sent
    BY <1>4, CommitsOne
  <2>2. ASSUME host = "lead_config", NEW r \in Row
        PROVE  stored'[r]["link"] = None
    <3>1. stored' = stored \/ stored' = [stored EXCEPT ![c.row] = Written(c)]
      BY <1>4 DEF F!Commit, Written
    <3>2. "link" \notin DOMAIN c.sent
      BY <2>2 DEF FieldsPlaced, F!FieldsOf, F!Linked
    <3>3. Written(c)["link"] = None
      BY <2>2, <3>2 DEF Written, F!Kept, F!Blank, F!Field
    <3> QED BY <2>2, <3>1, <3>3 DEF FieldsPlaced, FormTypes
  <2> QED BY <1>0, <2>1, <2>2 DEF FieldsPlaced
<1>5. ASSUME ~(Submitting \/ ConfigSubmitting), ~F!PreferenceToggle, \A c \in saves : ~F!Commit(c)
      PROVE  saves' \subseteq saves /\ UNCHANGED stored
  BY <1>5, Steps
     DEF Opening, F!Opened, F!Close, F!QuickCreate, F!QuickCreated, Typing, F!Type, F!Clear,
         F!ConvertPipelines, F!ConfigOpen, F!ConfigArrives, F!ConfigMissing,
         F!PreferencesArrive, F!Refuse, F!Refused,
         F!ListSaved, F!RecordSaved, F!DashboardSaved, F!Converted, F!ProfileSaved,
         F!ConfigSaved,
         F!BrandingSaved, F!PreferenceSaved, F!PreferenceFails, F!Read, F!Arrive, F!ReadFails
<1> QED BY <1>1, <1>2, <1>3, <1>4, <1>5

(* RequestsPlaced is inductive.                                              *)
LEMMA RequestsPlacedStep ==
    ASSUME FormTypes, FormPlaced, RequestsPlaced, F!FormsNext
    PROVE  RequestsPlaced'
<1>0. FormTypes' /\ host' = host
  BY TypesStep
<1>1. CASE Opening
  BY <1>1 DEF Opening, F!Opened, RequestsPlaced
<1>2. CASE F!Close
  BY <1>2 DEF F!Close, RequestsPlaced
<1>3. CASE F!QuickCreate \/ F!QuickCreated
  BY <1>3 DEF F!QuickCreate, F!QuickCreated, RequestsPlaced
<1>4. CASE Typing
  BY <1>4 DEF Typing, F!Type, F!Clear, RequestsPlaced
<1>5. CASE F!ConvertPipelines
  BY <1>5 DEF F!ConvertPipelines, RequestsPlaced
<1>6. CASE Submitting \/ ConfigSubmitting
  <2>1. PICK c \in SaveRequests : saves' = saves \cup {c} /\ saves = {} /\ ~c.done
    BY <1>6, Submitted
  <2>2. UNCHANGED <<reads, crossed, busy, kept>> /\ host # "preferences"
    BY <1>6 DEF Submitting, ConfigSubmitting, F!Save, F!ConfigSubmit
  <2> QED BY <1>0, <2>1, <2>2 DEF RequestsPlaced
<1>7. CASE F!ConfigOpen
  <2>1. ~crossed' => reads = {}
    BY <1>7 DEF F!ConfigOpen, FormTypes
  <2> QED BY <1>7, <2>1 DEF F!ConfigOpen, RequestsPlaced
<1>8. CASE F!ConfigArrives \/ F!ConfigMissing
  BY <1>8 DEF F!ConfigArrives, F!ConfigMissing, RequestsPlaced
<1>9. CASE F!PreferencesArrive
  BY <1>9 DEF F!PreferencesArrive, RequestsPlaced
<1>10. CASE F!PreferenceToggle
  <2>1. PICK f \in F!Field :
            saves' = saves \cup {[row |-> row, sent |-> [g \in {f} |-> <<row, opening + 1>>],
                                  opening |-> opening + 1, done |-> FALSE,
                                  touched |-> {f}, before |-> draft]}
    BY <1>10, HostFields DEF F!PreferenceToggle
  <2>2. PICK e : e = [row |-> row, sent |-> [g \in {f} |-> <<row, opening + 1>>],
                      opening |-> opening + 1, done |-> FALSE,
                      touched |-> {f}, before |-> draft]
    OBVIOUS
  <2>3. saves' = saves \cup {e} /\ ~e.done
    BY <2>1, <2>2
  <2>4. host = "preferences" /\ ~busy /\ UNCHANGED <<reads, busy, kept>>
    BY <1>10 DEF F!PreferenceToggle
  <2> QED BY <1>0, <2>3, <2>4 DEF RequestsPlaced
<1>11. ASSUME NEW c \in saves, F!Commit(c)
       PROVE  RequestsPlaced'
  <2>1. PICK d \in SaveRequests : saves' = (saves \ {c}) \cup {d} /\ d.opening = c.opening
    BY <1>11, CommitsOne
  <2>2. kept' = kept \cup {c.opening} /\ UNCHANGED <<reads, crossed, busy>>
    BY <1>11 DEF F!Commit
  <2> QED BY <1>0, <2>1, <2>2 DEF RequestsPlaced
<1>12. ASSUME NEW c \in saves, F!Refuse(c) \/ F!ConfigSaved(c) \/ F!ProfileSaved(c)
                                   \/ F!PreferenceSaved(c) \/ F!PreferenceFails(c)
       PROVE  RequestsPlaced'
  BY <1>12 DEF F!Refuse, F!Refused, F!ConfigSaved, F!ProfileSaved, F!PreferenceSaved,
               F!PreferenceFails,
               RequestsPlaced
<1>13. ASSUME NEW c \in saves,
              F!ListSaved(c) \/ F!RecordSaved(c) \/ F!DashboardSaved(c) \/ F!Converted(c)
                  \/ F!BrandingSaved(c)
       PROVE  RequestsPlaced'
  <2>1. F!Reread /\ saves' = saves \ {c} /\ UNCHANGED kept
    BY <1>13 DEF F!ListSaved, F!RecordSaved, F!DashboardSaved, F!Converted, F!BrandingSaved
  <2>2. host \notin {"profile", "preferences"} /\ (host \in F!Lists => busy')
    BY <1>13 DEF F!ListSaved, F!RecordSaved, F!DashboardSaved, F!Converted, F!BrandingSaved
  <2> QED BY <1>0, <2>1, <2>2, RereadPlaced DEF RequestsPlaced
<1>14. CASE F!Read
  <2>1. PICK l \in reads : reads' = (reads \ {l}) \cup {[l EXCEPT !.got = stored]}
    BY <1>14 DEF F!Read
  <2> QED BY <1>14, <2>1 DEF F!Read, RequestsPlaced
<1>15. CASE F!Arrive
  BY <1>15 DEF F!Arrive, RequestsPlaced
<1>16. CASE F!ReadFails
  BY <1>16 DEF F!ReadFails, RequestsPlaced
<1> QED BY <1>1, <1>2, <1>3, <1>4, <1>5, <1>6, <1>7, <1>8, <1>9, <1>10, <1>11, <1>12, <1>13,
           <1>14, <1>15, <1>16, Steps

-----------------------------------------------------------------------------
(* Whose values the form, the rows and the requests hold.                    *)
Own(r) == {None} \cup {<<r, n>> : n \in {0} \cup kept}

SentOwned ==
    \A c \in saves : \A f \in DOMAIN c.sent \ {"unshown"} :
        \/ c.sent[f] = <<c.row, c.opening>>
        \/ c.row # None /\ c.sent[f] \in Own(c.row) \ {None}
        \/ F!Leaves(f)

RowsOwned ==
    \A r \in Row, f \in F!Field :
        \/ /\ stored[r][f] \in Own(r) /\ seen[r][f] \in Own(r)
           /\ \A l \in reads : l.got # None => l.got[r][f] \in Own(r)
        \/ F!Leaves(f)

DraftOwned ==
    open /\ host # "preferences" /\ (host \in Fetched => reads = {}) =>
        \A f \in F!FieldsOf(host) :
            \/ draft[f] \in {None, <<row, opening>>}
            \/ row # None /\ draft[f] \in Own(row)
            \/ F!Leaves(f)

Owned == host # "convert" /\ ~late => SentOwned /\ RowsOwned /\ DraftOwned

(* The history grows: what was late stays late, and what was kept stays      *)
(* kept.                                                                     *)
LEMMA HistoryStep ==
    ASSUME FormTypes, F!FormsNext
    PROVE  /\ ~late' => ~late
           /\ kept \subseteq kept'
           /\ \A r, v : v \in Own(r) => v \in Own(r)'
           /\ \A f : F!Leaves(f)' = F!Leaves(f)
<1>1. ~late' => ~late
  <2>1. F!QuickCreated => (~late' => ~late)
    BY DEF F!QuickCreated, FormTypes
  <2>2. F!ConfigMissing \/ ConfigSubmitting => (~late' => ~late)
    BY DEF F!ConfigMissing, ConfigSubmitting, F!ConfigSubmit, FormTypes
  <2> QED
    BY Steps, <2>1, <2>2
       DEF Opening, F!Opened, F!Close, F!QuickCreate, Typing, F!Type, F!Clear,
           F!ConvertPipelines, Submitting,
           F!Save, F!ConfigOpen, F!ConfigArrives, F!PreferencesArrive, F!PreferenceToggle,
           F!Commit, F!Refuse,
           F!ListSaved, F!RecordSaved, F!DashboardSaved, F!Converted, F!ProfileSaved,
           F!ConfigSaved,
           F!BrandingSaved, F!PreferenceSaved, F!PreferenceFails, F!Read, F!Arrive,
           F!ReadFails
<1>2. kept \subseteq kept'
  BY Steps
     DEF Opening, F!Opened, F!Close, F!QuickCreate, F!QuickCreated, Typing, F!Type, F!Clear,
         F!ConvertPipelines,
         Submitting, F!Save, F!ConfigOpen, F!ConfigArrives, F!ConfigMissing,
         ConfigSubmitting, F!ConfigSubmit,
         F!PreferencesArrive, F!PreferenceToggle, F!Commit, F!Refuse,
         F!ListSaved, F!RecordSaved, F!DashboardSaved, F!Converted, F!ProfileSaved,
         F!ConfigSaved,
         F!BrandingSaved, F!PreferenceSaved, F!PreferenceFails, F!Read, F!Arrive, F!ReadFails
<1>3. \A r, v : v \in Own(r) => v \in Own(r)'
  BY <1>2 DEF Own
<1>4. \A f : F!Leaves(f)' = F!Leaves(f)
  <2>1. host' = host
    BY TypesStep
  <2> QED BY <2>1 DEF F!Leaves
<1> QED BY <1>1, <1>2, <1>3, <1>4

(* What is sent is taken from an open form, or from the switch that was set. *)
LEMMA SentOwnedStep ==
    ASSUME FormTypes, FormPlaced, RequestsPlaced, Owned, F!FormsNext, host # "convert", ~late'
    PROVE  SentOwned'
<1>0. /\ FormTypes' /\ host' = host /\ SentOwned /\ DraftOwned
      /\ \A r, v : v \in Own(r) => v \in Own(r)'
      /\ \A f : F!Leaves(f)' = F!Leaves(f)
  BY TypesStep, HistoryStep DEF Owned
<1>1. ASSUME saves' \subseteq saves
      PROVE  SentOwned'
  BY <1>0, <1>1 DEF SentOwned
<1>2. CASE Submitting \/ ConfigSubmitting
  <2>1. PICK c \in SaveRequests : /\ saves' = saves \cup {c}
                                  /\ c.row = row /\ c.opening = opening /\ Sending(c.sent)
    BY <1>2, Submitted
  <2>2. saves' = saves \cup {c}
    BY <2>1
  <2>3. /\ c.row = row /\ c.opening = opening
        /\ DOMAIN c.sent \ {"unshown"} \subseteq F!FieldsOf(host)
        /\ \A f \in DOMAIN c.sent \ {"unshown"} : c.sent[f] = draft[f] /\ draft[f] # None
    BY <2>1 DEF Sending
  <2>4. open /\ host # "preferences" /\ (host \in Fetched => reads = {})
    BY <1>2 DEF Submitting, F!Save, ConfigSubmitting, F!ConfigSubmit, FormPlaced, FormTypes
  <2>5. \A f \in DOMAIN c.sent \ {"unshown"} :
            \/ c.sent[f] = <<c.row, c.opening>>
            \/ c.row # None /\ c.sent[f] \in Own(c.row) \ {None}
            \/ F!Leaves(f)
    BY <1>0, <2>3, <2>4 DEF DraftOwned
  <2> QED BY <1>0, <2>2, <2>5 DEF SentOwned
<1>3. CASE F!PreferenceToggle
  <2>1. PICK f \in F!Field :
            saves' = saves \cup {[row |-> row, sent |-> [g \in {f} |-> <<row, opening + 1>>],
                                  opening |-> opening + 1, done |-> FALSE,
                                  touched |-> {f}, before |-> draft]}
    BY <1>3, HostFields DEF F!PreferenceToggle
  <2>2. PICK e : e = [row |-> row, sent |-> [g \in {f} |-> <<row, opening + 1>>],
                      opening |-> opening + 1, done |-> FALSE,
                      touched |-> {f}, before |-> draft]
    OBVIOUS
  <2>3. \A g \in DOMAIN e.sent : e.sent[g] = <<e.row, e.opening>>
    BY <2>2
  <2>4. saves' = saves \cup {e}
    BY <2>1, <2>2
  <2> QED BY <1>0, <2>3, <2>4 DEF SentOwned
<1>4. ASSUME NEW c \in saves, F!Commit(c)
      PROVE  SentOwned'
  <2>1. PICK d \in SaveRequests : /\ saves' = (saves \ {c}) \cup {d}
                           /\ d.opening = c.opening /\ d.row = c.row /\ d.sent = c.sent
    BY <1>4, CommitsOne
  <2> QED BY <1>0, <2>1 DEF SentOwned
<1>5. ASSUME ~(Submitting
  \/ ConfigSubmitting), ~F!PreferenceToggle, \A c \in saves : ~F!Commit(c)
      PROVE  saves' \subseteq saves
  BY <1>5, Steps
     DEF Opening, F!Opened, F!Close, F!QuickCreate, F!QuickCreated, Typing, F!Type, F!Clear,
         F!ConvertPipelines,
         F!ConfigOpen, F!ConfigArrives, F!ConfigMissing,
         F!PreferencesArrive, F!Refuse, F!Refused,
         F!ListSaved, F!RecordSaved, F!DashboardSaved, F!Converted, F!ProfileSaved,
         F!ConfigSaved,
         F!BrandingSaved, F!PreferenceSaved, F!PreferenceFails, F!Read, F!Arrive, F!ReadFails
<1> QED BY <1>1, <1>2, <1>3, <1>4, <1>5

(* What is stored was sent, and what is read was stored.                     *)
LEMMA RowsOwnedStep ==
    ASSUME FormTypes, FormPlaced, RequestsPlaced, FieldsPlaced, Owned, F!FormsNext,
           host # "convert", ~late'
    PROVE  RowsOwned'
<1>0. /\ FormTypes' /\ host' = host /\ RowsOwned /\ SentOwned
      /\ \A r, v : v \in Own(r) => v \in Own(r)'
      /\ \A f : F!Leaves(f)' = F!Leaves(f)
  BY TypesStep, HistoryStep DEF Owned
<1>1. ASSUME stored' = stored, seen' = seen \/ seen' = stored
  \/ \E l \in reads : l.got # None /\ seen' = l.got,
             \A l \in reads' : l \in reads \/ l.got = None \/ l.got = stored
      PROVE  RowsOwned'
  BY <1>0, <1>1 DEF RowsOwned
<1>2. ASSUME NEW c \in saves, F!Commit(c)
      PROVE  RowsOwned'
  <2>1. c \in SaveRequests /\ c.sent \in Sent /\ c.opening \in kept' /\ UNCHANGED <<seen, reads>>
    BY <1>2 DEF F!Commit, FormTypes, SaveRequests
  <2>2. ASSUME NEW r \in Row, NEW f \in F!Field
        PROVE  \/ stored'[r][f] \in {stored[r][f], None}
               \/ /\ r = c.row /\ f \in DOMAIN c.sent \ {"unshown"}
                  /\ stored'[r][f] = c.sent[f]
    <3>1. CASE c.row = None
      BY <1>2, <3>1 DEF F!Commit
    <3>2. CASE c.row # None
      <4>1. stored' = [stored EXCEPT ![c.row] = Written(c)]
        BY <1>2, <3>2 DEF F!Commit, Written
      <4>2. CASE r = c.row
        <5>1. stored'[r][f] = IF f \in DOMAIN c.sent THEN c.sent[f] ELSE F!Kept(stored[r])[f]
          BY <4>1, <4>2 DEF FormTypes, Written
        <5>2. F!Kept(stored[r])[f] \in {stored[r][f], None}
          BY DEF F!Kept, F!Blank
        <5> QED BY <4>2, <5>1, <5>2 DEF FieldsPlaced
      <4>3. CASE r # c.row
        BY <4>1, <4>3 DEF FormTypes
      <4> QED BY <4>2, <4>3
    <3> QED BY <3>1, <3>2
  <2>3. ASSUME NEW f \in DOMAIN c.sent \ {"unshown"}, c.row \in Row
        PROVE  c.sent[f] \in Own(c.row)' \/ F!Leaves(f)
    <3>1. <<c.row, c.opening>> \in Own(c.row)'
      BY <2>1 DEF Own
    <3> QED BY <3>1, <1>0 DEF SentOwned
  <2>4. ASSUME NEW r \in Row, NEW f \in F!Field
        PROVE  stored'[r][f] \in Own(r)' \/ F!Leaves(f)
    <3>1. None \in Own(r)'
      BY DEF Own
    <3>2. stored[r][f] \in Own(r)' \/ F!Leaves(f)
      BY <1>0 DEF RowsOwned
    <3> QED BY <2>2, <2>3, <3>1, <3>2
  <2> QED BY <1>0, <2>1, <2>4 DEF RowsOwned
<1>3. CASE F!Read
  <2>1. PICK l \in reads : reads' = (reads \ {l}) \cup {[l EXCEPT !.got = stored]}
    BY <1>3 DEF F!Read
  <2>2. [l EXCEPT !.got = stored].got = stored
    BY DEF FormTypes, ReadRequests
  <2>3. UNCHANGED <<stored, seen>>
    BY <1>3 DEF F!Read
  <2> QED BY <1>1, <2>1, <2>2, <2>3
<1>4. CASE F!Arrive \/ F!ConfigArrives
  <2>1. \E l \in reads : l.got # None /\ seen' = l.got
    BY <1>4 DEF F!Arrive, F!ConfigArrives
  <2>2. UNCHANGED stored /\ reads' \subseteq reads
    BY <1>4 DEF F!Arrive, F!ConfigArrives
  <2> QED BY <1>1, <2>1, <2>2
<1>5. ASSUME NEW c \in saves, F!ProfileSaved(c)
      PROVE  RowsOwned'
  BY <1>1, <1>5 DEF F!ProfileSaved
<1>6. CASE Opening \/ F!Close \/ F!QuickCreate \/ F!QuickCreated \/ Typing
             \/ F!ConvertPipelines
             \/ Submitting \/ ConfigSubmitting \/ F!ConfigMissing \/ F!PreferencesArrive
             \/ F!PreferenceToggle \/ F!ReadFails
  <2>1. UNCHANGED <<stored, seen>> /\ reads' \subseteq reads
    BY <1>6 DEF Opening, F!Opened, F!Close, F!QuickCreate, F!QuickCreated, Typing, F!Type,
                F!Clear,
                F!ConvertPipelines, Submitting, F!Save, F!ConfigMissing, ConfigSubmitting,
                F!ConfigSubmit, F!PreferencesArrive, F!PreferenceToggle, F!ReadFails
  <2> QED BY <1>1, <2>1
<1>7. CASE F!ConfigOpen
  <2>1. reads' = reads \cup {[opening |-> opening + 1, got |-> None]} /\ UNCHANGED <<stored, seen>>
    BY <1>7 DEF F!ConfigOpen
  <2> QED BY <1>1, <2>1
<1>8. ASSUME NEW c \in saves,
             F!Refuse(c) \/ F!ListSaved(c) \/ F!RecordSaved(c) \/ F!DashboardSaved(c) \/ F!Converted(c)
                 \/ F!ConfigSaved(c) \/ F!BrandingSaved(c) \/ F!PreferenceSaved(c)
                 \/ F!PreferenceFails(c)
      PROVE  RowsOwned'
  <2>1. UNCHANGED <<stored, seen>> /\ (UNCHANGED reads \/ F!Reread)
    BY <1>8 DEF F!Refuse, F!ListSaved, F!RecordSaved, F!DashboardSaved, F!Converted,
                F!ConfigSaved,
                F!BrandingSaved, F!PreferenceSaved, F!PreferenceFails
  <2> QED BY <1>1, <2>1 DEF F!Reread
<1> QED BY <1>2, <1>3, <1>4, <1>5, <1>6, <1>7, <1>8, Steps

(* A record that is read fills what it can: all but a secret.                *)
LEMMA FilledFields ==
    ASSUME host \in Fetched
    PROVE  /\ \A f \in F!FieldsOf(host) : f \in F!Filled \/ F!Leaves(f)
           /\ F!Filled \subseteq F!FieldsOf(host)
BY DEF F!FieldsOf, F!Filled, F!Linked, F!Leaves

(* A form is filled from its row when it opens, and by its user from then    *)
(* on.                                                                       *)
LEMMA DraftOwnedStep ==
    ASSUME FormTypes, FormPlaced, RequestsPlaced, Owned, F!FormsNext, host # "convert", ~late'
    PROVE  DraftOwned'
<1>0. /\ FormTypes' /\ host' = host /\ RowsOwned /\ DraftOwned /\ ~late
      /\ kept \subseteq kept' /\ \A r, v : v \in Own(r) => v \in Own(r)'
      /\ \A f : F!Leaves(f)' = F!Leaves(f)
      /\ F!FieldsOf(host) \subseteq F!Field
  BY TypesStep, HistoryStep, HostFields DEF Owned
<1>1. ASSUME UNCHANGED <<draft, row, opening, open, reads>>
      PROVE  DraftOwned'
  BY <1>0, <1>1 DEF DraftOwned
<1>2. ASSUME open' = FALSE
      PROVE  DraftOwned'
  BY <1>2 DEF DraftOwned
<1>3. CASE Opening
  <2>1. PICK r \in Row \cup {None} :
            F!Opened(r) /\ host \in PageHosts /\ (host = "dashboard" => r = None)
    BY <1>3 DEF Opening
  <2>2. r = None => draft' = F!Blank
    BY <2>1, ResetFacts DEF F!Opened, FormTypes
  <2>3. ASSUME r # None, NEW f \in F!FieldsOf(host)
        PROVE  draft'[f] \in Own(r) \/ F!Leaves(f)
    <3>1. seen[r] \in Fields /\ seen[r] # None /\ draft' = F!Reset(draft, seen[r]) /\ draft \in Fields
      BY <2>1, <2>3, RowFacts DEF F!Opened, FormTypes
    <3>2. \/ draft'[f] = seen[r][f]
          \/ f = "link" /\ host \in F!Deals /\ draft'[f] = draft[f]
      BY <2>1, <2>3, <3>1, ResetFacts
    <3>3. host \in F!Deals /\ f = "link" => draft[f] = None \/ F!Leaves(f)
      <4>1. host = "deals" => draft = F!Blank
        BY <2>1, <1>0 DEF FormPlaced, F!Opened
      <4> QED BY <4>1, <2>1, <2>3, <1>0 DEF F!Leaves, F!Deals, F!Blank, F!Field
    <3> QED BY <3>2, <3>3, <1>0, <2>3 DEF RowsOwned, Own
  <2>4. row' = r /\ UNCHANGED host
    BY <2>1 DEF F!Opened
  <2> QED BY <2>2, <2>3, <2>4, <1>0 DEF DraftOwned, F!Blank
<1>4. CASE F!QuickCreated
  <2>1. CASE UNCHANGED draft
    BY <1>1, <2>1, <1>4 DEF F!QuickCreated
  <2>2. CASE draft' = [draft EXCEPT !.link = making] /\ late' = (late \/ ~open
               \/ making # <<row, opening>>)
    <3>1. making = <<row, opening>>
      BY <2>2
    <3>2. \A f \in F!Field : draft'[f] = draft[f] \/ draft'[f] = <<row, opening>>
      BY <2>2, <3>1 DEF FormTypes, Fields
    <3>3. UNCHANGED <<host, open, row, opening, reads>>
      BY <1>4 DEF F!QuickCreated
    <3> QED BY <1>0, <3>2, <3>3 DEF DraftOwned
  <2> QED BY <1>4, <2>1, <2>2 DEF F!QuickCreated
<1>5. CASE Typing
  <2>1. PICK f \in F!Field : F!Type(f) \/ F!Clear(f)
    BY <1>5 DEF Typing
  <2>2. \A g \in F!Field : draft'[g] = draft[g] \/ draft'[g] \in {None, <<row, opening>>}
    BY <2>1 DEF F!Type, F!Clear, FormTypes, Fields
  <2>3. UNCHANGED <<host, open, row, opening, reads>>
    BY <2>1 DEF F!Type, F!Clear
  <2> QED BY <1>0, <2>2, <2>3 DEF DraftOwned
<1>6. CASE F!ConfigArrives
  <2>1. PICK l \in reads :
            /\ l.got # None /\ reads' = reads \ {l}
            /\ draft' = [f \in F!Field |-> IF f \in F!Filled THEN l.got[F!Mine][f] ELSE draft[f]]
    BY <1>6 DEF F!ConfigArrives
  <2>2. host \in Fetched /\ UNCHANGED <<open, row, opening, kept>>
    BY <1>6 DEF F!ConfigArrives
  <2>3. \A f \in F!Filled : f \in F!Field /\ draft'[f] = l.got[F!Mine][f]
    BY <2>1 DEF F!Field, F!Filled
  <2>4. \A f \in F!Filled : draft'[f] \in Own(F!Mine)
    BY <1>0, <2>1, <2>2, <2>3, RowFacts DEF RowsOwned, F!Filled, F!Leaves
  <2>5. open => row = F!Mine
    BY <2>2 DEF FormPlaced
  <2>6. \A f \in F!FieldsOf(host) : f \in F!Filled \/ F!Leaves(f)
    BY <2>2, FilledFields
  <2> QED BY <1>0, <2>2, <2>4, <2>5, <2>6, RowFacts DEF DraftOwned
<1>7. CASE F!Arrive
  <2>1. PICK l \in reads :
            /\ l.got # None
            /\ IF host \in F!Records
               THEN draft' = F!Reset(draft, l.got[F!Mine])
               ELSE UNCHANGED draft
    BY <1>7 DEF F!Arrive
  <2>2. host \notin Fetched /\ UNCHANGED <<open, row, opening>>
    BY <1>7 DEF F!Arrive
  <2>3. CASE host \in F!Records
    <3>1. row = F!Mine /\ l.got[F!Mine] \in Fields /\ l.got[F!Mine] # None /\ draft \in Fields
      BY <2>1, <2>3, RowFacts DEF FormPlaced, FormTypes, ReadRequests
    <3>2. \A f \in F!FieldsOf(host) :
              draft'[f] = l.got[F!Mine][f] \/ (f = "link" /\ host \in F!Deals)
      BY <2>1, <2>3, <3>1, ResetFacts
    <3>3. \A f \in F!FieldsOf(host) : draft'[f] \in Own(F!Mine) \/ F!Leaves(f)
      BY <1>0, <2>1, <2>3, <3>2, RowFacts DEF RowsOwned, F!Leaves, F!Deals
    <3> QED BY <1>0, <2>2, <3>1, <3>3, RowFacts DEF DraftOwned
  <2>4. CASE host \notin F!Records
    BY <1>0, <2>1, <2>2, <2>4 DEF DraftOwned
  <2> QED BY <2>3, <2>4
<1>8. ASSUME NEW c \in saves, F!ProfileSaved(c)
      PROVE  DraftOwned'
  <2>1. row' = F!Mine /\ draft' = stored[F!Mine] /\ host = "profile"
    BY <1>8 DEF F!ProfileSaved, FormPlaced
  <2> QED BY <1>0, <2>1, RowFacts DEF DraftOwned, RowsOwned
<1>9. ASSUME NEW c \in saves, F!BrandingSaved(c)
      PROVE  DraftOwned'
  <2>1. host \in Fetched /\ reads' # {}
    BY <1>9 DEF F!BrandingSaved, F!Reread
  <2> QED BY <1>0, <2>1 DEF DraftOwned
<1>10. CASE F!ConfigOpen
  <2>1. host \in Fetched /\ reads' # {}
    BY <1>10 DEF F!ConfigOpen
  <2> QED BY <1>0, <2>1 DEF DraftOwned
<1>11. ~F!ConvertPipelines /\ ~F!ConfigMissing
  <2>1. ~F!ConvertPipelines
    BY DEF F!ConvertPipelines
  <2>2. F!ConfigMissing => late' = TRUE
    BY DEF F!ConfigMissing
  <2> QED BY <2>1, <2>2
<1>12. CASE F!PreferencesArrive \/ F!PreferenceToggle
  BY <1>0, <1>12 DEF F!PreferencesArrive, F!PreferenceToggle, DraftOwned
<1>13. ASSUME NEW c \in saves, F!PreferenceFails(c) \/ F!PreferenceSaved(c)
       PROVE  DraftOwned'
  BY <1>0, <1>13 DEF F!PreferenceFails, F!PreferenceSaved, DraftOwned
<1>14. ASSUME NEW c \in saves,
              F!ListSaved(c) \/ F!RecordSaved(c) \/ F!DashboardSaved(c) \/ F!Converted(c) \/ F!ConfigSaved(c)
       PROVE  DraftOwned'
  <2>1. open' = FALSE
    BY <1>14 DEF F!ListSaved, F!RecordSaved, F!DashboardSaved, F!Converted, F!ConfigSaved,
                 F!Shut
  <2> QED BY <1>2, <2>1
<1>15. ASSUME NEW c \in saves, F!Commit(c) \/ F!Refuse(c)
       PROVE  DraftOwned'
  BY <1>1, <1>15 DEF F!Commit, F!Refuse
<1>16. CASE F!Close
  BY <1>2, <1>16 DEF F!Close, F!Shut
<1>17. CASE F!QuickCreate \/ Submitting \/ ConfigSubmitting
  BY <1>1, <1>17 DEF F!QuickCreate, Submitting, F!Save, ConfigSubmitting, F!ConfigSubmit
<1>18. CASE F!Read
  <2>1. reads' # {} /\ reads # {}
    BY <1>18 DEF F!Read
  <2>2. UNCHANGED <<host, draft, row, opening, open>>
    BY <1>18 DEF F!Read
  <2> QED BY <1>0, <2>1, <2>2 DEF DraftOwned
<1>19. CASE F!ReadFails
  <2>1. UNCHANGED <<draft, row, opening>> /\ host \in F!Records /\ (open' => open)
    BY <1>19 DEF F!ReadFails
  <2> QED BY <1>0, <2>1 DEF DraftOwned
<1> QED BY <1>3, <1>4, <1>5, <1>6, <1>7, <1>8, <1>9, <1>10, <1>11, <1>12, <1>13, <1>14, <1>15,
           <1>16, <1>17, <1>18, <1>19, Steps

-----------------------------------------------------------------------------
(* How current the rows, the form and the requests are.                      *)
NoneDone == \A c \in saves : ~c.done

Good == missed = 0 /\ ~crossed /\ ~late

RowsFresh ==
    host \in PageHosts /\ NoneDone =>
        /\ reads = {} => seen = stored
        /\ \A l \in reads : l.got # None => l.got = stored

DraftFresh ==
    host \in PageHosts /\ open /\ row # None =>
        \A f \in F!FieldsOf(host) \ touched : draft[f] = seen[row][f] \/ F!Leaves(f)

ConfigFresh ==
    host \in Fetched /\ open /\ NoneDone => \A f \in F!Filled :
        /\ reads = {} => f \in touched \/ draft[f] = stored[F!Mine][f]
        /\ \A l \in reads : l.got # None => l.got[F!Mine][f] = stored[F!Mine][f]

ProfileFresh ==
    host = "profile" /\ NoneDone =>
        \A f \in F!Field \ touched : draft[f] \in {None, stored[F!Mine][f]}

SwitchesFresh ==
    host = "preferences" /\ ~busy => \A f \in F!Field :
        /\ (\A c \in saves : f \notin DOMAIN c.sent) => draft[f] = stored[F!Mine][f]
        /\ \A c \in saves : f \in DOMAIN c.sent =>
               /\ c.row = F!Mine /\ c.touched = {f} /\ DOMAIN c.sent = {f}
               /\ draft[f] = c.sent[f]
               /\ stored[F!Mine][f] = IF c.done THEN c.sent[f] ELSE c.before[f]
               /\ \A d \in saves : f \in DOMAIN d.sent => c = d

SavesFresh ==
    host \notin {"lead", "convert"} =>
        \A c \in saves : ~c.done /\ c.row # None =>
            \A f \in F!Field \ c.touched :
                \/ Written(c)[f] = stored[c.row][f] \/ F!Leaves(f)
                \/ f = "unshown" /\ Written(c)[f] = None

Fresh == Good => RowsFresh /\ DraftFresh /\ ConfigFresh /\ ProfileFresh /\ SwitchesFresh
                 /\ SavesFresh

FormInv == FormTypes /\ FormPlaced /\ RequestsPlaced /\ HostPlaced /\ FieldsPlaced /\ Owned /\ Fresh

(* A fault that has happened stays a fault.                                  *)
LEMMA GoodStays ==
    ASSUME FormTypes, F!FormsNext, Good'
    PROVE  Good
<1>1. ~late' => ~late
  BY HistoryStep
<1>2. ASSUME NEW c \in saves, F!Commit(c) \/ F!Refuse(c) \/ F!ListSaved(c) \/ F!RecordSaved(c)
                         \/ F!DashboardSaved(c) \/ F!Converted(c) \/ F!ProfileSaved(c)
                         \/ F!ConfigSaved(c)
                         \/ F!BrandingSaved(c) \/ F!PreferenceSaved(c) \/ F!PreferenceFails(c)
      PROVE  (missed' = 0 => missed = 0) /\ (~crossed' => ~crossed)
  BY <1>2 DEF F!Commit, F!Refuse, F!Refused, F!Reread, F!ListSaved, F!RecordSaved,
              F!DashboardSaved, F!Converted,
              F!ProfileSaved, F!ConfigSaved, F!BrandingSaved, F!PreferenceSaved,
              F!PreferenceFails, FormTypes
<1>3. ASSUME Opening \/ F!Close \/ F!QuickCreate \/ F!QuickCreated \/ Typing
  \/ F!ConvertPipelines
                 \/ Submitting \/ ConfigSubmitting \/ F!ConfigArrives \/ F!Read \/ F!Arrive
      PROVE  UNCHANGED <<missed, crossed>>
  BY <1>3 DEF Opening, F!Opened, F!Close, F!QuickCreate, F!QuickCreated, Typing, F!Type,
              F!Clear,
              F!ConvertPipelines, Submitting, F!Save, ConfigSubmitting, F!ConfigSubmit,
              F!ConfigArrives,
              F!Read, F!Arrive
<1>4. F!ConfigOpen \/ F!PreferenceToggle => UNCHANGED missed /\ (~crossed' => ~crossed)
  BY DEF F!ConfigOpen, F!PreferenceToggle, FormTypes
<1>5. F!ConfigMissing \/ F!PreferencesArrive \/ F!ReadFails =>
          UNCHANGED crossed /\ (missed' = 0 => missed = 0)
  BY DEF F!ConfigMissing, F!PreferencesArrive, F!ReadFails, FormTypes
<1> QED BY <1>1, <1>2, <1>3, <1>4, <1>5, Steps DEF Good

(* A save that was refused before its commit changed nothing.                *)
LEMMA RefusedUndone ==
    ASSUME FormTypes, NEW c \in saves, F!Refused(c), Good'
    PROVE  ~c.done /\ saves' = saves \ {c}
BY DEF F!Refused, FormTypes, Good

(* Every commit is followed by a read: with none done, the rows are current. *)
LEMMA RowsFreshStep ==
    ASSUME FormInv, F!FormsNext, Good'
    PROVE  RowsFresh'
<1>0. /\ FormTypes /\ FormTypes' /\ host' = host /\ RowsFresh /\ Good
      /\ FormPlaced /\ RequestsPlaced
  BY TypesStep, GoodStays DEF FormInv, Fresh
<1>1. ASSUME UNCHANGED <<stored, seen>>, NoneDone' => NoneDone, UNCHANGED reads
      PROVE  RowsFresh'
  BY <1>0, <1>1 DEF RowsFresh
<1>2. ASSUME host \notin PageHosts
      PROVE  RowsFresh'
  BY <1>0, <1>2 DEF RowsFresh
<1>3. CASE Opening \/ F!Close \/ F!QuickCreate \/ F!QuickCreated \/ Typing
  <2>1. UNCHANGED <<stored, seen, saves, reads>>
    BY <1>3 DEF Opening, F!Opened, F!Close, F!QuickCreate, F!QuickCreated, Typing, F!Type,
                F!Clear
  <2> QED BY <1>1, <2>1 DEF NoneDone
<1>4. CASE F!ConvertPipelines \/ F!ConfigOpen \/ F!ConfigArrives \/ F!ConfigMissing
             \/ ConfigSubmitting
           \/ F!PreferencesArrive \/ F!PreferenceToggle
  BY <1>2, <1>4 DEF F!ConvertPipelines, F!ConfigOpen, F!ConfigArrives, F!ConfigMissing,
                    ConfigSubmitting,
                    F!PreferencesArrive, F!PreferenceToggle
<1>5. CASE Submitting
  <2>1. saves \subseteq saves' /\ UNCHANGED <<stored, seen, reads>>
    BY <1>5 DEF Submitting, F!Save
  <2> QED BY <1>1, <2>1 DEF NoneDone
<1>6. ASSUME NEW c \in saves, F!Commit(c)
      PROVE  RowsFresh'
  BY <1>0, <1>6, CommitsOne DEF RowsFresh, NoneDone
<1>7. ASSUME NEW c \in saves, F!Refuse(c)
      PROVE  RowsFresh'
  <2>1. ~c.done /\ saves' = saves \ {c} /\ UNCHANGED <<stored, seen, reads>>
    BY <1>0, <1>7, RefusedUndone DEF F!Refuse
  <2> QED BY <1>1, <2>1 DEF NoneDone
<1>8. ASSUME NEW c \in saves, F!ListSaved(c) \/ F!RecordSaved(c) \/ F!DashboardSaved(c)
      PROVE  RowsFresh'
  <2>1. reads' = {[opening |-> opening, got |-> None]}
    BY <1>0, <1>8, RereadPlaced DEF F!ListSaved, F!RecordSaved, F!DashboardSaved, Good
  <2>2. reads' # {} /\ \A l \in reads' : l.got = None
    BY <2>1
  <2> QED BY <2>2 DEF RowsFresh
<1>9. ASSUME NEW c \in saves, F!Converted(c) \/ F!ProfileSaved(c) \/ F!ConfigSaved(c)
                         \/ F!BrandingSaved(c) \/ F!PreferenceSaved(c) \/ F!PreferenceFails(c)
      PROVE  RowsFresh'
  BY <1>2, <1>9 DEF F!Converted, F!ProfileSaved, F!ConfigSaved, F!BrandingSaved,
                    F!PreferenceSaved,
                    F!PreferenceFails
<1>10. CASE F!Read
  <2>1. PICK l \in reads : reads' = (reads \ {l}) \cup {[l EXCEPT !.got = stored]}
    BY <1>10 DEF F!Read
  <2>2. PICK m : m = [l EXCEPT !.got = stored]
    OBVIOUS
  <2>3. m.got = stored
    BY <1>0, <2>2 DEF FormTypes, ReadRequests
  <2>4. reads' = (reads \ {l}) \cup {m} /\ UNCHANGED <<stored, seen, saves>>
    BY <1>10, <2>1, <2>2 DEF F!Read
  <2> QED BY <1>0, <2>3, <2>4 DEF RowsFresh, NoneDone
<1>11. CASE F!Arrive
  <2>1. PICK l \in reads : l.got # None /\ reads' = reads \ {l} /\ seen' = l.got
    BY <1>11 DEF F!Arrive
  <2>2. UNCHANGED <<stored, saves>>
    BY <1>11 DEF F!Arrive
  <2> QED BY <1>0, <2>1, <2>2 DEF RowsFresh, NoneDone
<1>12. CASE F!ReadFails
  <2>1. missed' = missed + 1 /\ missed \in Nat
    BY <1>0, <1>12 DEF F!ReadFails, FormTypes
  <2> QED BY <2>1 DEF Good
<1> QED BY <1>3, <1>4, <1>5, <1>6, <1>7, <1>8, <1>9, <1>10, <1>11, <1>12, Steps

(* What was not typed is what the page knows of the row.                     *)
LEMMA DraftFreshStep ==
    ASSUME FormInv, F!FormsNext, Good'
    PROVE  DraftFresh'
<1>0. /\ FormTypes /\ FormTypes' /\ host' = host /\ DraftFresh /\ Good
      /\ FormPlaced /\ RequestsPlaced
      /\ \A f : F!Leaves(f)' = F!Leaves(f)
      /\ F!FieldsOf(host) \subseteq F!Field
  BY TypesStep, GoodStays, HistoryStep, HostFields DEF FormInv, Fresh
<1>1. ASSUME UNCHANGED <<open, row, draft, touched, seen>>
      PROVE  DraftFresh'
  BY <1>0, <1>1 DEF DraftFresh
<1>2. ASSUME host \notin PageHosts \/ open' = FALSE
      PROVE  DraftFresh'
  BY <1>0, <1>2 DEF DraftFresh
<1>3. CASE Opening
  <2>1. PICK r \in Row \cup {None} : F!Opened(r) /\ (host = "dashboard" => r = None)
    BY <1>3 DEF Opening
  <2>2. ASSUME host \in PageHosts, r # None, NEW f \in F!FieldsOf(host)
        PROVE  draft'[f] = seen[r][f] \/ F!Leaves(f)
    <3>1. seen[r] \in Fields /\ seen[r] # None /\ draft' = F!Reset(draft, seen[r]) /\ draft \in Fields
      BY <1>0, <2>1, <2>2, RowFacts DEF F!Opened, FormTypes
    <3>2. \/ draft'[f] = seen[r][f]
          \/ f = "link" /\ host \in F!Deals /\ seen[r][f] = None /\ draft'[f] = draft[f]
      BY <2>2, <3>1, ResetFacts
    <3>3. host = "deals" => draft = F!Blank
      BY <2>1, <1>0 DEF FormPlaced, F!Opened, Good
    <3>4. host # "dashboard"
      BY <2>1, <2>2
    <3> QED BY <3>2, <3>3, <3>4 DEF F!Leaves, F!Deals, F!Blank, F!Field
  <2>3. row' = r /\ UNCHANGED <<host, seen>>
    BY <2>1 DEF F!Opened
  <2> QED BY <1>0, <2>2, <2>3 DEF DraftFresh
<1>4. CASE F!Close
  BY <1>2, <1>4 DEF F!Close, F!Shut
<1>5. CASE F!QuickCreated
  <2>1. CASE UNCHANGED <<draft, touched>>
    BY <1>1, <2>1, <1>5 DEF F!QuickCreated
  <2>2. CASE /\ draft' = [draft EXCEPT !.link = making]
             /\ touched' = IF open THEN touched \cup {"link"} ELSE touched
    <3>1. open => \A f \in F!Field \ touched' : draft'[f] = draft[f] /\ f \notin touched
      BY <1>0, <2>2 DEF FormTypes, Fields
    <3>2. UNCHANGED <<host, open, row, seen>>
      BY <1>5 DEF F!QuickCreated
    <3> QED BY <1>0, <3>1, <3>2 DEF DraftFresh
  <2> QED BY <1>5, <2>1, <2>2 DEF F!QuickCreated
<1>6. CASE Typing
  <2>1. PICK f \in F!Field : F!Type(f) \/ F!Clear(f)
    BY <1>6 DEF Typing
  <2>2. \A g \in F!Field \ touched' : draft'[g] = draft[g] /\ g \notin touched
    BY <1>0, <2>1 DEF F!Type, F!Clear, FormTypes, Fields
  <2>3. UNCHANGED <<host, open, row, seen>>
    BY <2>1 DEF F!Type, F!Clear
  <2> QED BY <1>0, <2>2, <2>3 DEF DraftFresh
<1>7. CASE F!ConvertPipelines \/ F!ConfigOpen \/ F!ConfigArrives \/ F!ConfigMissing
             \/ ConfigSubmitting
           \/ F!PreferencesArrive \/ F!PreferenceToggle
  BY <1>2, <1>7 DEF F!ConvertPipelines, F!ConfigOpen, F!ConfigArrives, F!ConfigMissing,
                    ConfigSubmitting,
                    F!PreferencesArrive, F!PreferenceToggle
<1>8. CASE F!QuickCreate \/ Submitting \/ F!Read
  BY <1>1, <1>8 DEF F!QuickCreate, Submitting, F!Save, F!Read
<1>9. ASSUME NEW c \in saves, F!Commit(c) \/ F!Refuse(c)
      PROVE  DraftFresh'
  BY <1>1, <1>9 DEF F!Commit, F!Refuse
<1>10. ASSUME NEW c \in saves, F!ListSaved(c) \/ F!RecordSaved(c) \/ F!DashboardSaved(c)
      PROVE  DraftFresh'
  BY <1>2, <1>10 DEF F!ListSaved, F!RecordSaved, F!DashboardSaved, F!Shut
<1>11. ASSUME NEW c \in saves, F!Converted(c) \/ F!ProfileSaved(c) \/ F!ConfigSaved(c)
                         \/ F!BrandingSaved(c) \/ F!PreferenceSaved(c) \/ F!PreferenceFails(c)
      PROVE  DraftFresh'
  BY <1>2, <1>11 DEF F!Converted, F!ProfileSaved, F!ConfigSaved, F!BrandingSaved,
                     F!PreferenceSaved,
                    F!PreferenceFails
<1>12. CASE F!Arrive
  <2>1. PICK l \in reads :
            /\ l.got # None /\ seen' = l.got
            /\ host \in F!Records => draft' = F!Reset(draft, l.got[F!Mine])
    BY <1>12 DEF F!Arrive
  <2>2. UNCHANGED <<open, row>>
    BY <1>12 DEF F!Arrive
  <2>3. CASE host \in F!Records
    <3>1. row = F!Mine /\ l.got[F!Mine] \in Fields /\ l.got[F!Mine] # None /\ draft \in Fields
      BY <1>0, <2>1, <2>3, RowFacts DEF FormPlaced, FormTypes, ReadRequests
    <3>2. \A f \in F!FieldsOf(host) :
              draft'[f] = l.got[F!Mine][f] \/ (f = "link" /\ host \in F!Deals)
      BY <2>1, <2>3, <3>1, ResetFacts
    <3>3. \A f \in F!FieldsOf(host) : draft'[f] = seen'[F!Mine][f] \/ F!Leaves(f)
      BY <2>1, <2>3, <3>2 DEF F!Leaves, F!Deals
    <3> QED BY <1>0, <2>2, <3>1, <3>3 DEF DraftFresh
  <2>4. CASE host \in F!Lists \cup {"dashboard"}
    <3>1. ~(open /\ row # None)
      BY <1>0, <2>4 DEF FormPlaced, RequestsPlaced, Good
    <3> QED BY <2>2, <3>1 DEF DraftFresh
  <2> QED BY <1>2, <2>3, <2>4
<1>13. CASE F!ReadFails
  <2>1. missed' = missed + 1 /\ missed \in Nat
    BY <1>0, <1>13 DEF F!ReadFails, FormTypes
  <2> QED BY <2>1 DEF Good
<1> QED BY <1>3, <1>4, <1>5, <1>6, <1>7, <1>8, <1>9, <1>10, <1>11, <1>12, <1>13, Steps

(* The same for the dialogs that read their configuration.                   *)
LEMMA ConfigFreshStep ==
    ASSUME FormInv, F!FormsNext, Good'
    PROVE  ConfigFresh'
<1>0. /\ FormTypes /\ FormTypes' /\ host' = host /\ ConfigFresh /\ Good
      /\ FormPlaced /\ RequestsPlaced /\ F!Filled' = F!Filled /\ F!Filled \subseteq F!Field
  <2>1. host' = host /\ Good
    BY TypesStep, GoodStays DEF FormInv
  <2>2. F!Filled' = F!Filled /\ F!Filled \subseteq F!Field
    BY <2>1 DEF F!Filled, F!Field
  <2> QED BY <2>1, <2>2, TypesStep DEF FormInv, Fresh
<1>1. ASSUME host \notin Fetched \/ open' = FALSE
      PROVE  ConfigFresh'
  BY <1>0, <1>1 DEF ConfigFresh
<1>2. ASSUME UNCHANGED <<open, stored, reads, touched, draft>>,
             NoneDone' => NoneDone
      PROVE  ConfigFresh'
  BY <1>0, <1>2 DEF ConfigFresh
<1>3. CASE Opening \/ F!Arrive \/ F!ReadFails \/ F!ConvertPipelines \/ F!PreferencesArrive
             \/ F!PreferenceToggle
  BY <1>1, <1>3 DEF Opening, F!Arrive, F!ReadFails, F!ConvertPipelines, F!PreferencesArrive,
                    F!PreferenceToggle
<1>4. ASSUME NEW c \in saves, F!ListSaved(c) \/ F!RecordSaved(c) \/ F!DashboardSaved(c)
                 \/ F!Converted(c)
                         \/ F!ProfileSaved(c) \/ F!PreferenceSaved(c) \/ F!PreferenceFails(c)
                         \/ F!ConfigSaved(c)
      PROVE  ConfigFresh'
  BY <1>1, <1>4 DEF F!ListSaved, F!RecordSaved, F!DashboardSaved, F!Converted, F!ProfileSaved,
                    F!PreferenceSaved, F!PreferenceFails, F!ConfigSaved, F!Shut
<1>5. CASE F!Close
  BY <1>1, <1>5 DEF F!Close, F!Shut
<1>6. CASE F!QuickCreate
  BY <1>2, <1>6 DEF F!QuickCreate, NoneDone
<1>7. CASE F!QuickCreated
  <2>1. host \notin Fetched
    BY <1>7 DEF FormInv, HostPlaced, F!QuickCreated, F!Linked
  <2> QED BY <1>1, <2>1
<1>8. CASE Typing
  <2>1. PICK f \in F!Field : F!Type(f) \/ F!Clear(f)
    BY <1>8 DEF Typing
  <2>2. \A g \in F!Field \ touched' : draft'[g] = draft[g] /\ g \notin touched
    BY <1>0, <2>1 DEF F!Type, F!Clear, FormTypes, Fields
  <2>3. UNCHANGED <<open, stored, reads, saves>>
    BY <2>1 DEF F!Type, F!Clear
  <2> QED BY <1>0, <2>2, <2>3 DEF ConfigFresh, NoneDone
<1>9. CASE Submitting \/ ConfigSubmitting
  <2>1. saves \subseteq saves' /\ UNCHANGED <<open, stored, reads, touched, draft>>
    BY <1>9 DEF Submitting, F!Save, ConfigSubmitting, F!ConfigSubmit
  <2> QED BY <1>2, <2>1 DEF NoneDone
<1>10. CASE F!ConfigOpen
  <2>1. reads = {}
    BY <1>0, <1>10 DEF F!ConfigOpen, Good, FormTypes
  <2>2. reads' # {} /\ \A l \in reads' : l.got = None
    BY <1>10, <2>1 DEF F!ConfigOpen
  <2> QED BY <2>2 DEF ConfigFresh
<1>11. CASE F!ConfigArrives
  <2>1. PICK l \in reads :
            /\ l.got # None /\ reads' = reads \ {l}
            /\ draft' = [f \in F!Field |-> IF f \in F!Filled THEN l.got[F!Mine][f] ELSE draft[f]]
    BY <1>11 DEF F!ConfigArrives
  <2>2. \A f \in F!Filled : draft'[f] = l.got[F!Mine][f]
    BY <1>0, <2>1
  <2>3. UNCHANGED <<open, stored, saves>>
    BY <1>11 DEF F!ConfigArrives
  <2> QED BY <1>0, <2>1, <2>2, <2>3 DEF ConfigFresh, NoneDone
<1>12. CASE F!ConfigMissing
  <2>1. missed' = missed + 1 /\ missed \in Nat
    BY <1>0, <1>12 DEF F!ConfigMissing, FormTypes
  <2> QED BY <2>1 DEF Good
<1>13. ASSUME NEW c \in saves, F!Commit(c)
       PROVE  ConfigFresh'
  BY <1>0, <1>13, CommitsOne DEF ConfigFresh, NoneDone
<1>14. ASSUME NEW c \in saves, F!Refuse(c)
       PROVE  ConfigFresh'
  <2>1. ~c.done /\ saves' = saves \ {c} /\ UNCHANGED <<open, stored, reads, touched, draft>>
    BY <1>0, <1>14, RefusedUndone DEF F!Refuse
  <2> QED BY <1>2, <2>1 DEF NoneDone
<1>15. ASSUME NEW c \in saves, F!BrandingSaved(c)
       PROVE  ConfigFresh'
  <2>1. reads' = {[opening |-> opening, got |-> None]}
    BY <1>0, <1>15, RereadPlaced DEF F!BrandingSaved, Good
  <2>2. reads' # {} /\ \A l \in reads' : l.got = None
    BY <2>1
  <2> QED BY <2>2 DEF ConfigFresh
<1>16. CASE F!Read
  <2>1. PICK l \in reads : reads' = (reads \ {l}) \cup {[l EXCEPT !.got = stored]}
    BY <1>16 DEF F!Read
  <2>2. PICK m : m = [l EXCEPT !.got = stored]
    OBVIOUS
  <2>3. m.got = stored
    BY <1>0, <2>2 DEF FormTypes, ReadRequests
  <2>4. reads' = (reads \ {l}) \cup {m} /\ UNCHANGED <<open, stored, saves>>
    BY <1>16, <2>1, <2>2 DEF F!Read
  <2> QED BY <1>0, <2>3, <2>4 DEF ConfigFresh, NoneDone
<1> QED BY <1>3, <1>4, <1>5, <1>6, <1>7, <1>8, <1>9, <1>10, <1>11, <1>12, <1>13, <1>14, <1>15,
           <1>16, Steps

(* The same for the profile, which begins empty.                             *)
LEMMA ProfileFreshStep ==
    ASSUME FormInv, F!FormsNext, Good'
    PROVE  ProfileFresh'
<1>0. /\ FormTypes /\ FormTypes' /\ host' = host /\ ProfileFresh /\ Good
      /\ FormPlaced /\ RequestsPlaced
  BY TypesStep, GoodStays DEF FormInv, Fresh
<1>1. ASSUME host # "profile"
      PROVE  ProfileFresh'
  BY <1>0, <1>1 DEF ProfileFresh
<1>2. ASSUME UNCHANGED <<stored, draft, touched>>, NoneDone' => NoneDone
      PROVE  ProfileFresh'
  BY <1>0, <1>2 DEF ProfileFresh
<1>3. CASE Opening \/ F!ReadFails \/ F!ConvertPipelines \/ F!PreferencesArrive
             \/ F!PreferenceToggle
           \/ F!ConfigOpen \/ F!ConfigArrives \/ F!ConfigMissing \/ ConfigSubmitting
           \/ F!QuickCreate
  BY <1>1, <1>3 DEF Opening, F!ReadFails, F!ConvertPipelines, F!PreferencesArrive,
                    F!PreferenceToggle,
                    F!ConfigOpen, F!ConfigArrives, F!ConfigMissing, ConfigSubmitting,
                    F!QuickCreate, F!Linked
<1>4. ASSUME NEW c \in saves, F!ListSaved(c) \/ F!RecordSaved(c) \/ F!DashboardSaved(c)
                 \/ F!Converted(c)
                         \/ F!PreferenceSaved(c) \/ F!PreferenceFails(c) \/ F!ConfigSaved(c)
                         \/ F!BrandingSaved(c)
      PROVE  ProfileFresh'
  BY <1>1, <1>4 DEF F!ListSaved, F!RecordSaved, F!DashboardSaved, F!Converted,
                    F!PreferenceSaved, F!PreferenceFails, F!ConfigSaved, F!BrandingSaved
<1>5. CASE F!Close \/ F!QuickCreated
  BY <1>1, <1>5 DEF F!Close, F!QuickCreated, FormInv, HostPlaced, F!Linked
<1>6. CASE Typing
  <2>1. PICK f \in F!Field : F!Type(f) \/ F!Clear(f)
    BY <1>6 DEF Typing
  <2>2. \A g \in F!Field \ touched' : draft'[g] = draft[g] /\ g \notin touched
    BY <1>0, <2>1 DEF F!Type, F!Clear, FormTypes, Fields
  <2>3. UNCHANGED <<stored, saves>>
    BY <2>1 DEF F!Type, F!Clear
  <2> QED BY <1>0, <2>2, <2>3 DEF ProfileFresh, NoneDone
<1>7. CASE Submitting
  <2>1. saves \subseteq saves' /\ UNCHANGED <<stored, touched, draft>>
    BY <1>7 DEF Submitting, F!Save
  <2> QED BY <1>2, <2>1 DEF NoneDone
<1>8. ASSUME NEW c \in saves, F!Commit(c)
      PROVE  ProfileFresh'
  BY <1>0, <1>8, CommitsOne DEF ProfileFresh, NoneDone
<1>9. ASSUME NEW c \in saves, F!Refuse(c)
      PROVE  ProfileFresh'
  <2>1. ~c.done /\ saves' = saves \ {c} /\ UNCHANGED <<stored, touched, draft>>
    BY <1>0, <1>9, RefusedUndone DEF F!Refuse
  <2> QED BY <1>2, <2>1 DEF NoneDone
<1>10. ASSUME NEW c \in saves, F!ProfileSaved(c)
       PROVE  ProfileFresh'
  BY <1>10 DEF F!ProfileSaved, ProfileFresh
<1>11. CASE F!Read \/ F!Arrive
  <2>1. reads # {}
    BY <1>11 DEF F!Read, F!Arrive
  <2> QED BY <1>0, <1>1, <2>1 DEF RequestsPlaced
<1> QED BY <1>3, <1>4, <1>5, <1>6, <1>7, <1>8, <1>9, <1>10, <1>11, Steps

(* What a save sends and the user did not type is what the server has.       *)
LEMMA SavesFreshStep ==
    ASSUME FormInv, F!FormsNext, Good'
    PROVE  SavesFresh'
<1>0. /\ FormTypes /\ FormTypes' /\ host' = host /\ SavesFresh /\ Good
      /\ FormPlaced /\ RequestsPlaced /\ FieldsPlaced
      /\ \A f : F!Leaves(f)' = F!Leaves(f)
  BY TypesStep, GoodStays, HistoryStep DEF FormInv, Fresh
<1>1. ASSUME saves' \subseteq saves, UNCHANGED stored
      PROVE  SavesFresh'
  BY <1>0, <1>1 DEF SavesFresh, Written, F!Kept
<1>2. ASSUME host \in {"lead", "convert"}
      PROVE  SavesFresh'
  BY <1>0, <1>2 DEF SavesFresh
<1>3. CASE Submitting \/ ConfigSubmitting
  <2>1. PICK c \in SaveRequests : /\ saves' = saves \cup {c} /\ saves = {}
                                  /\ c.row = row /\ c.touched = touched /\ Sending(c.sent)
    BY <1>0, <1>3, Submitted
  <2>2. saves' = {c} /\ saves = {} /\ UNCHANGED stored
    BY <1>3, <2>1 DEF Submitting, F!Save, ConfigSubmitting, F!ConfigSubmit
  <2>4. NoneDone
    BY <2>2 DEF NoneDone
  <2>5. ASSUME Submitting, host \in PageHosts \ {"lead"}, row # None,
               NEW f \in F!FieldsOf(host) \ touched
        PROVE  draft[f] = stored[row][f] \/ F!Leaves(f)
    <3>1. open /\ (host \in {"contact", "company", "deal"} => reads = {})
      BY <2>5 DEF Submitting, F!Saving
    <3>2. reads = {}
      BY <1>0, <2>5, <3>1 DEF FormPlaced, RequestsPlaced, Good
    <3>3. seen = stored
      BY <2>4, <2>5, <3>2, <1>0 DEF FormInv, Fresh, RowsFresh
    <3>4. draft[f] = seen[row][f] \/ F!Leaves(f)
      BY <2>5, <3>1, <1>0 DEF FormInv, Fresh, DraftFresh
    <3> QED BY <3>3, <3>4
  <2>6. ASSUME host = "profile", NEW f \in F!Field \ touched, draft[f] # None
        PROVE  draft[f] = stored[row][f]
    BY <2>4, <2>6, <1>0 DEF FormInv, Fresh, ProfileFresh, FormPlaced
  <2>7. ASSUME ConfigSubmitting, NEW f \in F!FieldsOf(host) \ touched
        PROVE  draft[f] = stored[row][f] \/ F!Leaves(f)
    <3>1. host \in Fetched /\ open /\ reads = {}
      BY <2>7, <1>0 DEF ConfigSubmitting, F!ConfigSubmit, Good, FormTypes
    <3>2. row = F!Mine
      BY <3>1, <1>0 DEF FormPlaced
    <3>3. f \in F!Filled \/ F!Leaves(f)
      BY <3>1, <2>7, FilledFields
    <3> QED BY <2>4, <2>7, <3>1, <3>2, <3>3, <1>0 DEF FormInv, Fresh, ConfigFresh
  <2>8. ASSUME host \notin {"lead", "convert"}, row # None, NEW f \in F!Field \ touched
        PROVE  \/ Written(c)[f] = stored[row][f] \/ F!Leaves(f)
               \/ f = "unshown" /\ Written(c)[f] = None
    <3>1. Written(c)[f] = IF f \in DOMAIN c.sent THEN c.sent[f] ELSE F!Kept(stored[row])[f]
      BY <2>1 DEF Written
    <3>2. F!Kept(stored[row])[f] = IF host \in {"whatsapp_config", "lead_config"}
                                   THEN None ELSE stored[row][f]
      BY DEF F!Kept, F!Blank
    <3>3. CASE f = "unshown"
      BY <2>1, <3>1, <3>2, <3>3 DEF Sending
    <3>4. CASE f \in F!FieldsOf(host)
      <4>1. f # "unshown"
        BY <3>4, HostFields
      <4>2. host = "profile" \/ ConfigSubmitting \/ (Submitting /\ host \in PageHosts \ {"lead"})
        BY <1>3, <2>8 DEF Submitting
      <4>3. draft[f] # None => draft[f] = stored[row][f] \/ F!Leaves(f)
        BY <2>5, <2>6, <2>7, <2>8, <3>4, <4>2
      <4>4. CASE f \in DOMAIN c.sent
        BY <2>1, <3>1, <4>1, <4>3, <4>4 DEF Sending
      <4>5. CASE f \notin DOMAIN c.sent
        <5>1. draft[f] = None
          BY <2>1, <3>4, <4>5 DEF Sending
        <5>2. host \in {"whatsapp_config", "lead_config"} => stored[row][f] = None \/ F!Leaves(f)
          BY <1>3, <2>7, <2>8, <3>4, <5>1 DEF Submitting
        <5> QED BY <3>1, <3>2, <4>5, <5>2
      <4> QED BY <4>4, <4>5
    <3>5. CASE f \notin F!FieldsOf(host) /\ f # "unshown"
      <4>1. f \notin DOMAIN c.sent
        BY <2>1, <3>5 DEF Sending
      <4>2. host # "whatsapp_config"
        BY <2>8, <3>5 DEF F!FieldsOf, F!Field
      <4>3. host = "lead_config" => f = "link"
        BY <2>8, <3>5 DEF F!FieldsOf, F!Field
      <4>4. row \in Row
        BY <1>0, <2>8 DEF FormTypes
      <4> QED BY <1>0, <3>1, <3>2, <4>1, <4>2, <4>3, <4>4 DEF FieldsPlaced
    <3> QED BY <3>3, <3>4, <3>5
  <2>9. Written(c)' = Written(c)
    BY <1>0, <2>2 DEF Written, F!Kept
  <2> QED BY <1>0, <2>1, <2>2, <2>8, <2>9 DEF SavesFresh
<1>4. CASE F!PreferenceToggle
  <2>1. PICK f \in F!Field :
            saves' = saves \cup {[row |-> row, sent |-> [g \in {f} |-> <<row, opening + 1>>],
                                  opening |-> opening + 1, done |-> FALSE,
                                  touched |-> {f}, before |-> draft]}
    BY <1>4, HostFields DEF F!PreferenceToggle
  <2>2. PICK e : e = [row |-> row, sent |-> [g \in {f} |-> <<row, opening + 1>>],
                      opening |-> opening + 1, done |-> FALSE,
                      touched |-> {f}, before |-> draft]
    OBVIOUS
  <2>3. saves' = saves \cup {e} /\ DOMAIN e.sent \ e.touched = {}
    BY <2>1, <2>2
  <2>4. UNCHANGED stored /\ host = "preferences"
    BY <1>4 DEF F!PreferenceToggle
  <2> QED BY <1>0, <2>3, <2>4 DEF SavesFresh, Written, F!Kept
<1>5. ASSUME NEW c \in saves, F!Commit(c)
      PROVE  SavesFresh'
  <2>1. PICK d \in SaveRequests : saves' = (saves \ {c}) \cup {d} /\ d.done
    BY <1>0, <1>5, CommitsOne
  <2>2. CASE host # "preferences"
    <3>1. saves' = {d}
      BY <1>0, <2>1, <2>2 DEF RequestsPlaced
    <3> QED BY <2>1, <3>1 DEF SavesFresh
  <2>3. CASE host = "preferences"
    <3>1. ~busy
      BY <1>0, <2>3 DEF RequestsPlaced
    <3>2. \A e \in saves : \A f \in DOMAIN e.sent : f \in e.touched
      <4>1. \A e \in saves : DOMAIN e.sent \subseteq F!Field
        BY <1>0 DEF FormTypes, SaveRequests, Sent
      <4> QED BY <1>0, <2>3, <3>1, <4>1 DEF FormInv, Fresh, SwitchesFresh
    <3> QED BY <1>0, <2>1, <2>3, <3>2 DEF SavesFresh, Written, F!Kept
  <2> QED BY <2>2, <2>3
<1>6. CASE Opening \/ F!Close \/ F!QuickCreate \/ F!QuickCreated \/ Typing
             \/ F!ConvertPipelines
             \/ F!ConfigOpen \/ F!ConfigArrives \/ F!ConfigMissing \/ F!PreferencesArrive
             \/ F!Read \/ F!Arrive \/ F!ReadFails
  <2>1. UNCHANGED <<stored, saves>>
    BY <1>6 DEF Opening, F!Opened, F!Close, F!QuickCreate, F!QuickCreated, Typing, F!Type,
                F!Clear,
                F!ConvertPipelines, F!ConfigOpen, F!ConfigArrives, F!ConfigMissing,
                F!PreferencesArrive,
                F!Read, F!Arrive, F!ReadFails
  <2> QED BY <1>1, <2>1
<1>7. ASSUME NEW c \in saves,
             F!Refuse(c) \/ F!ListSaved(c) \/ F!RecordSaved(c) \/ F!DashboardSaved(c) \/ F!Converted(c)
                 \/ F!ProfileSaved(c) \/ F!ConfigSaved(c) \/ F!BrandingSaved(c)
                 \/ F!PreferenceSaved(c)
                 \/ F!PreferenceFails(c)
      PROVE  SavesFresh'
  <2>1. UNCHANGED stored /\ saves' = saves \ {c}
    BY <1>7 DEF F!Refuse, F!Refused, F!ListSaved, F!RecordSaved, F!DashboardSaved,
                F!Converted, F!ProfileSaved,
                F!ConfigSaved, F!BrandingSaved, F!PreferenceSaved, F!PreferenceFails
  <2> QED BY <1>1, <2>1
<1> QED BY <1>3, <1>4, <1>5, <1>6, <1>7, Steps

(* A switch shows what is set, or what its one request will set.             *)
LEMMA SwitchesFreshStep ==
    ASSUME FormInv, F!FormsNext, Good'
    PROVE  SwitchesFresh'
<1>0. /\ FormTypes /\ FormTypes' /\ host' = host /\ SwitchesFresh /\ Good
      /\ FormPlaced /\ RequestsPlaced
  BY TypesStep, GoodStays DEF FormInv, Fresh
<1>1. CASE host # "preferences"
  BY <1>0, <1>1 DEF SwitchesFresh
<1>2. SUFFICES ASSUME host = "preferences" PROVE SwitchesFresh'
  BY <1>1
<1>3. \/ F!PreferencesArrive \/ F!PreferenceToggle
      \/ \E c \in saves : F!Commit(c) \/ F!PreferenceSaved(c) \/ F!PreferenceFails(c)
  <2>1. ~(Opening \/ F!Close \/ F!QuickCreate \/ Typing \/ F!ConvertPipelines \/ Submitting
             \/ F!ConfigOpen \/ F!ConfigArrives \/ F!ConfigMissing \/ ConfigSubmitting
             \/ F!ReadFails)
    BY <1>2 DEF Opening, F!Close, F!QuickCreate, Typing, F!ConvertPipelines, Submitting,
                F!ConfigOpen, F!ConfigArrives, F!ConfigMissing, ConfigSubmitting,
                F!ReadFails, F!Linked
  <2>2. ~F!QuickCreated
    BY <1>2 DEF FormInv, HostPlaced, F!QuickCreated, F!Linked
  <2>3. ~(F!Read \/ F!Arrive)
    BY <1>0, <1>2 DEF RequestsPlaced, F!Read, F!Arrive
  <2>4. \A c \in saves : ~(F!Refuse(c) \/ F!ListSaved(c) \/ F!RecordSaved(c) \/ F!DashboardSaved(c)
                              \/ F!Converted(c) \/ F!ProfileSaved(c) \/ F!ConfigSaved(c)
                              \/ F!BrandingSaved(c))
    BY <1>2 DEF F!Refuse, F!ListSaved, F!RecordSaved, F!DashboardSaved, F!Converted,
                F!ProfileSaved,
                F!ConfigSaved, F!BrandingSaved
  <2> QED BY <2>1, <2>2, <2>3, <2>4, Steps
<1>4. CASE F!PreferencesArrive
  <2>1. saves = {} /\ UNCHANGED <<stored, saves>>
    BY <1>0, <1>2, <1>4 DEF RequestsPlaced, F!PreferencesArrive
  <2>2. draft' = stored[F!Mine]
    <3>1. missed' = missed + 1 => missed' # 0
      BY <1>0 DEF FormTypes
    <3> QED BY <1>4, <3>1 DEF F!PreferencesArrive, Good
  <2> QED BY <2>1, <2>2 DEF SwitchesFresh
<1>5. CASE F!PreferenceToggle
  <2>1. PICK f \in F!Field :
            /\ draft' = [draft EXCEPT ![f] = <<row, opening + 1>>]
            /\ saves' = saves \cup {[row |-> row, sent |-> [g \in {f} |-> <<row, opening + 1>>],
                                     opening |-> opening + 1, done |-> FALSE,
                                     touched |-> {f}, before |-> draft]}
            /\ crossed' = (crossed \/ \E c \in saves : f \in DOMAIN c.sent)
    BY <1>5, HostFields DEF F!PreferenceToggle
  <2>2. PICK e : e = [row |-> row, sent |-> [g \in {f} |-> <<row, opening + 1>>],
                      opening |-> opening + 1, done |-> FALSE,
                      touched |-> {f}, before |-> draft]
    OBVIOUS
  <2>3. /\ e.row = F!Mine /\ e.touched = {f} /\ DOMAIN e.sent = {f} /\ ~e.done
        /\ e.before = draft /\ e.sent[f] = <<row, opening + 1>>
    BY <1>0, <1>2, <2>2 DEF FormPlaced
  <2>4. /\ draft'[f] = e.sent[f]
        /\ \A g \in F!Field \ {f} : draft'[g] = draft[g]
    BY <1>0, <2>1, <2>3 DEF FormTypes, Fields
  <2>5. \A c \in saves : f \notin DOMAIN c.sent
    BY <2>1 DEF Good
  <2>6. saves' = saves \cup {e} /\ UNCHANGED stored /\ ~busy
    BY <1>5, <2>1, <2>2 DEF F!PreferenceToggle
  <2>7. draft[f] = stored[F!Mine][f]
    BY <1>0, <1>2, <2>5, <2>6 DEF SwitchesFresh
  <2>8. ASSUME NEW g \in F!Field \ {f}
        PROVE  /\ (\A c \in saves' : g \notin DOMAIN c.sent) => draft'[g] = stored'[F!Mine][g]
               /\ \A c \in saves' : g \in DOMAIN c.sent =>
                      /\ c.row = F!Mine /\ c.touched = {g} /\ DOMAIN c.sent = {g}
                      /\ draft'[g] = c.sent[g]
                      /\ stored'[F!Mine][g] = IF c.done THEN c.sent[g] ELSE c.before[g]
                      /\ \A d \in saves' : g \in DOMAIN d.sent => c = d
    BY <1>0, <1>2, <2>3, <2>4, <2>6 DEF SwitchesFresh
  <2>9. \A c \in saves' : f \in DOMAIN c.sent =>
            /\ c = e /\ stored'[F!Mine][f] = IF c.done THEN c.sent[f] ELSE c.before[f]
            /\ \A d \in saves' : f \in DOMAIN d.sent => c = d
    BY <2>3, <2>5, <2>6, <2>7
  <2>10. e \in saves' /\ f \in DOMAIN e.sent
    BY <2>3, <2>6
  <2> QED BY <2>3, <2>4, <2>8, <2>9, <2>10 DEF SwitchesFresh
<1>6. ASSUME NEW c \in saves, F!Commit(c)
      PROVE  SwitchesFresh'
  <2>1. PICK d \in SaveRequests : /\ saves' = (saves \ {c}) \cup {d}
                           /\ d.done /\ d.row = c.row /\ d.sent = c.sent
                           /\ d.touched = c.touched /\ d.before = c.before
    BY <1>0, <1>6, CommitsOne
  <2>2. ~busy /\ UNCHANGED <<busy, draft>>
    BY <1>0, <1>2, <1>6 DEF RequestsPlaced, F!Commit
  <2>3. c.row \in Row \cup {None} /\ DOMAIN c.sent \subseteq F!Field
    BY <1>0 DEF FormTypes, SaveRequests, Sent
  <2>4. \A g \in F!Field :
            stored'[F!Mine][g] = IF g \in DOMAIN c.sent THEN c.sent[g] ELSE stored[F!Mine][g]
    <3>1. CASE DOMAIN c.sent = {}
      <4>1. stored' = stored \/ stored' = [stored EXCEPT ![c.row] = Written(c)]
        BY <1>6 DEF F!Commit, Written
      <4> QED BY <1>0, <1>2, <2>3, <3>1, <4>1, RowFacts DEF FormTypes, Fields, Written, F!Kept
    <3>2. CASE DOMAIN c.sent # {}
      <4>1. c.row = F!Mine
        BY <1>0, <1>2, <2>2, <2>3, <3>2 DEF SwitchesFresh
      <4>2. stored' = [stored EXCEPT ![c.row] = Written(c)]
        BY <1>2, <1>6, <4>1, RowFacts DEF F!Commit, Written
      <4> QED BY <1>0, <1>2, <4>1, <4>2, RowFacts DEF FormTypes, Written, F!Kept
    <3> QED BY <3>1, <3>2
  <2>5. ASSUME NEW g \in F!Field, g \in DOMAIN c.sent
        PROVE  /\ c.row = F!Mine /\ c.touched = {g} /\ DOMAIN c.sent = {g}
               /\ draft[g] = c.sent[g] /\ stored'[F!Mine][g] = c.sent[g]
               /\ \A e \in saves : g \in DOMAIN e.sent => c = e
    BY <1>0, <1>2, <2>2, <2>4, <2>5 DEF SwitchesFresh
  <2>6. ASSUME NEW g \in F!Field, g \notin DOMAIN c.sent
        PROVE  /\ (\A e \in saves' : g \notin DOMAIN e.sent) => draft'[g] = stored'[F!Mine][g]
               /\ \A e \in saves' : g \in DOMAIN e.sent =>
                      /\ e.row = F!Mine /\ e.touched = {g} /\ DOMAIN e.sent = {g}
                      /\ draft'[g] = e.sent[g]
                      /\ stored'[F!Mine][g] = IF e.done THEN e.sent[g] ELSE e.before[g]
                      /\ \A h \in saves' : g \in DOMAIN h.sent => e = h
    BY <1>0, <1>2, <2>1, <2>2, <2>4, <2>6 DEF SwitchesFresh
  <2>7. ASSUME NEW g \in F!Field, g \in DOMAIN c.sent
        PROVE  /\ d \in saves' /\ g \in DOMAIN d.sent
               /\ \A e \in saves' : g \in DOMAIN e.sent =>
                      /\ e.row = F!Mine /\ e.touched = {g} /\ DOMAIN e.sent = {g}
                      /\ draft'[g] = e.sent[g]
                      /\ stored'[F!Mine][g] = IF e.done THEN e.sent[g] ELSE e.before[g]
                      /\ \A h \in saves' : g \in DOMAIN h.sent => e = h
    BY <2>1, <2>2, <2>5, <2>7
  <2> QED BY <2>6, <2>7 DEF SwitchesFresh
<1>7. ASSUME NEW c \in saves, NEW D \in SUBSET F!Field, D = DOMAIN c.sent, ~busy,
             saves' = saves \ {c}, UNCHANGED <<busy, stored>>,
             \A f \in F!Field \ D : draft'[f] = draft[f],
             \A f \in D : draft'[f] = stored[F!Mine][f]
      PROVE  SwitchesFresh'
  BY <1>0, <1>2, <1>7 DEF SwitchesFresh
<1>8. ASSUME NEW c \in saves, F!PreferenceSaved(c) \/ F!PreferenceFails(c)
      PROVE  SwitchesFresh'
  <2>1. ~busy /\ UNCHANGED <<busy, stored>> /\ saves' = saves \ {c}
    BY <1>0, <1>2, <1>8 DEF RequestsPlaced, F!PreferenceSaved, F!PreferenceFails, F!Refused
  <2>2. DOMAIN c.sent \subseteq F!Field
    BY <1>0 DEF FormTypes, SaveRequests, Sent
  <2>3. \A f \in F!Field \ DOMAIN c.sent : draft'[f] = draft[f]
    BY <1>8 DEF F!PreferenceSaved, F!PreferenceFails
  <2>4. ASSUME F!PreferenceSaved(c), NEW f \in DOMAIN c.sent
        PROVE  draft'[f] = stored[F!Mine][f]
    BY <1>0, <1>2, <2>1, <2>2, <2>4 DEF SwitchesFresh, F!PreferenceSaved
  <2>5. ASSUME F!PreferenceFails(c), NEW f \in DOMAIN c.sent
        PROVE  draft'[f] = stored[F!Mine][f]
    <3>1. ~c.done
      BY <1>0, <2>5, RefusedUndone DEF F!PreferenceFails
    <3>2. draft'[f] = c.before[f]
      BY <2>2, <2>5 DEF F!PreferenceFails
    <3> QED BY <1>0, <1>2, <2>1, <2>2, <3>1, <3>2 DEF SwitchesFresh
  <2> QED BY <1>7, <1>8, <2>1, <2>2, <2>3, <2>4, <2>5
<1> QED BY <1>3, <1>4, <1>5, <1>6, <1>8

-----------------------------------------------------------------------------
(* FormInv holds when the page is loaded,                                    *)
LEMMA FormsInitInv == F!FormsInit => FormInv
<1> SUFFICES ASSUME F!FormsInit PROVE FormInv
  OBVIOUS
<1>1. PICK linked \in {{}, {F!Mine}, Row} :
          /\ linked # {} => host \in F!Linked
          /\ stored = [r \in Row |->
                 [note |-> <<r, 0>>,
                  link |-> IF r \in linked \/ host \in {"profile", "preferences", "branding"}
                           THEN <<r, 0>> ELSE None,
                  unshown |-> IF r = F!Mine /\ host \in {"deals", "deal", "lead_config"}
                              THEN <<r, 0>> ELSE None]]
  BY DEF F!FormsInit
<1>2. ASSUME NEW r \in Row
      PROVE  /\ stored[r] \in Fields
             /\ \A f \in F!Field : stored[r][f] \in {<<r, 0>>, None}
  BY <1>1 DEF Fields, F!Field, Value
<1>3. stored \in [Row -> Fields]
  <2>1. stored = [r \in Row |-> stored[r]]
    BY <1>1
  <2> QED BY <1>2, <2>1
<1>4. /\ seen = stored /\ saves = {} /\ kept = {} /\ missed = 0 /\ made = 0
      /\ making = None /\ touched = {} /\ crossed = FALSE /\ late = FALSE
      /\ open = (host \in {"profile", "preferences", "branding"}) /\ busy = (host = "preferences")
      /\ row = IF host \in F!Records \cup {"profile", "preferences", "branding"}
               THEN F!Mine ELSE None
      /\ opening = IF host \in {"profile", "branding"} THEN 1 ELSE 0
      /\ reads = IF host = "branding" THEN {[opening |-> 1, got |-> None]} ELSE {}
      /\ draft = F!Begun
  BY DEF F!FormsInit
<1>5. /\ draft \in Fields
      /\ host \notin F!Configs \cup {"branding"} => draft = F!Blank
  BY <1>4, RowFacts DEF F!Begun, F!Default, F!Blank, Fields, F!Field, Value
<1>6. reads \subseteq ReadRequests /\ (\A l \in reads : l.got = None)
  BY <1>4 DEF ReadRequests
<1>7. FormTypes
  <2>1. open \in BOOLEAN /\ busy \in BOOLEAN
    BY <1>4
  <2> QED BY <1>3, <1>4, <1>5, <1>6, <2>1, RowFacts DEF FormTypes, Value
<1>8. FormPlaced /\ RequestsPlaced /\ HostPlaced
  BY <1>4, <1>5 DEF FormPlaced, RequestsPlaced, HostPlaced
<1>9. FieldsPlaced
  <2>1. host = "lead_config" => linked = {}
    BY <1>1 DEF F!Linked
  <2>2. host = "lead_config" => \A r \in Row : stored[r]["link"] = None
    BY <1>1, <2>1
  <2> QED BY <1>4, <2>2 DEF FieldsPlaced
<1>10. Owned
  <2>1. SentOwned
    BY <1>4 DEF SentOwned
  <2>2. RowsOwned
    BY <1>2, <1>4, <1>6 DEF RowsOwned, Own
  <2>3. DraftOwned
    <3>1. host = "branding" => reads # {}
      BY <1>4
    <3>2. host \notin F!Configs \cup {"branding"} => \A f \in F!FieldsOf(host) : draft[f] = None
      BY <1>5, HostFields DEF F!Blank
    <3> QED BY <1>4, <3>1, <3>2 DEF DraftOwned
  <2> QED BY <2>1, <2>2, <2>3 DEF Owned
<1>11. RowsFresh /\ DraftFresh /\ ConfigFresh /\ ProfileFresh /\ SwitchesFresh /\ SavesFresh
  <2>1. RowsFresh /\ DraftFresh /\ SwitchesFresh /\ SavesFresh
    BY <1>4, <1>6 DEF RowsFresh, DraftFresh, SwitchesFresh, SavesFresh
  <2>2. ConfigFresh
    BY <1>4, <1>6 DEF ConfigFresh
  <2>3. ProfileFresh
    BY <1>5 DEF ProfileFresh, F!Blank
  <2> QED BY <2>1, <2>2, <2>3
<1> QED BY <1>7, <1>8, <1>9, <1>10, <1>11 DEF FormInv, Fresh

(* with every step of the form,                                              *)
LEMMA FormsStepInv ==
    ASSUME FormInv, F!FormsNext
    PROVE  FormInv'
<1>1. FormTypes' /\ host' = host
  BY TypesStep DEF FormInv
<1>2. FormPlaced' /\ RequestsPlaced' /\ HostPlaced' /\ FieldsPlaced'
  BY FormPlacedStep, RequestsPlacedStep, HostPlacedStep, FieldsPlacedStep DEF FormInv
<1>3. Owned'
  <2>1. host # "convert" /\ ~late' => SentOwned' /\ RowsOwned' /\ DraftOwned'
    BY SentOwnedStep, RowsOwnedStep, DraftOwnedStep DEF FormInv
  <2> QED BY <1>1, <2>1 DEF Owned
<1>4. Fresh'
  BY RowsFreshStep, DraftFreshStep, ConfigFreshStep, ProfileFreshStep, SwitchesFreshStep,
     SavesFreshStep DEF Fresh
<1> QED BY <1>1, <1>2, <1>3, <1>4 DEF FormInv

(* and while a page is explored.                                             *)
LEMMA FormsUnchanged ==
    ASSUME FormInv, UNCHANGED formvars
    PROVE  FormInv'
<1> USE DEF formvars
<1>1. FormTypes' /\ FormPlaced' /\ RequestsPlaced' /\ HostPlaced' /\ FieldsPlaced'
  BY DEF FormInv, FormTypes, FormPlaced, RequestsPlaced, HostPlaced, FieldsPlaced, F!FieldsOf
<1>2. Owned'
  <2>1. SentOwned => SentOwned'
    BY DEF SentOwned, Own, F!Leaves
  <2>2. RowsOwned => RowsOwned'
    BY DEF RowsOwned, Own, F!Leaves
  <2>3. DraftOwned => DraftOwned'
    BY DEF DraftOwned, Own, F!Leaves, F!FieldsOf
  <2> QED BY <2>1, <2>2, <2>3 DEF FormInv, Owned
<1>3. Fresh'
  <2>1. (RowsFresh => RowsFresh') /\ (DraftFresh => DraftFresh')
    BY DEF RowsFresh, DraftFresh, NoneDone, F!Leaves, F!FieldsOf
  <2>2. (ConfigFresh => ConfigFresh') /\ (ProfileFresh => ProfileFresh')
    BY DEF ConfigFresh, ProfileFresh, NoneDone, F!Filled
  <2>3. (SwitchesFresh => SwitchesFresh') /\ (SavesFresh => SavesFresh')
    BY DEF SwitchesFresh, SavesFresh, F!Leaves, Written, F!Kept
  <2> QED BY <2>1, <2>2, <2>3 DEF FormInv, Fresh, Good
<1> QED BY <1>1, <1>2, <1>3 DEF FormInv

(* The two invariants of the run follow.                                     *)
LEMMA FormsAreSafe ==
    ASSUME FormInv
    PROVE  F!NoLeftovers /\ F!OpenFormIsCurrent
<1>1. F!NoLeftovers
  <2> SUFFICES ASSUME host # "convert", ~late, NEW c \in saves,
                      NEW f \in DOMAIN c.sent \ {"unshown"}
               PROVE  \/ c.sent[f] = <<c.row, c.opening>>
                      \/ c.row # None /\ c.sent[f][1] = c.row /\ c.sent[f][2] \in {0} \cup kept
                      \/ F!Leaves(f)
    BY DEF F!NoLeftovers
  <2>1. \/ c.sent[f] = <<c.row, c.opening>>
        \/ c.row # None /\ c.sent[f] \in Own(c.row) \ {None}
        \/ F!Leaves(f)
    BY DEF FormInv, Owned, SentOwned
  <2>2. c.sent[f] \in Own(c.row) \ {None} =>
            c.sent[f][1] = c.row /\ c.sent[f][2] \in {0} \cup kept
    BY DEF Own
  <2> QED BY <2>1, <2>2
<1>2. F!OpenFormIsCurrent
  <2> SUFFICES ASSUME open, row # None, ~busy, saves = {}, reads = {}, Good,
                      host \notin {"convert", "profile"}, NEW f \in F!FieldsOf(host) \ touched
               PROVE  draft[f] = stored[row][f] \/ F!Leaves(f)
    BY DEF F!OpenFormIsCurrent, Good
  <2>1. /\ RowsFresh /\ DraftFresh /\ ConfigFresh /\ SwitchesFresh /\ NoneDone
        /\ FormPlaced /\ F!FieldsOf(host) \subseteq F!Field
    BY HostFields DEF FormInv, Fresh, NoneDone
  <2>2. CASE host \in PageHosts
    BY <2>1, <2>2 DEF RowsFresh, DraftFresh
  <2>3. CASE host \in Fetched
    <3>1. f \in F!Filled \/ F!Leaves(f)
      BY <2>3, FilledFields
    <3>2. row = F!Mine
      BY <2>1, <2>3 DEF FormPlaced
    <3> QED BY <2>1, <2>3, <3>1, <3>2 DEF ConfigFresh
  <2>4. CASE host = "preferences"
    BY <2>1, <2>4 DEF SwitchesFresh, FormPlaced
  <2>5. host \in PageHosts \cup Fetched \cup {"preferences"}
    BY DEF FormInv, HostPlaced
  <2> QED BY <2>2, <2>3, <2>4, <2>5
<1> QED BY <1>1, <1>2

(* So does the property of every commit.                                     *)
LEMMA CommitsKeep ==
    ASSUME FormInv, NEW c \in saves, F!Commit(c), c.row # None, host # "lead",
           missed = 0, ~crossed, ~late, NEW f \in F!Field \ c.touched
    PROVE  \/ stored'[c.row][f] = stored[c.row][f] \/ F!Leaves(f)
           \/ f = "unshown" /\ stored'[c.row][f] = None
<1>1. c.row \in Row /\ ~c.done /\ stored \in [Row -> Fields]
  BY DEF FormInv, FormTypes, SaveRequests, F!Commit
<1>2. CASE host = "convert"
  BY <1>2 DEF F!Commit
<1>3. CASE host # "convert"
  <2>1. stored' = [stored EXCEPT ![c.row] = Written(c)]
    BY <1>3 DEF F!Commit, Written
  <2>2. stored'[c.row] = Written(c)
    BY <1>1, <2>1
  <2> QED BY <1>1, <1>3, <2>2 DEF FormInv, Fresh, Good, SavesFresh
<1> QED BY <1>2, <1>3

-----------------------------------------------------------------------------
(* While a page is explored, the forms are parked and can do nothing.        *)
Parked == host = "parked" /\ ~open /\ making = None /\ saves = {} /\ reads = {}

LEMMA ParkedStays ==
    ASSUME Parked
    PROVE  ~F!FormsNext
<1>1. ~(Opening \/ F!Close \/ F!QuickCreate \/ F!QuickCreated \/ F!ConvertPipelines \/ Typing
           \/ Submitting \/ F!ConfigOpen \/ F!ConfigArrives \/ F!ConfigMissing
           \/ ConfigSubmitting \/ F!PreferencesArrive \/ F!PreferenceToggle)
  BY DEF Parked, Opening, F!Close, F!QuickCreate, F!QuickCreated, F!ConvertPipelines, Typing,
         F!Type, F!Clear, Submitting, F!ConfigOpen, F!ConfigArrives, F!ConfigMissing,
         ConfigSubmitting, F!ConfigSubmit, F!PreferencesArrive, F!PreferenceToggle, F!Linked
<1>2. ~(F!Read \/ F!Arrive \/ F!ReadFails)
  BY DEF Parked, F!Read, F!Arrive, F!ReadFails
<1>3. saves = {}
  BY DEF Parked
<1> QED BY <1>1, <1>2, <1>3, Steps

(* The forms are parked, or satisfy FormInv: whose values they hold and how   *)
(* current these are.  It is inductive for the specification of the run.     *)
THEOREM FormsInductive == FrontendSpec => [](Parked \/ FormInv)
<1>1. FrontendInit => Parked \/ FormInv
  BY FormsInitInv DEF FrontendInit, FormsParked, Parked
<1>2. ASSUME Parked \/ FormInv, [FrontendNext]_<<vars, formvars>>
      PROVE  (Parked \/ FormInv)'
  <2>1. CASE UNCHANGED formvars
    <3>1. Parked => Parked'
      BY <2>1 DEF Parked, formvars
    <3> QED BY <1>2, <2>1, <3>1, FormsUnchanged
  <2>2. CASE F!FormsNext
    BY <1>2, <2>2, ParkedStays, FormsStepInv
  <2> QED BY <1>2, <2>1, <2>2 DEF FrontendNext
<1> QED BY <1>1, <1>2, PTL DEF FrontendSpec

(* What a form sends is its row's own, or typed in this opening or in one     *)
(* that was saved (the handleSubmit of every form, and their resets).        *)
THEOREM NothingLeftOver == FrontendSpec => []NoLeftovers
<1>1. Parked \/ FormInv => NoLeftovers
  <2>1. Parked => NoLeftovers
    BY DEF Parked, NoLeftovers, F!NoLeftovers
  <2> QED BY <2>1, FormsAreSafe DEF NoLeftovers
<1> QED BY <1>1, FormsInductive, PTL

(* At rest an open form shows its row as the server has it, save for what was *)
(* typed: every save is followed by the read that brings the row back.       *)
THEOREM FormsCurrent == FrontendSpec => []OpenFormIsCurrent
<1>1. Parked \/ FormInv => OpenFormIsCurrent
  <2>1. Parked => OpenFormIsCurrent
    BY DEF Parked, OpenFormIsCurrent, F!OpenFormIsCurrent
  <2> QED BY <2>1, FormsAreSafe DEF OpenFormIsCurrent
<1> QED BY <1>1, FormsInductive, PTL

(* An edit changes only what was typed, although a form sends every field.   *)
THEOREM EditsKeepTheRest == FrontendSpec => UntouchedFieldsKept
<1> DEFINE Keeps ==
        \A c \in saves :
           F!Commit(c) /\ c.row # None /\ host # "lead" /\ missed = 0 /\ ~crossed /\ ~late =>
               \A f \in F!Field \ c.touched :
                   \/ stored'[c.row][f] = stored[c.row][f] \/ F!Leaves(f)
                   \/ f = "unshown" /\ stored'[c.row][f] = None
<1>1. ASSUME Parked \/ FormInv
      PROVE  [Keeps]_formvars
  <2>1. CASE Parked
    BY <2>1 DEF Parked
  <2>2. CASE FormInv
    BY <2>2, CommitsKeep
  <2> QED BY <1>1, <2>1, <2>2
<1> QED BY <1>1, FormsInductive, PTL DEF UntouchedFieldsKept, F!UntouchedFieldsKept,
                                         F!formvars, formvars
=============================================================================
