--------------------------- MODULE LeadConversion ---------------------------
(***************************************************************************)
(* Leads on their way to becoming contacts and deals: create_lead,         *)
(* update_lead, delete_lead and convert_lead of                            *)
(* backend/src/handlers/leads.rs, and the pipelines of handlers/admin.rs   *)
(* that a conversion puts its deal into.                                   *)
(*                                                                         *)
(* update_lead reads the row, checks the transition and writes in a        *)
(* statement of its own; convert_lead does all its statements in one       *)
(* transaction at READ COMMITTED, and locks the lead only when it updates  *)
(* it.                                                                     *)
(***************************************************************************)
EXTENDS FiniteSets

CONSTANTS Lead, Pipeline,
          DefaultPipeline,  \* the pipelines with is_default
          Conversion,       \* conversions that can be committed, by identity
          Request, None

ASSUME PipelineAssumption == DefaultPipeline \subseteq Pipeline
ASSUME NoneAssumption == None \notin Lead \cup Pipeline \cup Conversion

Status == {"new", "contacted", "qualified", "unqualified", "converted", "recycled"}
Kind == {"company", "contact", "deal"}

VARIABLES
    lead,       \* leads.status; absent before it is created, gone afterwards
    link,       \* leads.converted_*_id: the conversion they point to
    visited,    \* history: every status the lead has had
    rows,       \* companies, contacts and deals of each committed conversion
    origin,     \* history: the lead each conversion was made from
    inside,     \* deals.pipeline_id
    pipeline,   \* pipelines.entity_type, or gone
    req

vars == <<lead, link, visited, rows, origin, inside, pipeline, req>>
records == <<rows, origin, inside>>
leads == <<lead, link, visited>>

Idle == [pc |-> "idle", lead |-> None, status |-> "new", pipeline |-> None,
         made |-> {}, kinds |-> {}]

TypeOK ==
    /\ lead \in [Lead -> Status \cup {"absent", "gone"}]
    /\ link \in [Lead -> Conversion \cup {None}]
    /\ visited \in [Lead -> SUBSET Status]
    /\ rows \in [Conversion -> SUBSET Kind]
    /\ origin \in [Conversion -> Lead \cup {None}]
    /\ inside \in [Conversion -> Pipeline \cup {None}]
    /\ pipeline \in [Pipeline -> {"person", "company", "gone"}]
    /\ req \in [Request ->
          [pc : {"idle", "write", "pipeline", "insert", "update", "commit"},
           lead : Lead \cup {None}, status : Status,
           pipeline : Pipeline \cup {None},
           made : SUBSET Kind, kinds : SUBSET Kind]]

Init ==
    /\ lead = [l \in Lead |-> "absent"]
    /\ link = [l \in Lead |-> None]
    /\ visited = [l \in Lead |-> {}]
    /\ rows = [c \in Conversion |-> {}]
    /\ origin = [c \in Conversion |-> None]
    /\ inside = [c \in Conversion |-> None]
    /\ pipeline \in [Pipeline -> {"person", "company"}]
    /\ req = [r \in Request |-> Idle]

Present(l) == lead[l] \in Status
Become(r, what) == req' = [req EXCEPT ![r] = what]
Return(r) == Become(r, Idle)

(* The row of l is locked by a conversion that has updated it. *)
Locked(l) == \E r \in Request : req[r].pc = "commit" /\ req[r].lead = l

(* A deal holds its pipeline, also while its transaction is open. *)
InUse(p) ==
    \/ \E c \in Conversion : inside[c] = p
    \/ \E r \in Request : req[r].pipeline = p /\ "deal" \in req[r].made

-----------------------------------------------------------------------------
MutantCreateLead(l) ==                \* the column keeps no default
    /\ lead[l] = "absent"
    /\ lead' = [lead EXCEPT ![l] = "null"]
    /\ visited' = [visited EXCEPT ![l] = {"new"}]
    /\ UNCHANGED <<link, records, pipeline, req>>

CreateLead(l) ==
    /\ lead[l] = "absent"
    /\ lead' = [lead EXCEPT ![l] = "new"]
    /\ visited' = [visited EXCEPT ![l] = {"new"}]
    /\ UNCHANGED <<link, records, pipeline, req>>

(* The foreign keys leave nothing behind in the tables modelled here. *)
DeleteLead(l) ==
    /\ Present(l) /\ ~Locked(l)
    /\ lead' = [lead EXCEPT ![l] = "gone"]
    /\ link' = [link EXCEPT ![l] = None]
    /\ UNCHANGED <<visited, records, pipeline, req>>

MutantAllowed(from, to) ==            \* a lead may be marked converted by hand
    \/ from = to
    \/ <<from, to>> \in {<<"new", "contacted">>, <<"contacted", "qualified">>,
                         <<"qualified", "converted">>, <<"unqualified", "recycled">>}
    \/ to = "unqualified"

MutantSkips(from, to) ==              \* a new lead may be qualified at once
    \/ from = to
    \/ <<from, to>> \in {<<"new", "contacted">>, <<"new", "qualified">>,
                         <<"contacted", "qualified">>, <<"unqualified", "recycled">>}
    \/ to = "unqualified"

Allowed(from, to) ==
    \/ from = to
    \/ <<from, to>> \in {<<"new", "contacted">>, <<"contacted", "qualified">>,
                         <<"unqualified", "recycled">>}
    \/ to = "unqualified"

UpdateRead(r, l, to) ==
    /\ req[r].pc = "idle"
    /\ Present(l) /\ Allowed(lead[l], to)
    /\ Become(r, [Idle EXCEPT !.pc = "write", !.lead = l, !.status = to])
    /\ UNCHANGED <<leads, records, pipeline>>

(* UPDATE ... WHERE id = $1, whatever the status has become meanwhile. *)
UpdateWrite(r) ==
    LET l == req[r].lead
    IN  /\ req[r].pc = "write" /\ ~Locked(l)
        /\ IF Present(l)
           THEN /\ lead' = [lead EXCEPT ![l] = req[r].status]
                /\ visited' = [visited EXCEPT ![l] = @ \cup {req[r].status}]
           ELSE UNCHANGED <<lead, visited>>
        /\ Return(r)
        /\ UNCHANGED <<link, records, pipeline>>

-----------------------------------------------------------------------------
(* convert_lead: what it has made is seen by others after the commit only. *)
ConvertRead(r, l, p) ==
    /\ req[r].pc = "idle"
    /\ lead[l] = "qualified"
    /\ Become(r, [Idle EXCEPT !.pc = "pipeline", !.lead = l, !.pipeline = p])
    /\ UNCHANGED <<leads, records, pipeline>>

ConvertPipeline(r) ==
    LET entity == pipeline[req[r].pipeline]
    IN  /\ req[r].pc = "pipeline"
        /\ IF entity = "gone" THEN Return(r)
           ELSE Become(r, [req[r] EXCEPT !.pc = "insert",
                     !.kinds = IF entity = "company" THEN Kind ELSE Kind \ {"company"}])
        /\ UNCHANGED <<leads, records, pipeline>>

(* The company, the contact, then the deal, whose pipeline may be gone.    *)
ConvertInsert(r, k) ==
    LET h == req[r]
    IN  /\ h.pc = "insert" /\ k \in h.kinds \ h.made
        /\ k = "contact" => "company" \in h.made \/ "company" \notin h.kinds
        /\ k = "deal" => "contact" \in h.made
        /\ IF k = "deal" /\ pipeline[h.pipeline] = "gone" THEN Return(r)
           ELSE Become(r, [h EXCEPT !.made = @ \cup {k},
                                    !.pc = IF k = "deal" THEN "update" ELSE @])
        /\ UNCHANGED <<leads, records, pipeline>>

(* UPDATE leads ... WHERE id = $1: no check of the status, nor of the      *)
(* number of rows.                                                         *)
ConvertUpdate(r) ==
    /\ req[r].pc = "update" /\ ~Locked(req[r].lead)
    /\ Become(r, [req[r] EXCEPT !.pc = "commit"])
    /\ UNCHANGED <<leads, records, pipeline>>

MutantCommit(r, c) ==                 \* the lead is not updated with the rest
    LET h == req[r]
    IN  /\ h.pc = "commit" /\ rows[c] = {}
        /\ rows' = [rows EXCEPT ![c] = h.made]
        /\ origin' = [origin EXCEPT ![c] = h.lead]
        /\ inside' = [inside EXCEPT ![c] = h.pipeline]
        /\ Return(r)
        /\ UNCHANGED <<leads, pipeline>>

ConvertCommit(r, c) ==
    LET h == req[r]
    IN  /\ h.pc = "commit" /\ rows[c] = {}
        /\ rows' = [rows EXCEPT ![c] = h.made]
        /\ origin' = [origin EXCEPT ![c] = h.lead]
        /\ inside' = [inside EXCEPT ![c] = h.pipeline]
        /\ IF Present(h.lead)
           THEN /\ lead' = [lead EXCEPT ![h.lead] = "converted"]
                /\ link' = [link EXCEPT ![h.lead] = c]
                /\ visited' = [visited EXCEPT ![h.lead] = @ \cup {"converted"}]
           ELSE UNCHANGED leads
        /\ Return(r)
        /\ UNCHANGED pipeline

-----------------------------------------------------------------------------
UpdatePipeline(p, entity) ==
    /\ pipeline[p] # "gone"
    /\ pipeline' = [pipeline EXCEPT ![p] = entity]
    /\ UNCHANGED <<leads, records, req>>

(* The foreign key of deals makes the DELETE wait or fail. *)
DeletePipeline(p) ==
    /\ pipeline[p] # "gone" /\ p \notin DefaultPipeline /\ ~InUse(p)
    /\ pipeline' = [pipeline EXCEPT ![p] = "gone"]
    /\ UNCHANGED <<leads, records, req>>

(* An error, a client that hangs up, a crash: the transaction is undone. *)
Abandon(r) ==
    /\ req[r].pc # "idle"
    /\ Return(r)
    /\ UNCHANGED <<leads, records, pipeline>>

Convert(r) ==
    \/ \E l \in Lead, p \in Pipeline : ConvertRead(r, l, p)
    \/ ConvertPipeline(r) \/ ConvertUpdate(r)
    \/ \E k \in Kind : ConvertInsert(r, k)
    \/ \E c \in Conversion : ConvertCommit(r, c)

Next ==
    \/ \E l \in Lead : CreateLead(l) \/ DeleteLead(l)
    \/ \E r \in Request, l \in Lead, to \in Status : UpdateRead(r, l, to)
    \/ \E r \in Request : UpdateWrite(r) \/ Convert(r) \/ Abandon(r)
    \/ \E p \in Pipeline : \/ DeletePipeline(p)
                           \/ \E e \in {"person", "company"} : UpdatePipeline(p, e)

Spec == Init /\ [][Next]_vars

-----------------------------------------------------------------------------
(* Properties *)

(* The steps a status has to be reached by.  update_lead checks them on a  *)
(* row that may have changed when it writes, and still no lead gets a      *)
(* status without having been through the ones before it.                  *)
StepsAreTaken ==
    \A l \in Lead :
        /\ "contacted" \in visited[l] => "new" \in visited[l]
        /\ "qualified" \in visited[l] => "contacted" \in visited[l]
        /\ "converted" \in visited[l] => "qualified" \in visited[l]
        /\ "recycled" \in visited[l] => "unqualified" \in visited[l]

(* A lead says it is converted only with a contact and a deal to show for  *)
(* it, made from this very lead, whatever is updated at the same time.     *)
ConvertedIsBacked ==
    \A l \in Lead : lead[l] = "converted" =>
        \E c \in Conversion : /\ link[l] = c /\ origin[c] = l
                              /\ {"contact", "deal"} \subseteq rows[c]

(* Nothing a conversion makes is left without a lead that points to a      *)
(* conversion, unless the lead was deleted: no failure between the inserts *)
(* leaves a contact or a company behind.                                   *)
ConversionIsWhole ==
    \A c \in Conversion : rows[c] # {} =>
        /\ {"contact", "deal"} \subseteq rows[c]
        /\ lead[origin[c]] # "gone" => link[origin[c]] # None

(* convert_lead: "Only qualified leads can be converted". *)
OnlyQualifiedConverted ==
    [][\A r \in Request, c \in Conversion :
          ConvertCommit(r, c) /\ Present(req[r].lead)
              => lead[req[r].lead] = "qualified"]_vars
=============================================================================
