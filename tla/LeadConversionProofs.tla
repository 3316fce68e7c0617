------------------------ MODULE LeadConversionProofs ------------------------
(***************************************************************************)
(* Proofs about LeadConversion, for every set of leads, pipelines,         *)
(* conversions and requests.                                               *)
(***************************************************************************)
EXTENDS LeadConversion, TLAPS

Handler == [pc : {"idle", "write", "pipeline", "insert", "update", "commit"},
            lead : Lead \cup {None}, status : Status,
            pipeline : Pipeline \cup {None},
            made : SUBSET Kind, kinds : SUBSET Kind]

(* A set of statuses that holds, with each, the one it is reached from. *)
Closed(S) ==
    /\ "contacted" \in S => "new" \in S
    /\ "qualified" \in S => "contacted" \in S
    /\ "converted" \in S => "qualified" \in S
    /\ "recycled" \in S => "unqualified" \in S

(* The link of l points to a contact and a deal made from it. *)
Backed(l) ==
    /\ link[l] \in Conversion
    /\ origin[link[l]] = l
    /\ {"contact", "deal"} \subseteq rows[link[l]]

(* What a handler found when it read the lead, and may still count on when *)
(* it writes: the history only grows, and a lead that was converted stays  *)
(* backed until it is deleted.                                             *)
ReadHolds(h) ==
    /\ h.pc # "idle" => h.lead \in Lead /\ lead[h.lead] # "absent"
    /\ h.pc = "write" =>
          /\ Closed(visited[h.lead] \cup {h.status})
          /\ h.status = "converted" => lead[h.lead] = "gone" \/ Backed(h.lead)
    /\ h.pc \in {"pipeline", "insert", "update", "commit"} =>
          "qualified" \in visited[h.lead] /\ h.pipeline \in Pipeline
    /\ h.pc \in {"update", "commit"} => {"contact", "deal"} \subseteq h.made

LeadHolds(l) ==
    /\ Closed(visited[l])
    /\ Present(l) => lead[l] \in visited[l]
    /\ link[l] # None \/ lead[l] = "converted" => Backed(l)

ConversionHolds(c) ==
    rows[c] # {} =>
        /\ {"contact", "deal"} \subseteq rows[c]
        /\ origin[c] \in Lead
        /\ lead[origin[c]] # "absent"
        /\ lead[origin[c]] # "gone" => link[origin[c]] # None

IInv ==
    /\ TypeOK
    /\ \A r \in Request : ReadHolds(req[r])
    /\ \A l \in Lead : LeadHolds(l)
    /\ \A c \in Conversion : ConversionHolds(c)

-----------------------------------------------------------------------------
LEMMA IdleOK == Idle \in Handler /\ ReadHolds(Idle)
BY DEF Idle, Handler, ReadHolds, Status

(* The histories of a lead before and after a write go together. *)
LEMMA ClosedUnion ==
    ASSUME NEW S, NEW T, Closed(S), Closed(T)
    PROVE  Closed(S \cup T)
BY DEF Closed

(* update_lead lets a status follow the one before it only. *)
LEMMA AllowedCloses ==
    ASSUME NEW from \in Status, NEW to \in Status, Allowed(from, to),
           NEW S, from \in S, Closed(S)
    PROVE  /\ Closed(S \cup {to})
           /\ to = "converted" => from = "converted"
BY DEF Allowed, Closed, Status

LEMMA BecomeType ==
    ASSUME TypeOK, NEW r \in Request, NEW h \in Handler, Become(r, h)
    PROVE  /\ req' \in [Request -> Handler]
           /\ req'[r] = h
           /\ \A s \in Request \ {r} : req'[s] = req[s]
BY DEF Become, TypeOK, Handler

(* Steps of a handler that change its own record only. *)
LEMMA MoveOK ==
    ASSUME IInv, NEW r \in Request, NEW h \in Handler, ReadHolds(h), Become(r, h),
           UNCHANGED <<leads, records, pipeline>>
    PROVE  IInv'
<1>1. /\ req' \in [Request -> Handler] /\ req'[r] = h
      /\ \A s \in Request \ {r} : req'[s] = req[s]
  BY BecomeType DEF IInv
<1>2. TypeOK'
  BY <1>1 DEF IInv, TypeOK, Handler, leads, records
<1>3. \A s \in Request : ReadHolds(req'[s])
  BY <1>1 DEF IInv
<1>4. \A s \in Request : ReadHolds(req[s])'
  BY <1>3 DEF ReadHolds, leads, records, Backed
<1>5. \A l \in Lead : LeadHolds(l)'
  BY DEF IInv, LeadHolds, Present, Backed, leads, records
<1>6. \A c \in Conversion : ConversionHolds(c)'
  BY DEF IInv, ConversionHolds, leads, records
<1> QED BY <1>2, <1>4, <1>5, <1>6 DEF IInv

(* What every step leaves to the handlers that have read a lead. *)
Kept(l) ==
    /\ lead[l] # "absent" => lead'[l] # "absent" /\ visited[l] \subseteq visited'[l]
    /\ Closed(visited'[l])
    /\ lead[l] = "gone" \/ Backed(l) => lead'[l] = "gone" \/ Backed(l)'

LEMMA ReadKept ==
    ASSUME NEW s \in Request, ReadHolds(req[s]), req'[s] = req[s],
           \A l \in Lead : Kept(l)
    PROVE  ReadHolds(req[s])'
<1> DEFINE h == req[s]
           l == h.lead
<1>1. CASE h.pc = "idle"
  BY <1>1 DEF ReadHolds
<1>2. CASE h.pc # "idle"
  <2>1. l \in Lead /\ lead[l] # "absent" /\ Kept(l)
    BY <1>2 DEF ReadHolds
  <2>2. ASSUME h.pc = "write"
        PROVE  Closed(visited'[l] \cup {h.status})
    <3>1. Closed(visited[l] \cup {h.status}) /\ Closed(visited'[l])
      BY <2>1, <2>2 DEF ReadHolds, Kept
    <3>2. Closed(visited'[l] \cup (visited[l] \cup {h.status}))
      BY <3>1, ClosedUnion
    <3>3. visited'[l] \cup (visited[l] \cup {h.status}) = visited'[l] \cup {h.status}
      BY <2>1 DEF Kept
    <3> QED BY <3>2, <3>3
  <2>3. ASSUME h.pc = "write", h.status = "converted"
        PROVE  lead'[l] = "gone" \/ Backed(l)'
    BY <2>1, <2>3 DEF ReadHolds, Kept
  <2>4. "qualified" \in visited[l] => "qualified" \in visited'[l]
    BY <2>1 DEF Kept
  <2>5. Backed(l)' <=> Backed(req[s].lead)'
    BY DEF Backed
  <2> QED BY <2>1, <2>2, <2>3, <2>4, <2>5 DEF ReadHolds, Kept
<1> QED BY <1>1, <1>2

LEMMA ReturnKeeps ==
    ASSUME NEW r \in Request, \A s \in Request : ReadHolds(req[s]),
           req'[r] = Idle, \A s \in Request \ {r} : req'[s] = req[s],
           \A l \in Lead : Kept(l)
    PROVE  \A s \in Request : ReadHolds(req[s])'
<1>1. ReadHolds(req[r])'
  BY DEF ReadHolds, Idle
<1>2. \A s \in Request \ {r} : ReadHolds(req[s])'
  BY ReadKept
<1> QED BY <1>1, <1>2

LEMMA CreateLeadOK ==
    ASSUME IInv, NEW l \in Lead, CreateLead(l)
    PROVE  IInv'
<1>1. /\ lead[l] = "absent" /\ lead' = [lead EXCEPT ![l] = "new"]
      /\ visited' = [visited EXCEPT ![l] = {"new"}]
      /\ UNCHANGED <<link, rows, origin, inside, pipeline, req>>
  BY DEF CreateLead, records
<1>2. TypeOK'
  BY <1>1 DEF IInv, TypeOK, Status
<1>3. \A k \in Lead \ {l} : lead'[k] = lead[k] /\ visited'[k] = visited[k]
  BY <1>1 DEF IInv, TypeOK
<1>4. lead'[l] = "new" /\ visited'[l] = {"new"} /\ Closed(visited'[l])
  BY <1>1 DEF IInv, TypeOK, Closed
<1>5. \A k \in Lead : Backed(k)' <=> Backed(k)
  BY <1>1 DEF Backed
<1>6. \A k \in Lead : Kept(k)
  BY <1>1, <1>3, <1>4, <1>5 DEF IInv, Kept, LeadHolds
<1>7. \A s \in Request : ReadHolds(req[s])'
  BY <1>1, <1>6, ReadKept DEF IInv
<1>8. \A k \in Lead : LeadHolds(k)'
  BY <1>1, <1>3, <1>4, <1>5 DEF IInv, LeadHolds, Present, Status
<1>9. \A c \in Conversion : ConversionHolds(c)'
  BY <1>1, <1>3, <1>4 DEF IInv, ConversionHolds
<1> QED BY <1>2, <1>7, <1>8, <1>9 DEF IInv

LEMMA DeleteLeadOK ==
    ASSUME IInv, NEW l \in Lead, DeleteLead(l)
    PROVE  IInv'
<1>1. /\ Present(l) /\ lead' = [lead EXCEPT ![l] = "gone"]
      /\ link' = [link EXCEPT ![l] = None]
      /\ UNCHANGED <<visited, rows, origin, inside, pipeline, req>>
  BY DEF DeleteLead, records
<1>2. TypeOK'
  BY <1>1 DEF IInv, TypeOK
<1>3. \A k \in Lead \ {l} : lead'[k] = lead[k] /\ link'[k] = link[k]
  BY <1>1 DEF IInv, TypeOK
<1>4. lead'[l] = "gone" /\ link'[l] = None
  BY <1>1 DEF IInv, TypeOK
<1>5. \A k \in Lead \ {l} : Backed(k)' <=> Backed(k)
  BY <1>1, <1>3 DEF Backed
<1>6. \A k \in Lead : Kept(k)
  BY <1>1, <1>3, <1>4, <1>5 DEF IInv, Kept, LeadHolds
<1>7. \A s \in Request : ReadHolds(req[s])'
  BY <1>1, <1>6, ReadKept DEF IInv
<1>8. \A k \in Lead : LeadHolds(k)'
  BY <1>1, <1>3, <1>4, <1>5 DEF IInv, LeadHolds, Present, Status
<1>9. \A c \in Conversion : ConversionHolds(c)'
  BY <1>1, <1>3, <1>4 DEF IInv, ConversionHolds
<1> QED BY <1>2, <1>7, <1>8, <1>9 DEF IInv

LEMMA UpdateWriteOK ==
    ASSUME IInv, NEW r \in Request, UpdateWrite(r)
    PROVE  IInv'
<1> DEFINE h == req[r]
           l == h.lead
<1>1. /\ h \in Handler /\ h.pc = "write" /\ ReadHolds(h)
      /\ l \in Lead /\ h.status \in Status
  BY DEF IInv, TypeOK, Handler, UpdateWrite, ReadHolds
<1>2. Become(r, Idle) /\ UNCHANGED <<link, records, pipeline>>
  BY DEF UpdateWrite, Return
<1>3. CASE ~Present(l)
  <2>1. UNCHANGED <<leads, records, pipeline>>
    BY <1>2, <1>3 DEF UpdateWrite, leads
  <2> QED BY <1>2, <2>1, IdleOK, MoveOK
<1>4. CASE Present(l)
  <2>1. /\ lead' = [lead EXCEPT ![l] = h.status]
        /\ visited' = [visited EXCEPT ![l] = @ \cup {h.status}]
        /\ UNCHANGED <<link, rows, origin, inside, pipeline>>
    BY <1>2, <1>4 DEF UpdateWrite, records
  <2>2. /\ req' \in [Request -> Handler] /\ req'[r] = Idle
        /\ \A s \in Request \ {r} : req'[s] = req[s]
    BY <1>2, IdleOK, BecomeType DEF IInv
  <2>3. TypeOK'
    BY <1>1, <2>1, <2>2 DEF IInv, TypeOK, Handler
  <2>4. \A k \in Lead \ {l} : lead'[k] = lead[k] /\ visited'[k] = visited[k]
    BY <2>1 DEF IInv, TypeOK
  <2>5. lead'[l] = h.status /\ visited'[l] = visited[l] \cup {h.status}
    BY <1>1, <2>1 DEF IInv, TypeOK
  <2>6. Closed(visited'[l]) /\ (h.status = "converted" => Backed(l))
    BY <1>1, <1>4, <2>5 DEF ReadHolds, Present, Status
  <2>7. \A k \in Lead : Backed(k)' <=> Backed(k)
    BY <2>1 DEF Backed
  <2>8. \A k \in Lead : Kept(k)
    BY <1>1, <1>4, <2>4, <2>5, <2>6, <2>7 DEF IInv, Kept, LeadHolds, Present, Status
  <2>9. \A s \in Request : ReadHolds(req[s])'
    BY <2>2, <2>8, ReturnKeeps DEF IInv
  <2>10. \A k \in Lead : LeadHolds(k)'
    BY <1>1, <2>1, <2>4, <2>5, <2>6, <2>7 DEF IInv, LeadHolds, Present
  <2>11. \A c \in Conversion : ConversionHolds(c)'
    BY <1>1, <1>4, <2>1, <2>4, <2>5 DEF IInv, ConversionHolds, Present, Status
  <2> QED BY <2>3, <2>9, <2>10, <2>11 DEF IInv
<1> QED BY <1>3, <1>4

-----------------------------------------------------------------------------
(* Conversions. *)
LEMMA ConvertMoves ==
    ASSUME IInv, NEW r \in Request,
           \/ \E l \in Lead, p \in Pipeline : ConvertRead(r, l, p)
           \/ ConvertPipeline(r) \/ ConvertUpdate(r)
           \/ \E k \in Kind : ConvertInsert(r, k)
    PROVE  IInv'
<1>1. req[r] \in Handler /\ ReadHolds(req[r])
  BY DEF IInv, TypeOK, Handler
<1>2. ASSUME NEW l \in Lead, NEW p \in Pipeline, ConvertRead(r, l, p)
      PROVE  IInv'
  <2> DEFINE h == [Idle EXCEPT !.pc = "pipeline", !.lead = l, !.pipeline = p]
  <2>1. h \in Handler
    BY DEF Idle, Handler, Status
  <2>2. lead[l] = "qualified" /\ "qualified" \in visited[l]
    BY <1>2 DEF ConvertRead, IInv, LeadHolds, Present, Status
  <2>3. ReadHolds(h)
    BY <2>2 DEF ReadHolds, Idle
  <2> QED BY <1>2, <2>1, <2>3, MoveOK DEF ConvertRead
<1>3. CASE ConvertPipeline(r)
  <2> DEFINE entity == pipeline[req[r].pipeline]
             h == [req[r] EXCEPT !.pc = "insert",
                     !.kinds = IF entity = "company" THEN Kind ELSE Kind \ {"company"}]
  <2>1. h \in Handler /\ ReadHolds(h)
    BY <1>1, <1>3 DEF ConvertPipeline, ReadHolds, Handler
  <2>2. \E g \in {h, Idle} : Become(r, g)
    BY <1>3 DEF ConvertPipeline, Return
  <2> QED BY <1>3, <2>1, <2>2, IdleOK, MoveOK DEF ConvertPipeline
<1>4. CASE ConvertUpdate(r)
  <2> DEFINE h == [req[r] EXCEPT !.pc = "commit"]
  <2>1. h \in Handler /\ ReadHolds(h)
    BY <1>1, <1>4 DEF ConvertUpdate, ReadHolds, Handler
  <2> QED BY <1>4, <2>1, MoveOK DEF ConvertUpdate
<1>5. ASSUME NEW k \in Kind, ConvertInsert(r, k)
      PROVE  IInv'
  <2> DEFINE h == [req[r] EXCEPT !.made = @ \cup {k},
                                 !.pc = IF k = "deal" THEN "update" ELSE @]
  <2>1. h \in Handler /\ ReadHolds(h)
    BY <1>1, <1>5 DEF ConvertInsert, ReadHolds, Handler
  <2>2. \E g \in {h, Idle} : Become(r, g)
    BY <1>5 DEF ConvertInsert, Return
  <2> QED BY <1>5, <2>1, <2>2, IdleOK, MoveOK DEF ConvertInsert
<1> QED BY <1>2, <1>3, <1>4, <1>5

LEMMA ConvertCommitOK ==
    ASSUME IInv, NEW r \in Request, NEW c \in Conversion, ConvertCommit(r, c)
    PROVE  IInv'
<1> DEFINE h == req[r]
<1>0. PICK l \in Lead : l = h.lead
  BY DEF IInv, ConvertCommit, ReadHolds
<1>1. /\ h \in Handler /\ h.pc = "commit" /\ rows[c] = {}
      /\ lead[l] # "absent" /\ h.pipeline \in Pipeline
      /\ "qualified" \in visited[l]
      /\ {"contact", "deal"} \subseteq h.made
  BY <1>0 DEF IInv, TypeOK, Handler, ConvertCommit, ReadHolds
<1>2. /\ rows' = [rows EXCEPT ![c] = h.made]
      /\ origin' = [origin EXCEPT ![c] = l]
      /\ inside' = [inside EXCEPT ![c] = h.pipeline]
      /\ Become(r, Idle) /\ UNCHANGED pipeline
  BY <1>0 DEF ConvertCommit, Return
<1>3. /\ req' \in [Request -> Handler] /\ req'[r] = Idle
      /\ \A s \in Request \ {r} : req'[s] = req[s]
  BY <1>2, IdleOK, BecomeType DEF IInv
<1>4. \/ /\ Present(l)
         /\ lead' = [lead EXCEPT ![l] = "converted"]
         /\ link' = [link EXCEPT ![l] = c]
         /\ visited' = [visited EXCEPT ![l] = @ \cup {"converted"}]
      \/ lead[l] = "gone" /\ UNCHANGED <<lead, link, visited>>
  BY <1>0, <1>1 DEF ConvertCommit, leads, IInv, TypeOK, Present
<1>5. TypeOK'
  BY <1>1, <1>2, <1>3, <1>4 DEF IInv, TypeOK, Handler, Status
<1>6. rows'[c] = h.made /\ origin'[c] = l
  BY <1>2 DEF IInv, TypeOK
<1>7. \A d \in Conversion \ {c} : rows'[d] = rows[d] /\ origin'[d] = origin[d]
  BY <1>2 DEF IInv, TypeOK
<1>8. \A k \in Lead \ {l} :
          lead'[k] = lead[k] /\ link'[k] = link[k] /\ visited'[k] = visited[k]
  BY <1>4 DEF IInv, TypeOK
<1>9. \/ /\ Present(l) /\ lead'[l] = "converted" /\ link'[l] = c
         /\ visited'[l] = visited[l] \cup {"converted"}
      \/ /\ lead[l] = "gone" /\ lead'[l] = "gone"
         /\ link'[l] = link[l] /\ visited'[l] = visited[l]
  BY <1>1, <1>4 DEF IInv, TypeOK
<1>10. \A k \in Lead : Backed(k) => link[k] # c
  BY <1>1 DEF Backed
<1>11. \A k \in Lead \ {l} : Backed(k) => Backed(k)'
  BY <1>7, <1>8, <1>10 DEF Backed
<1>12. Backed(l) \/ Present(l) => Backed(l)'
  BY <1>1, <1>6, <1>7, <1>9, <1>10 DEF Backed, Present, Status
<1>13. Closed(visited'[l])
  BY <1>1, <1>9 DEF IInv, LeadHolds, Closed
<1>14. \A k \in Lead : Kept(k)
  BY <1>1, <1>8, <1>9, <1>11, <1>12, <1>13 DEF IInv, Kept, LeadHolds, Present, Status
<1>15. \A s \in Request : ReadHolds(req[s])'
  BY <1>3, <1>14, ReturnKeeps DEF IInv
<1>16. \A k \in Lead : LeadHolds(k)'
  BY <1>8, <1>9, <1>11, <1>12, <1>13 DEF IInv, LeadHolds, Present, Status
<1>17. \A d \in Conversion : ConversionHolds(d)'
  <2>1. ConversionHolds(c)'
    BY <1>1, <1>6, <1>9, NoneAssumption DEF ConversionHolds
  <2>2. \A d \in Conversion \ {c} : ConversionHolds(d)'
    BY <1>7, <1>8, <1>9, NoneAssumption DEF IInv, ConversionHolds, Present, Status
  <2> QED BY <2>1, <2>2
<1> QED BY <1>5, <1>15, <1>16, <1>17 DEF IInv

-----------------------------------------------------------------------------
LEMMA UpdateReadOK ==
    ASSUME IInv, NEW r \in Request, NEW l \in Lead, NEW to \in Status,
           UpdateRead(r, l, to)
    PROVE  IInv'
<1> DEFINE h == [Idle EXCEPT !.pc = "write", !.lead = l, !.status = to]
<1>1. h \in Handler
  BY DEF Idle, Handler
<1>2. lead[l] \in Status /\ Allowed(lead[l], to) /\ LeadHolds(l)
  BY DEF UpdateRead, Present, IInv
<1>3. ReadHolds(h)
  BY <1>2, AllowedCloses DEF ReadHolds, Idle, LeadHolds, Present, Status
<1> QED BY <1>1, <1>3, MoveOK DEF UpdateRead

LEMMA PipelineOK ==
    ASSUME IInv, NEW p \in Pipeline,
           DeletePipeline(p) \/ \E e \in {"person", "company"} : UpdatePipeline(p, e)
    PROVE  IInv'
<1>1. /\ pipeline' \in [Pipeline -> {"person", "company", "gone"}]
      /\ UNCHANGED <<leads, records, req>>
  BY DEF DeletePipeline, UpdatePipeline, IInv, TypeOK
<1>2. TypeOK'
  BY <1>1 DEF IInv, TypeOK, leads, records
<1>3. \A l \in Lead : LeadHolds(l)' /\ (Backed(l) => Backed(l)')
  BY <1>1 DEF IInv, LeadHolds, Present, Backed, leads, records
<1>4. \A l \in Lead : Kept(l)
  BY <1>1, <1>3 DEF IInv, Kept, LeadHolds, leads
<1>5. \A s \in Request : ReadHolds(req[s])'
  BY <1>1, <1>4, ReadKept DEF IInv
<1>6. \A c \in Conversion : ConversionHolds(c)'
  BY <1>1 DEF IInv, ConversionHolds, leads, records
<1> QED BY <1>2, <1>3, <1>5, <1>6 DEF IInv

LEMMA InitInv == Init => IInv
<1> SUFFICES ASSUME Init PROVE IInv
  OBVIOUS
<1>1. TypeOK
  BY IdleOK DEF Init, TypeOK, Handler
<1>2. \A r \in Request : ReadHolds(req[r])
  BY IdleOK DEF Init
<1>3. \A l \in Lead : LeadHolds(l)
  BY DEF Init, LeadHolds, Closed, Present, Status
<1>4. \A c \in Conversion : ConversionHolds(c)
  BY DEF Init, ConversionHolds
<1> QED BY <1>1, <1>2, <1>3, <1>4 DEF IInv

LEMMA NextInv == IInv /\ [Next]_vars => IInv'
<1> SUFFICES ASSUME IInv, [Next]_vars PROVE IInv'
  OBVIOUS
<1>1. ASSUME NEW l \in Lead, CreateLead(l) \/ DeleteLead(l) PROVE IInv'
  BY <1>1, CreateLeadOK, DeleteLeadOK
<1>2. ASSUME NEW r \in Request, NEW l \in Lead, NEW to \in Status, UpdateRead(r, l, to)
      PROVE  IInv'
  BY <1>2, UpdateReadOK
<1>3. ASSUME NEW r \in Request, UpdateWrite(r) PROVE IInv'
  BY <1>3, UpdateWriteOK
<1>4. ASSUME NEW r \in Request, Convert(r) PROVE IInv'
  BY <1>4, ConvertMoves, ConvertCommitOK DEF Convert
<1>5. ASSUME NEW r \in Request, Abandon(r) PROVE IInv'
  BY <1>5, IdleOK, MoveOK DEF Abandon, Return
<1>6. ASSUME NEW p \in Pipeline,
             DeletePipeline(p) \/ \E e \in {"person", "company"} : UpdatePipeline(p, e)
      PROVE  IInv'
  BY <1>6, PipelineOK
<1>7. CASE UNCHANGED vars
  <2>1. \A l \in Lead : LeadHolds(l)' /\ (Backed(l) => Backed(l)')
    BY <1>7 DEF vars, IInv, LeadHolds, Present, Backed
  <2>2. \A l \in Lead : Kept(l)
    BY <1>7, <2>1 DEF vars, IInv, Kept, LeadHolds
  <2>3. \A s \in Request : ReadHolds(req[s])'
    BY <1>7, <2>2, ReadKept DEF vars, IInv
  <2> QED BY <1>7, <2>1, <2>3 DEF vars, IInv, TypeOK, ConversionHolds
<1> QED BY <1>1, <1>2, <1>3, <1>4, <1>5, <1>6, <1>7 DEF Next

(* The invariant the others follow from: what a handler read before it     *)
(* writes is still good for what it writes.                                *)
THEOREM Inductive == Spec => []IInv
BY InitInv, NextInv, PTL DEF Spec

(* update_lead and convert_lead write on what they read earlier, and every *)
(* lead has still been through the statuses before its own.                *)
THEOREM StepsTaken == Spec => []StepsAreTaken
<1>1. IInv => StepsAreTaken
  BY DEF IInv, LeadHolds, Closed, StepsAreTaken
<1> QED BY <1>1, Inductive, PTL

(* A lead that says it is converted has a contact and a deal made from it. *)
THEOREM Backing == Spec => []ConvertedIsBacked
<1>1. IInv => ConvertedIsBacked
  BY DEF IInv, LeadHolds, Backed, ConvertedIsBacked
<1> QED BY <1>1, Inductive, PTL

(* convert_lead makes all of its records or none of them.                  *)
THEOREM Whole == Spec => []ConversionIsWhole
<1>1. IInv => ConversionIsWhole
  BY DEF IInv, ConversionHolds, ConversionIsWhole
<1> QED BY <1>1, Inductive, PTL
=============================================================================
