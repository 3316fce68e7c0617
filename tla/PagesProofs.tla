---------------------------- MODULE PagesProofs ----------------------------
(***************************************************************************)
(* Proofs about the pages of the frontend, for any of them, any number of  *)
(* actions of the user and of lost answers, and the forms beside them.     *)
(*                                                                         *)
(* The actions of the 32 pages are first reduced to a few kinds of step    *)
(* (UserSteps); the invariant is proved once for each kind.  It has four   *)
(* parts beside the types: Places, what handlers rely on; Lists, what the  *)
(* screen shows and what is on its way; Once, the rows that an opening of  *)
(* a form makes; Shows, the row of a form and the record of a page.        *)
(***************************************************************************)
EXTENDS Frontend, FiniteSetTheorems, TLAPS

Loads == [no : 0..MaxMoves, q : Query, by : {"effect", "refetch", "loose"},
          has : {None} \cup SUBSET (0..MaxMoves)]

(* What the page remembers of a write.                                     *)
IsWrite(w) ==
    /\ w.no \in 0..MaxMoves /\ w.q \in Query /\ w.done \in {"sent", "ok"}
    /\ w.opening \in 0..MaxMoves /\ w.sees \in {None} \cup Listing
    /\ w = [no |-> w.no, kind |-> w.kind, q |-> w.q, done |-> w.done,
            opening |-> w.opening, sees |-> w.sees]

(* A sort order or a filter has two positions.                             *)
TwoWay == {"contacts", "leads", "deals"}

PageTypes ==
    /\ TypeOK /\ moves # 0
    /\ loads \subseteq Loads
    /\ shown \in {None} \cup Listing
    /\ \A w \in writes : IsWrite(w)
    /\ committed \subseteq 0..MaxMoves /\ opened \in 0..MaxMoves
    /\ \A w \in writes : w.done = "ok" => w.no \in committed
    /\ page \in TwoWay => query.pick \in {0, 1}

(* The boxes that nothing stops.                                           *)
FreeBoxes == {"company_select", "deal_contact", "deal_company"}

OncePages == {"contacts", "companies", "leads", "deals", "documents", "dashboard",
              "activities", "lead_activities"}

Saving == {"create", "update"}

-----------------------------------------------------------------------------
(* The inductive invariant.  First, what a page needs for its handlers to  *)
(* make sense.                                                             *)
FormPlace == page \in FreeBoxes => form = "closed"

RecordPlace == page \in Record => query = Start /\ \A w \in writes : w.q = Start

SeesPlace == \A w \in writes : w.kind \in {"status", "tag"} => w.sees # None

NoticePlace == page \in {"notifications", "tags"} /\ writes # {} => shown # None

TagsPlace == page = "tags" => /\ \A k, l \in loads : k = l
                              /\ shown # None => loads = {}

EmailPlace == page = "email_logs" /\ writes # {} => overtaken \/ query.pick # 1

Places == FormPlace /\ RecordPlace /\ SeesPlace /\ NoticePlace /\ TagsPlace /\ EmailPlace

(* What is shown and what is being loaded.                                 *)
EffectCurrent == \A l \in loads : l.by = "effect" =>
                     l.q = query /\ page \notin FreeBoxes \cup {"deal_history"}

StaleEffect == Looking /\ shown # None /\ shown.q # query /\ shown.by = "effect" =>
                   failed \/ loads # {}

LoneLoad == Looking /\ ~overtaken =>
                \A l \in loads : /\ l.q = query /\ (l.has = None \/ acked \subseteq l.has)
                                 /\ \A k \in loads : k = l

Settled == Looking /\ ~overtaken /\ loads = {} /\ ~failed /\ shown # None =>
               shown.q = query /\ acked \subseteq shown.has

Lists == EffectCurrent /\ StaleEffect /\ LoneLoad /\ Settled

(* What an opening of a form has made.                                     *)
Made(n) == Cardinality({c \in created : c[1] = n})

Saves == {w \in writes : w.kind \in Saving}

OnceHere ==
    /\ opened < moves
    /\ \A c \in created : c[1] \in 0..opened
    /\ \A w \in Saves : w.opening \in 0..opened
    /\ \A v, w \in Saves : v = w
    /\ \A n \in 0..MaxMoves : Made(n) <= 1 + lost
    /\ \A w \in Saves : w.done = "sent" \/ w.kind = "update" => Made(w.opening) <= lost
    /\ form # "closed" /\ (\A w \in Saves : w.opening # opened) => Made(opened) <= lost
    /\ page = "activities" => \A w \in Saves : w.opening = opened =>
           form = "closed" \/ form = IF w.kind = "create" THEN "new" ELSE "edit"

Once == IsFiniteSet(created) /\ (page \in OncePages => OnceHere)

Shows == EditFormKnowsItsRow /\ RecordIsShown

PageInv == PageTypes /\ Places /\ Lists /\ Once /\ Shows

-----------------------------------------------------------------------------
(* The kinds of step a user's action can be.                               *)
Moved == moves' \in {moves, moves + 1} /\ moves' \in 0..MaxMoves

SameServer == UNCHANGED <<writes, committed, acked, created, lost>>

Idles ==
    /\ UNCHANGED <<query, shown, failed, loads, overtaken>> /\ loading' \in {loading, TRUE}
    /\ page \in Boxes => picked' = picked

Reruns ==
    /\ page \notin FreeBoxes \cup Record \cup {"deal_history", "tags", "notifications"}
    /\ query' \in Query /\ UNCHANGED <<shown, failed>> /\ loading' \in {loading, TRUE}
    /\ page \in TwoWay => query'.pick \in {0, 1}
    /\ page = "email_logs" => query' # query
    /\ \E wanted \in BOOLEAN : Rerun(query', wanted) /\ (Looking' => wanted)

Refetches ==
    /\ page \notin Boxes \cup Record \cup {"deal_history", "tags", "email_logs"}
    /\ Refetch(query) /\ UNCHANGED <<query, shown>> /\ loading' = TRUE

Clears ==
    LET First == [query EXCEPT !.page = 1] IN
    /\ page = "contacts" /\ query' = First
    /\ loads' = (IF query = First THEN loads ELSE Kept \cup {Load(First, "effect")})
                \cup {Load(query, "refetch")}
    /\ overtaken' = (overtaken \/ loads # {} \/ query # First)
    /\ failed' = FALSE /\ loading' = TRUE /\ UNCHANGED shown

Polls ==
    /\ page \in {"contact", "company", "deal", "notifications"}
    /\ \E by \in {"refetch", "loose"} : loads' = loads \cup {Load(query, by)}
    /\ overtaken' = ((loads \cup writes) # {} /\ (overtaken \/ loads # {}))
    /\ UNCHANGED <<query, shown, failed>> /\ loading' \in {loading, TRUE}

Looks ==
    /\ page = "deal_history" /\ query' \in Query /\ shown' = None /\ loading' = TRUE
    /\ loads' = loads \cup {Load(query', "refetch")} /\ overtaken' = (loads # {})
    /\ UNCHANGED failed

Writes ==
    /\ page \in FreeBoxes /\ query' \in Query /\ picked'
    /\ UNCHANGED <<shown, loading, failed, loads, overtaken>>

Fires ==
    /\ page \in FreeBoxes
    /\ loads' = loads \cup {Load(query, "refetch")} /\ overtaken' = (loads # {})
    /\ UNCHANGED <<query, shown, failed, loading>>

Empties ==
    /\ page \in Boxes /\ query.pick = 0 /\ shown' = None
    /\ UNCHANGED <<query, loading, failed, loads, overtaken>>

(* The user works on the list.                                             *)
Controls ==
    /\ UNCHANGED <<page, form, opened>> /\ SameServer /\ Moved
    /\ typed' \in Term /\ {confirm', picked', target'} \subseteq BOOLEAN
    /\ target' = target \/ page \in FreeBoxes
    /\ Idles \/ Reruns \/ Refetches \/ Clears \/ Polls \/ Looks \/ Writes \/ Fires \/ Empties

(* The user opens or closes a form.                                        *)
Dialogs ==
    /\ UNCHANGED <<page, typed, loading, confirm>> /\ SameServer /\ Moved /\ Idles
    /\ picked' \in BOOLEAN
    /\ \/ form' = "closed" /\ target' \in {FALSE, target} /\ UNCHANGED opened
       \/ /\ page \notin FreeBoxes /\ form' \in {"new", "edit"} /\ target' = (form' = "edit")
          /\ opened' = moves /\ (page \in OncePages => moves' = moves + 1)

(* The user starts a write.                                                *)
Sends ==
    /\ UNCHANGED <<page, ui, loads, committed, acked, opened, created, lost, overtaken>> /\ Moved
    /\ \E w :
        /\ writes' = writes \cup {w} /\ IsWrite(w) /\ w.done = "sent"
        /\ w.q = query /\ w.opening = opened
        /\ w.kind \in {"status", "tag"} => w.sees # None
        /\ page \in {"notifications", "tags"} => shown # None
        /\ page = "email_logs" => query.pick # 1
        /\ page \in OncePages /\ w.kind \in Saving =>
              /\ ~InFlight(Saving) /\ form # "closed"
              /\ page = "activities" => form = IF w.kind = "create" THEN "new" ELSE "edit"

(* The net after the success of the write w.                               *)
Rereads(w) ==
    /\ page \notin Boxes \cup {"tags", "deal_history", "email_logs"}
    /\ Refetch(w.q) /\ UNCHANGED <<query, shown>> /\ loading' \in {loading, TRUE}

Mails ==
    /\ page \in {"email_logs", "email_templates"}
    /\ \E k \in {0, 1} : EmailShow([query EXCEPT !.pick = k]) /\ (page = "email_templates" => k = 0)
    /\ UNCHANGED <<failed, shown>>

Fetches(w) ==
    /\ page = "lead" /\ loads' = loads \cup {Load(w.q, "loose")}
    /\ overtaken' = (overtaken \/ loads # {})
    /\ UNCHANGED <<query, loading, failed, shown>>

Patches(w) ==
    /\ \/ /\ page = "lead" /\ w.kind = "status"
          /\ shown' = [q |-> w.q, has |-> w.sees.has \cup {w.no}, by |-> "local"]
          /\ overtaken' = (overtaken \/ loads # {} \/ w.sees # shown)
       \/ /\ page = "notifications"
          /\ shown' = [shown EXCEPT !.has = @ \cup {w.no}]
          /\ overtaken' = (overtaken \/ loads # {})
       \/ /\ page = "tags" /\ w.kind \in {"status", "tag"}
          /\ shown' = [shown EXCEPT !.has = w.sees.has \cup {w.no}]
          /\ overtaken' = (overtaken \/ w.sees # shown)
    /\ UNCHANGED <<query, loading, failed, loads>>

(* A write is answered with success.                                       *)
Answers ==
    /\ UNCHANGED page /\ picked' \in BOOLEAN /\ (page \in Boxes => picked' = picked)
    /\ \E w \in writes : \E closes :
        /\ Acknowledge(w, closes)
        /\ page \in OncePages /\ w.kind \in Saving =>
              \/ "form" \in closes
              \/ page = "activities" /\ form # IF w.kind = "create" THEN "new" ELSE "edit"
        /\ "target" \in closes => "form" \in closes \/ page \in {"activities", "calendar"}
        /\ Rereads(w) \/ Mails \/ Fetches(w) \/ Patches(w)

(* A write ends without a refetch.                                         *)
Finishes ==
    /\ page \in FreeBoxes \cup {"whatsapp"}
    /\ \E w \in writes : writes' = writes \ {w}
    /\ form' \in {"closed", form} /\ target' \in {TRUE, target}
    /\ UNCHANGED <<page, query, typed, loading, failed, shown, confirm, picked, loads, committed,
                   acked, opened, created, lost, overtaken, moves>>

UserStep == Controls \/ Dialogs \/ Sends \/ Answers \/ Finishes \/ (page \in Record /\ Leave)

-----------------------------------------------------------------------------
(* Each action of a user is one of these.                                  *)
LEMMA OpenFormStep ==
    ASSUME PageTypes, NEW editing \in BOOLEAN, OpenForm(editing), page \notin FreeBoxes
    PROVE  Dialogs
<1>1. Moved /\ moves' = moves + 1 /\ opened' = moves
  BY PageAssumption DEF PageTypes, TypeOK, OpenForm, Moving, Moved
<1>2. SameServer /\ Idles
  BY DEF OpenForm, SameServer, Idles
<1>3. UNCHANGED <<page, typed, loading, confirm, picked>>
  BY DEF OpenForm
<1>4. form' \in {"new", "edit"} /\ target' = (form' = "edit")
  BY DEF OpenForm
<1>5. picked' \in BOOLEAN
  BY <1>3 DEF PageTypes, TypeOK
<1> QED BY <1>1, <1>2, <1>3, <1>4, <1>5 DEF Dialogs

LEMMA CloseFormStep ==
    ASSUME PageTypes, NEW keep \in BOOLEAN, CloseForm(keep)
    PROVE  Dialogs
<1>1. Moved
  BY PageAssumption DEF PageTypes, TypeOK, CloseForm, Moving, Moved
<1>2. SameServer /\ Idles
  BY DEF CloseForm, SameServer, Idles, net
<1>3. UNCHANGED <<page, typed, loading, confirm, picked, opened>> /\ form' = "closed"
  BY DEF CloseForm, net
<1>4. target' \in {FALSE, target}
  BY DEF CloseForm, PageTypes, TypeOK
<1>5. picked' \in BOOLEAN
  BY <1>3 DEF PageTypes, TypeOK
<1> QED BY <1>1, <1>2, <1>3, <1>4, <1>5 DEF Dialogs

LEMMA ConfirmStep ==
    ASSUME PageTypes, OpenConfirm \/ CloseConfirm
    PROVE  Controls
<1>1. Moved
BY PageAssumption DEF PageTypes, TypeOK, OpenConfirm, CloseConfirm, Moving, Moved
<1>2. SameServer
BY DEF OpenConfirm, CloseConfirm, SameServer, net
<1>3. Idles
BY DEF OpenConfirm, CloseConfirm, Idles, net
<1>4. UNCHANGED <<page, form, opened, typed, picked, target>>
BY DEF OpenConfirm, CloseConfirm, net
<1>5. confirm' \in BOOLEAN
BY DEF OpenConfirm, CloseConfirm
<1>6. typed' \in Term /\ {confirm', picked', target'} \subseteq BOOLEAN
BY <1>4, <1>5 DEF PageTypes, TypeOK
<1> QED BY <1>1, <1>2, <1>3, <1>4, <1>6 DEF Controls

LEMMA SendStep ==
    ASSUME PageTypes, NEW kind, Send(kind),
           kind \in {"status", "tag"} => shown # None,
           page \in {"notifications", "tags"} => shown # None,
           page = "email_logs" => query.pick # 1,
           page \in OncePages /\ kind \in Saving =>
              /\ ~InFlight(Saving) /\ form # "closed"
              /\ page = "activities" => form = IF kind = "create" THEN "new" ELSE "edit"
    PROVE  Sends
<1> DEFINE w == [no |-> moves, kind |-> kind, q |-> query, done |-> "sent", opening |-> opened,
                 sees |-> IF kind \in {"status", "tag"} THEN shown ELSE None]
<1>1. IsWrite(w) /\ w.done = "sent" /\ w.q = query /\ w.opening = opened /\ w.kind = kind
      /\ (w.kind \in {"status", "tag"} => w.sees # None)
  BY DEF PageTypes, TypeOK, IsWrite
<1>2. writes' = writes \cup {w} /\ Moved
      /\ UNCHANGED <<page, ui, loads, committed, acked, opened, created, lost, overtaken>>
  BY PageAssumption DEF PageTypes, TypeOK, Send, Moving, Moved
<1> HIDE DEF w
<1> QED BY <1>1, <1>2 DEF Sends

LEMMA SubmitStep ==
    ASSUME PageTypes, NEW guarded \in BOOLEAN, SubmitForm(guarded),
           page \notin {"notifications", "tags", "email_logs", "activities"},
           page \in OncePages => guarded
    PROVE  Sends
<1>1. form # "closed" /\ (guarded => ~InFlight(Saving))
  BY DEF SubmitForm, Saving
<1>2. PICK kind : kind = IF target THEN "update" ELSE "create"
  OBVIOUS
<1>3. Send(kind) /\ kind \notin {"status", "tag"}
  BY <1>2 DEF SubmitForm
<1> QED BY <1>1, <1>3, SendStep

LEMMA QueryFacts ==
    ASSUME PageTypes
    PROVE  /\ query \in Query /\ query.pick \in 0..MaxMoves /\ query.page \in 1..2
           /\ \A p \in 1..2 : [query EXCEPT !.page = p] \in Query /\ [query EXCEPT !.page = p].pick = query.pick
           /\ \A k \in 0..MaxMoves : [query EXCEPT !.pick = k] \in Query /\ [query EXCEPT !.pick = k].pick = k
           /\ \A text \in Term : /\ [query EXCEPT !.search = text, !.page = 1] \in Query
                                /\ [query EXCEPT !.search = text, !.page = 1].pick = query.pick
           /\ \A k \in 0..MaxMoves : /\ [query EXCEPT !.pick = k, !.page = 1] \in Query
                                    /\ [query EXCEPT !.pick = k, !.page = 1].pick = k
           /\ MaxMoves \in Nat /\ moves \in Nat /\ moves # 0
<1>1. /\ query \in [search : Term, page : 1..2, pick : 0..MaxMoves]
      /\ MaxMoves \in Nat /\ moves \in Nat /\ moves # 0
  BY PageAssumption DEF PageTypes, TypeOK, Query
<1> DEFINE Queries == [search : Term, page : 1..2, pick : 0..MaxMoves]
<1>2. query.pick \in 0..MaxMoves /\ query.page \in 1..2 /\ 1 \in 1..2
  BY <1>1
<1>3. ASSUME NEW p \in 1..2
      PROVE  [query EXCEPT !.page = p] \in Queries /\ [query EXCEPT !.page = p].pick = query.pick
  BY <1>1
<1>4. ASSUME NEW k \in 0..MaxMoves
      PROVE  [query EXCEPT !.pick = k] \in Queries /\ [query EXCEPT !.pick = k].pick = k
  BY <1>1
<1>5. ASSUME NEW k \in 0..MaxMoves
      PROVE  /\ [query EXCEPT !.pick = k, !.page = 1] \in Queries
             /\ [query EXCEPT !.pick = k, !.page = 1].pick = k
  BY <1>1, <1>2
<1>6. ASSUME NEW text \in Term
      PROVE  /\ [query EXCEPT !.search = text, !.page = 1] \in Queries
             /\ [query EXCEPT !.search = text, !.page = 1].pick = query.pick
  BY <1>1, <1>2
<1> QED BY <1>1, <1>2, <1>3, <1>4, <1>5, <1>6 DEF Query

(* A control of a page that is not covered.                                *)
LEMMA SteerStep ==
    ASSUME PageTypes, Moving, Idles \/ Reruns,
           UNCHANGED <<page, form, target, confirm, picked, opened,
                       writes, committed, acked, created, lost>>,
           typed' \in Term
    PROVE  Controls
<1>1. Moved
  BY PageAssumption DEF PageTypes, TypeOK, Moving, Moved
<1>2. {confirm', picked', target'} \subseteq BOOLEAN
  BY DEF PageTypes, TypeOK
<1> QED BY <1>1, <1>2 DEF Controls, SameServer

LEMMA AskStep ==
    ASSUME PageTypes, NEW q \in Query, Ask(q) \/ Slip(q),
           page \notin FreeBoxes \cup Record \cup {"deal_history", "tags", "notifications", "email_logs"},
           page \in TwoWay => q.pick \in {0, 1},
           UNCHANGED <<failed, shown, picked>>
    PROVE  Idles \/ Reruns
<1>1. query' = q /\ loading' \in {loading, TRUE}
  BY DEF Ask, Slip
<1>2. CASE q = query
  BY <1>1, <1>2 DEF Idles, Ask, Slip
<1>3. CASE q # query
  <2>1. Rerun(query', TRUE)
    BY <1>1, <1>3 DEF Ask, Slip
  <2> QED BY <1>1, <2>1 DEF Reruns
<1> QED BY <1>2, <1>3

ListPage == {"contacts", "companies", "leads", "documents", "deals", "audit"}

LEMMA SearchStep ==
    ASSUME PageTypes, NEW clearable, Search(clearable), page \in ListPage
    PROVE  Controls
<1>1. PICK text \in Term :
         /\ Moving /\ Ask([query EXCEPT !.search = text, !.page = 1]) /\ typed' \in Term
         /\ UNCHANGED <<page, failed, shown, form, target, confirm, picked,
                        writes, committed, acked, opened, created, lost>>
  <2>1. CASE Control(Ask([query EXCEPT !.search = typed, !.page = 1]))
    BY <2>1 DEF Control, Steer, PageTypes, TypeOK
  <2>2. CASE ~Control(Ask([query EXCEPT !.search = typed, !.page = 1]))
    <3>1. "" \in Term
      BY DEF Term
    <3>2. /\ Moving /\ Ask([query EXCEPT !.search = "", !.page = 1]) /\ typed' = ""
          /\ UNCHANGED <<page, failed, shown, form, target, confirm, picked,
                        writes, committed, acked, opened, created, lost>>
      BY <2>2 DEF Search
    <3> QED BY <3>1, <3>2
  <2> QED BY <2>1, <2>2
<1> DEFINE q == [query EXCEPT !.search = text, !.page = 1]
<1>2. q \in Query /\ (page \in TwoWay => q.pick \in {0, 1})
  BY QueryFacts DEF PageTypes
<1> HIDE DEF q
<1>3. Ask(q)
  BY <1>1 DEF q
<1>4. page \notin FreeBoxes \cup Record \cup {"deal_history", "tags", "notifications", "email_logs"}
  BY DEF ListPage, FreeBoxes, Record
<1>5. Idles \/ Reruns
  BY <1>1, <1>2, <1>3, <1>4, AskStep
<1> QED BY <1>1, <1>5, SteerStep

(* One control: what the page asks for next.                               *)
LEMMA ControlStep ==
    ASSUME PageTypes, NEW q \in Query, Control(Ask(q)) \/ Control(Slip(q)),
           page \in ListPage \cup {"calendar"},
           page \in TwoWay => q.pick \in {0, 1}
    PROVE  Controls
<1>1. /\ Moving /\ (Ask(q) \/ Slip(q)) /\ typed' \in Term
      /\ UNCHANGED <<page, failed, shown, form, target, confirm, picked,
                     writes, committed, acked, opened, created, lost>>
  BY DEF Control, Steer, PageTypes, TypeOK
<1>2. page \notin FreeBoxes \cup Record \cup {"deal_history", "tags", "notifications", "email_logs"}
  BY DEF ListPage, FreeBoxes, Record
<1>3. Idles \/ Reruns
  BY <1>1, <1>2, AskStep
<1> QED BY <1>1, <1>3, SteerStep

LEMMA FilterStep ==
    ASSUME PageTypes, Control(Ask([query EXCEPT !.pick = 1 - @, !.page = 1])), page \in TwoWay
    PROVE  Controls
<1>1. query.pick \in {0, 1} /\ 1 - query.pick \in {0, 1} /\ 1 - query.pick \in 0..MaxMoves
  BY PageAssumption DEF PageTypes
<1> DEFINE q == [query EXCEPT !.pick = 1 - query.pick, !.page = 1]
<1>2. q \in Query /\ q.pick \in {0, 1} /\ page \in ListPage
  BY <1>1, QueryFacts DEF TwoWay, ListPage
<1> HIDE DEF q
<1>3. Control(Ask(q))
  BY DEF q
<1> QED BY <1>2, <1>3, ControlStep

LEMMA PickStep ==
    ASSUME PageTypes, \E k \in {0, 1} : Control(Ask(PickIs(k))), page \in ListPage
    PROVE  Controls
<1>1. PICK k \in {0, 1} : Control(Ask(PickIs(k)))
  OBVIOUS
<1>2. k \in 0..MaxMoves
  BY PageAssumption
<1>3. PickIs(k) \in Query /\ PickIs(k).pick \in {0, 1}
  BY <1>2, QueryFacts DEF PickIs
<1> QED BY <1>1, <1>3, ControlStep

LEMMA TurnStep ==
    ASSUME PageTypes, Turn, page \in ListPage
    PROVE  Controls
<1>1. PICK p \in 1..2 : Control(Ask([query EXCEPT !.page = p]))
  BY DEF Turn
<1> DEFINE q == [query EXCEPT !.page = p]
<1>2. q \in Query /\ (page \in TwoWay => q.pick \in {0, 1})
  BY QueryFacts DEF PageTypes
<1> HIDE DEF q
<1>3. Control(Ask(q))
  BY <1>1 DEF q
<1> QED BY <1>2, <1>3, ControlStep

LEMMA TranslateStep ==
    ASSUME PageTypes, Translate, page \in ListPage \cup {"activities", "dashboard", "reports"}
    PROVE  Controls
<1>1. /\ Moving /\ Rerun(query, TRUE) /\ query' = query /\ loading' = loading /\ typed' \in Term
      /\ UNCHANGED <<page, failed, shown, form, target, confirm, picked,
                     writes, committed, acked, opened, created, lost>>
  BY DEF Translate, PageTypes, TypeOK
<1>2. page \notin FreeBoxes \cup Record \cup {"deal_history", "tags", "notifications", "email_logs"}
  BY DEF ListPage, FreeBoxes, Record
<1>3. query \in Query /\ (page \in TwoWay => query.pick \in {0, 1})
  BY DEF PageTypes, TypeOK
<1>4. Rerun(query', TRUE)
  BY <1>1
<1>5. Reruns
  BY <1>1, <1>2, <1>3, <1>4 DEF Reruns
<1> QED BY <1>1, <1>5, SteerStep

LEMMA RetryStep ==
    ASSUME PageTypes, Retry,
           page \notin Boxes \cup Record \cup {"deal_history", "tags", "email_logs"}
    PROVE  Controls
<1>1. Moved
  BY PageAssumption DEF PageTypes, TypeOK, Retry, Moving, Moved
<1>2. Refetches
  BY DEF Retry, Refetches
<1>3. UNCHANGED <<page, typed, form, target, confirm, picked,
                  writes, committed, acked, opened, created, lost>>
  BY DEF Retry
<1>4. {confirm', picked', target'} \subseteq BOOLEAN /\ typed' \in Term
  BY <1>3 DEF PageTypes, TypeOK
<1> QED BY <1>1, <1>2, <1>3, <1>4 DEF Controls, SameServer

LEMMA TypeStep ==
    ASSUME PageTypes, NEW text \in Term, Type(text)
    PROVE  Controls
<1>1. Moved
  BY DEF PageTypes, TypeOK, Type, Moved
<1>2. Idles /\ SameServer
  BY DEF Type, Idles, SameServer, net
<1>3. UNCHANGED <<page, form, target, confirm, picked, opened>> /\ typed' = text
  BY DEF Type, net
<1>4. {confirm', picked', target'} \subseteq BOOLEAN
  BY <1>3 DEF PageTypes, TypeOK
<1> QED BY <1>1, <1>2, <1>3, <1>4 DEF Controls

(* What a handler does with the success of a write.                        *)
LEMMA SettleStep ==
    ASSUME PageTypes, NEW kinds, NEW closes, Settle(kinds, closes) \/ SettleInPlace(kinds, closes),
           page \notin Boxes \cup {"tags", "deal_history", "email_logs"},
           page \in OncePages => \A k \in kinds \cap Saving :
              \/ "form" \in closes
              \/ page = "activities" /\ form # IF k = "create" THEN "new" ELSE "edit",
           "target" \in closes => "form" \in closes \/ page \in {"activities", "calendar"}
    PROVE  Answers
<1>1. PICK w \in writes :
         /\ w.kind \in kinds /\ Acknowledge(w, closes) /\ Refetch(w.q)
         /\ UNCHANGED <<page, query, shown, picked>> /\ loading' \in {loading, TRUE}
  BY DEF Settle, SettleInPlace
<1>2. Rereads(w)
  BY <1>1 DEF Rereads
<1>3. picked' \in BOOLEAN /\ UNCHANGED <<page, picked>>
  BY <1>1 DEF PageTypes, TypeOK
<1> QED BY <1>1, <1>2, <1>3 DEF Answers

-----------------------------------------------------------------------------
(* The actions of each page.                                               *)
(* Only the flags beside the list change.                                  *)
LEMMA FlagStep ==
    ASSUME PageTypes, page \notin Boxes, moves' = moves \/ Moving,
           UNCHANGED <<page, query, typed, loading, failed, shown, form, target, net>>,
           picked' \in BOOLEAN, confirm' \in BOOLEAN
    PROVE  Controls
<1>1. Moved
  BY PageAssumption DEF PageTypes, TypeOK, Moving, Moved
<1>2. Idles /\ SameServer /\ UNCHANGED <<page, form, opened, target, typed>>
  BY DEF Idles, SameServer, net
<1>3. typed' \in Term /\ {confirm', picked', target'} \subseteq BOOLEAN
  BY <1>2 DEF PageTypes, TypeOK
<1> QED BY <1>1, <1>2, <1>3 DEF Controls

LEMMA EmailShowStep ==
    ASSUME PageTypes, NEW q \in Query, Steer(EmailShow(q)), page \in {"email_logs", "email_templates"}
    PROVE  Controls
<1>1. /\ Moving /\ query' = q
      /\ IF q = query THEN UNCHANGED <<loads, overtaken>> ELSE Rerun(q, q.pick = 1)
      /\ UNCHANGED <<page, typed, failed, shown, form, target, confirm, picked,
                     writes, committed, acked, opened, created, lost>>
  BY DEF Steer, EmailShow
<1>2. typed' \in Term
  BY <1>1 DEF PageTypes, TypeOK
<1>3. loading' \in {loading, TRUE}
  BY DEF Steer, EmailShow, PageTypes, TypeOK
<1>4. CASE q = query
  BY <1>1, <1>2, <1>3, <1>4, SteerStep DEF Idles
<1>5. CASE q # query
  <2>1. page \notin FreeBoxes \cup Record \cup TwoWay \cup {"deal_history", "tags", "notifications"}
    BY DEF FreeBoxes, Record, TwoWay
  <2>2. CASE q.pick = 1
    <3>1. Rerun(query', TRUE)
      BY <1>1, <1>5, <2>2 DEF Rerun
    <3> QED BY <1>1, <1>2, <1>3, <1>5, <2>1, <3>1, SteerStep DEF Reruns
  <2>3. CASE q.pick # 1
    <3>1. Rerun(query', FALSE)
      BY <1>1, <1>5, <2>3 DEF Rerun
    <3>2. ~Looking'
      BY <1>1, <2>3 DEF Looking
    <3> QED BY <1>1, <1>2, <1>3, <1>5, <2>1, <3>1, <3>2, SteerStep DEF Reruns
  <2> QED BY <2>2, <2>3
<1> QED BY <1>4, <1>5

LEMMA ContactsSteps ==
    ASSUME PageTypes, ContactsNext
    PROVE  UserStep
<1> USE DEF UserStep
<1>0. page = "contacts" /\ page \in ListPage /\ page \in OncePages /\ page \in TwoWay
      /\ page \notin FreeBoxes /\ page \notin Boxes /\ page \notin Record
      /\ page \notin {"tags", "deal_history", "email_logs", "notifications", "activities"}
  BY DEF ContactsNext, ListPage, OncePages, TwoWay, FreeBoxes, Boxes, Record
<1>1. CASE ContactsSearch
  BY <1>0, <1>1, SearchStep, Zenon DEF ContactsSearch
<1>2. CASE ContactsSort
  <2>1. query.pick \in {0, 1} /\ 1 - query.pick \in {0, 1} /\ 1 - query.pick \in 0..MaxMoves
    BY <1>0, PageAssumption DEF PageTypes
  <2> DEFINE q == PickIs(1 - query.pick)
  <2>2. q \in Query /\ q.pick \in {0, 1}
    BY <2>1, QueryFacts DEF PickIs
  <2> HIDE DEF q
  <2>3. Control(Ask(q))
    BY <1>2 DEF ContactsSort, q
  <2> QED BY <1>0, <2>2, <2>3, ControlStep
<1>3. CASE AdvancedFilters
  <2>1. Moved
    BY <1>3, PageAssumption DEF PageTypes, TypeOK, AdvancedFilters, Moving, Moved
  <2>2. Clears
    BY <1>0, <1>3 DEF AdvancedFilters, Clears
  <2>3. UNCHANGED <<page, typed, form, target, confirm, picked,
                    writes, committed, acked, opened, created, lost>>
    BY <1>3 DEF AdvancedFilters
  <2>4. {confirm', picked', target'} \subseteq BOOLEAN /\ typed' \in Term
    BY <2>3 DEF PageTypes, TypeOK
  <2> QED BY <2>1, <2>2, <2>3, <2>4 DEF Controls, SameServer
<1>4. CASE ActiveFilters
  <2> DEFINE q == [query EXCEPT !.page = 1]
  <2>1. q \in Query /\ q.pick \in {0, 1}
    BY <1>0, QueryFacts DEF PageTypes
  <2> HIDE DEF q
  <2>2. Control(Slip(q))
    BY <1>4 DEF ActiveFilters, q
  <2> QED BY <1>0, <2>1, <2>2, ControlStep
<1>5. CASE ContactsToolbar
  BY <1>0, <1>5, OpenFormStep, SendStep DEF ContactsToolbar, Saving
<1>6. CASE ContactsRows
  <2>1. CASE RowsShown /\ Free /\ (OpenForm(TRUE) \/ OpenConfirm)
    BY <1>0, <2>1, OpenFormStep, ConfirmStep
  <2>3. CASE RowsShown /\ Turn
    BY <1>0, <2>3, TurnStep
  <2>4. CASE Retry
    BY <1>0, <2>4, RetryStep
  <2>2. CASE /\ RowsShown /\ Free /\ picked' = ~picked
             /\ UNCHANGED <<page, query, typed, loading, failed, shown, form, target, confirm, net, moves>>
    <3>1. Idles /\ SameServer /\ UNCHANGED <<page, typed, form, opened, target, confirm, moves>>
      BY <1>0, <2>2 DEF Idles, SameServer, net
    <3>2. Moved /\ typed' \in Term /\ {confirm', target'} \subseteq BOOLEAN
      BY <3>1 DEF PageTypes, TypeOK, Moved
    <3>3. picked' \in BOOLEAN
      <4>1. \A b : (~b) \in BOOLEAN
        BY Zenon
      <4>2. picked' = ~picked
        BY <2>2
      <4> QED BY <4>1, <4>2, Zenon
    <3> QED BY <3>1, <3>2, <3>3 DEF Controls
  <2> QED BY <1>6, <2>1, <2>2, <2>3, <2>4, Zenon DEF ContactsRows
<1>7. CASE ContactsHandlers
  <2>1. CASE SubmitForm(TRUE) \/ CloseForm(FALSE) \/ CloseConfirm
    BY <1>0, <2>1, SubmitStep, CloseFormStep, ConfirmStep
  <2>2. CASE Send("delete")
    BY <1>0, <2>2, SendStep DEF Saving
  <2>3. CASE Settle({"create", "update"}, {"form", "target"})
    BY <1>0, <2>3, SettleStep
  <2> QED BY <1>7, <2>1, <2>2, <2>3 DEF ContactsHandlers
<1>8. CASE ContactsDeleted
  <2>1. PICK w \in writes, closes \in {{}, {"confirm"}} :
           /\ w.kind \in {"delete", "bulk"} /\ Acknowledge(w, closes) /\ picked' \in {picked, FALSE}
           /\ Refetch(w.q) /\ loading' = TRUE /\ UNCHANGED <<page, query, shown>>
    BY <1>8 DEF ContactsDeleted
  <2>2. Rereads(w)
    BY <1>0, <2>1 DEF Rereads
  <2>3. picked' \in BOOLEAN
    BY <2>1 DEF PageTypes, TypeOK
  <2> QED BY <1>0, <2>1, <2>2, <2>3 DEF Answers, Saving
<1>9. CASE Translate
  BY <1>0, <1>9, TranslateStep
<1>10. CASE \E text \in Term : Type(text)
  BY <1>10, TypeStep
<1> QED BY <1>1, <1>2, <1>3, <1>4, <1>5, <1>6, <1>7, <1>8, <1>9, <1>10 DEF ContactsNext

LEMMA CompaniesSteps ==
    ASSUME PageTypes, CompaniesNext
    PROVE  UserStep
<1> USE DEF UserStep
<1>0. page = "companies" /\ page \in ListPage /\ page \in OncePages
      /\ page \notin FreeBoxes /\ page \notin Boxes /\ page \notin Record
      /\ page \notin {"tags", "deal_history", "email_logs", "notifications", "activities"}
  BY DEF CompaniesNext, ListPage, OncePages, FreeBoxes, Boxes, Record
<1>1. CASE CompaniesSearch
  BY <1>0, <1>1, SearchStep, Zenon DEF CompaniesSearch
<1>2. CASE CompaniesRows
  BY <1>0, <1>2, OpenFormStep, ConfirmStep, TurnStep, RetryStep DEF CompaniesRows
<1>3. CASE CompaniesHandlers
  <2>1. CASE SubmitForm(TRUE) \/ CloseForm(FALSE) \/ CloseConfirm
    BY <1>0, <2>1, SubmitStep, CloseFormStep, ConfirmStep
  <2>2. CASE Send("delete")
    BY <1>0, <2>2, SendStep DEF Saving
  <2>3. CASE Settle({"create", "update"}, {"form", "target"})
    BY <1>0, <2>3, SettleStep
  <2>4. CASE Settle({"delete"}, {"confirm"})
    BY <1>0, <2>4, SettleStep DEF Saving
  <2> QED BY <1>3, <2>1, <2>2, <2>3, <2>4 DEF CompaniesHandlers
<1>4. CASE Translate
  BY <1>0, <1>4, TranslateStep
<1>5. CASE \E text \in Term : Type(text)
  BY <1>5, TypeStep
<1> QED BY <1>1, <1>2, <1>3, <1>4, <1>5 DEF CompaniesNext

LEMMA LeadsSteps ==
    ASSUME PageTypes, LeadsNext
    PROVE  UserStep
<1> USE DEF UserStep
<1>0. page = "leads" /\ page \in ListPage /\ page \in OncePages /\ page \in TwoWay
      /\ page \notin FreeBoxes /\ page \notin Boxes /\ page \notin Record
      /\ page \notin {"tags", "deal_history", "email_logs", "notifications", "activities"}
  BY DEF LeadsNext, ListPage, OncePages, TwoWay, FreeBoxes, Boxes, Record
<1>1. CASE LeadsSearch
  BY <1>0, <1>1, SearchStep, Zenon DEF LeadsSearch
<1>2. CASE LeadsFilter
  BY <1>0, <1>2, FilterStep DEF LeadsFilter
<1>3. CASE LeadsRows
  BY <1>0, <1>3, OpenFormStep, ConfirmStep, TurnStep DEF LeadsRows
<1>4. CASE LeadsHandlers
  <2>1. CASE SubmitForm(TRUE) \/ CloseForm(FALSE) \/ CloseConfirm
    BY <1>0, <2>1, SubmitStep, CloseFormStep, ConfirmStep
  <2>2. CASE Send("delete") \/ Send("convert")
    BY <1>0, <2>2, SendStep DEF Saving
  <2>3. CASE Settle({"create", "update"}, {"form", "target"})
    BY <1>0, <2>3, SettleStep
  <2>4. CASE Settle({"delete", "convert"}, {"confirm"})
    BY <1>0, <2>4, SettleStep DEF Saving
  <2> QED BY <1>4, <2>1, <2>2, <2>3, <2>4 DEF LeadsHandlers
<1>5. CASE \E text \in Term : Type(text)
  BY <1>5, TypeStep
<1> QED BY <1>1, <1>2, <1>3, <1>4, <1>5 DEF LeadsNext

LEMMA DealsSteps ==
    ASSUME PageTypes, DealsNext
    PROVE  UserStep
<1> USE DEF UserStep
<1>0. page = "deals" /\ page \in ListPage /\ page \in OncePages /\ page \in TwoWay
      /\ page \notin FreeBoxes /\ page \notin Boxes /\ page \notin Record
      /\ page \notin {"tags", "deal_history", "email_logs", "notifications", "activities"}
  BY DEF DealsNext, ListPage, OncePages, TwoWay, FreeBoxes, Boxes, Record
<1>1. CASE DealsSearch
  BY <1>0, <1>1, SearchStep, Zenon DEF DealsSearch
<1>2. CASE DealsFilter
  BY <1>0, <1>2, FilterStep DEF DealsFilter
<1>3. CASE DealsRows
  <2>1. CASE DealDragged
    BY <1>0, <2>1, SendStep DEF DealDragged, Saving
  <2> QED BY <1>0, <1>3, <2>1, OpenFormStep, ConfirmStep, TurnStep, RetryStep
             DEF DealsRows, DealsTable, DealCard
<1>4. CASE DealsHandlers
  <2>1. CASE SubmitForm(TRUE) \/ CloseForm(FALSE) \/ CloseConfirm
    BY <1>0, <2>1, SubmitStep, CloseFormStep, ConfirmStep
  <2>2. CASE Send("delete")
    BY <1>0, <2>2, SendStep DEF Saving
  <2>3. CASE Settle({"create", "update"}, {"form", "target"})
    BY <1>0, <2>3, SettleStep
  <2>4. CASE Settle({"delete"}, {"confirm"}) \/ Settle({"move"}, {})
    BY <1>0, <2>4, SettleStep DEF Saving
  <2> QED BY <1>4, <2>1, <2>2, <2>3, <2>4 DEF DealsHandlers
<1>5. CASE Translate
  BY <1>0, <1>5, TranslateStep
<1>6. CASE \E text \in Term : Type(text)
  BY <1>6, TypeStep
<1> QED BY <1>1, <1>2, <1>3, <1>4, <1>5, <1>6 DEF DealsNext

LEMMA DocumentsSteps ==
    ASSUME PageTypes, DocumentsNext
    PROVE  UserStep
<1> USE DEF UserStep
<1>0. page = "documents" /\ page \in ListPage /\ page \in OncePages
      /\ page \notin FreeBoxes /\ page \notin Boxes /\ page \notin Record
      /\ page \notin {"tags", "deal_history", "email_logs", "notifications", "activities"}
  BY DEF DocumentsNext, ListPage, OncePages, FreeBoxes, Boxes, Record
<1>1. CASE DocumentsSearch
  BY <1>0, <1>1, SearchStep, Zenon DEF DocumentsSearch
<1>2. CASE DocumentsRows
  BY <1>0, <1>2, PickStep, OpenFormStep, ConfirmStep, RetryStep DEF DocumentsRows
<1>3. CASE DocumentsHandlers
  <2>1. CASE SubmitForm(TRUE) \/ CloseForm(FALSE) \/ CloseConfirm
    BY <1>0, <2>1, SubmitStep, CloseFormStep, ConfirmStep
  <2>2. CASE Send("delete")
    BY <1>0, <2>2, SendStep DEF Saving
  <2>3. CASE Settle({"create"}, {"form"})
    BY <1>0, <2>3, SettleStep
  <2>4. CASE Settle({"delete"}, {"confirm"})
    BY <1>0, <2>4, SettleStep DEF Saving
  <2> QED BY <1>3, <2>1, <2>2, <2>3, <2>4 DEF DocumentsHandlers
<1>4. CASE Translate
  BY <1>0, <1>4, TranslateStep
<1>5. CASE \E text \in Term : Type(text)
  BY <1>5, TypeStep
<1> QED BY <1>1, <1>2, <1>3, <1>4, <1>5 DEF DocumentsNext

LEMMA AuditSteps ==
    ASSUME PageTypes, AuditNext
    PROVE  UserStep
<1>1. page = "audit" /\ page \in ListPage
      /\ page \notin Boxes /\ page \notin Record /\ page \notin {"tags", "deal_history", "email_logs"}
  BY DEF AuditNext, ListPage, Boxes, Record
<1> QED BY <1>1, PickStep, RetryStep, TranslateStep DEF AuditNext, AuditRows, UserStep

LEMMA ActivitiesSteps ==
    ASSUME PageTypes, ActivitiesNext
    PROVE  UserStep
<1> USE DEF UserStep
<1>0. page = "activities" /\ page \in OncePages
      /\ page \notin FreeBoxes /\ page \notin Boxes /\ page \notin Record
      /\ page \notin {"tags", "deal_history", "email_logs", "notifications"}
  BY DEF ActivitiesNext, OncePages, FreeBoxes, Boxes, Record
<1>1. CASE ActivitiesRows
  BY <1>0, <1>1, OpenFormStep, ConfirmStep, RetryStep DEF ActivitiesRows
<1>2. CASE ActivitiesSubmit
  BY <1>0, <1>2, SendStep DEF ActivitiesSubmit, Saving
<1>3. CASE ActivitiesDetail
  <2>1. CASE Send("delete") \/ Send("complete")
    BY <1>0, <2>1, SendStep DEF Saving
  <2>2. CASE OpenForm(TRUE) \/ CloseConfirm \/ CloseForm(TRUE)
    BY <1>0, <2>2, OpenFormStep, CloseFormStep, ConfirmStep
  <2> QED BY <1>3, <2>1, <2>2 DEF ActivitiesDetail
<1>4. CASE ActivitiesHandlers
  <2>1. CASE Settle({"create"}, IF form = "new" THEN {"form"} ELSE {})
    BY <1>0, <2>1, SettleStep DEF Saving
  <2>2. CASE Settle({"update"}, {"confirm", "target"} \cup (IF form = "edit" THEN {"form"} ELSE {}))
    BY <1>0, <2>2, SettleStep DEF Saving
  <2>3. CASE Settle({"delete", "complete"}, {"confirm", "target"})
    BY <1>0, <2>3, SettleStep DEF Saving
  <2> QED BY <1>4, <2>1, <2>2, <2>3 DEF ActivitiesHandlers
<1>5. CASE Translate
  BY <1>0, <1>5, TranslateStep
<1> QED BY <1>1, <1>2, <1>3, <1>4, <1>5 DEF ActivitiesNext

LEMMA CalendarSteps ==
    ASSUME PageTypes, CalendarNext
    PROVE  UserStep
<1> USE DEF UserStep
<1>0. page = "calendar" /\ page \notin OncePages /\ page \notin TwoWay
      /\ page \notin FreeBoxes /\ page \notin Boxes /\ page \notin Record
      /\ page \notin {"tags", "deal_history", "email_logs", "notifications", "activities"}
  BY DEF CalendarNext, OncePages, TwoWay, FreeBoxes, Boxes, Record
<1>1. CASE CalendarNavigate
  <2> DEFINE q == [query EXCEPT !.pick = moves]
  <2>1. q \in Query
    BY QueryFacts DEF PageTypes, TypeOK
  <2> HIDE DEF q
  <2>2. Control(Ask(q))
    BY <1>1 DEF CalendarNavigate, q
  <2> QED BY <1>0, <2>1, <2>2, ControlStep
<1>2. CASE CalendarGrid
  <2>1. CASE Send("sync")
    BY <1>0, <2>1, SendStep
  <2>2. CASE OpenForm(TRUE) \/ OpenForm(FALSE)
    BY <1>0, <2>2, OpenFormStep
  <2> QED BY <1>2, <2>1, <2>2 DEF CalendarGrid
<1>3. CASE CalendarForm
  <2>1. CASE SubmitForm(FALSE) \/ CloseForm(TRUE)
    BY <1>0, <2>1, SubmitStep, CloseFormStep
  <2>2. CASE OpenConfirm \/ CloseConfirm
    BY <1>0, <2>2, ConfirmStep
  <2>3. CASE Send("delete")
    BY <1>0, <2>3, SendStep
  <2> QED BY <1>3, <2>1, <2>2, <2>3 DEF CalendarForm
<1>4. CASE CalendarHandlers
  <2>1. CASE Settle({"create", "update"}, {"form"})
    BY <1>0, <2>1, SettleStep
  <2>2. CASE Settle({"delete"}, {"confirm", "target"})
    BY <1>0, <2>2, SettleStep
  <2>3. CASE Settle({"sync"}, {})
    BY <1>0, <2>3, SettleStep
  <2> QED BY <1>4, <2>1, <2>2, <2>3 DEF CalendarHandlers
<1> QED BY <1>1, <1>2, <1>3, <1>4 DEF CalendarNext

LEMMA EmailTabStep ==
    ASSUME PageTypes, EmailTab, page \in {"email_logs", "email_templates"}
    PROVE  Controls
<1>1. PICK k \in {0, 1} : Steer(EmailShow([query EXCEPT !.pick = k]))
  BY DEF EmailTab
<1> DEFINE q == [query EXCEPT !.pick = k]
<1>2. q \in Query
  <2>1. k \in 0..MaxMoves
    BY PageAssumption
  <2> QED BY <2>1, QueryFacts
<1> HIDE DEF q
<1>3. Steer(EmailShow(q))
  BY <1>1 DEF q
<1> QED BY <1>2, <1>3, EmailShowStep

LEMMA EmailLogsSteps ==
    ASSUME PageTypes, EmailLogsNext
    PROVE  UserStep
<1> USE DEF UserStep
<1>0. page = "email_logs" /\ page \notin OncePages /\ page \notin Boxes
  BY DEF EmailLogsNext, OncePages, Boxes
<1>1. CASE EmailTab
  BY <1>0, <1>1, EmailTabStep
<1>2. CASE EmailLogsPanel
  <2>1. PICK p \in 1..2 : Steer(EmailShow([query EXCEPT !.page = p]))
    BY <1>2 DEF EmailLogsPanel
  <2> DEFINE q == [query EXCEPT !.page = p]
  <2>2. q \in Query
    BY QueryFacts
  <2> HIDE DEF q
  <2>3. Steer(EmailShow(q))
    BY <2>1 DEF q
  <2> QED BY <1>0, <2>2, <2>3, EmailShowStep
<1>3. CASE EmailSent(1)
  <2>1. PICK w \in writes : /\ w.kind = "send" /\ Acknowledge(w, {})
                            /\ EmailShow([query EXCEPT !.pick = 1]) /\ UNCHANGED <<page, failed, shown, picked>>
    BY <1>3 DEF EmailSent
  <2>2. Mails
    BY <1>0, <2>1 DEF Mails
  <2>3. picked' \in BOOLEAN
    BY <2>1 DEF PageTypes, TypeOK
  <2> QED BY <1>0, <2>1, <2>2, <2>3 DEF Answers
<1>4. CASE query.pick = 0 /\ EmailSend
  BY <1>0, <1>4, SendStep DEF EmailSend
<1> QED BY <1>1, <1>2, <1>3, <1>4 DEF EmailLogsNext

LEMMA EmailTemplatesSteps ==
    ASSUME PageTypes, EmailTemplatesNext
    PROVE  UserStep
<1> USE DEF UserStep
<1>0. page = "email_templates" /\ page \notin OncePages
      /\ page \notin FreeBoxes /\ page \notin Boxes /\ page \notin Record
      /\ page \notin {"tags", "deal_history", "email_logs", "notifications", "activities"}
  BY DEF EmailTemplatesNext, OncePages, FreeBoxes, Boxes, Record
<1>1. CASE EmailTab
  BY <1>0, <1>1, EmailTabStep
<1>2. CASE EmailTemplatesPanel
  <2>1. CASE OpenForm(FALSE) \/ OpenForm(TRUE) \/ CloseForm(TRUE) \/ SubmitForm(FALSE)
    BY <1>0, <2>1, OpenFormStep, CloseFormStep, SubmitStep
  <2>2. CASE Send("delete")
    BY <1>0, <2>2, SendStep
  <2> QED BY <1>2, <2>1, <2>2 DEF EmailTemplatesPanel
<1>3. CASE EmailTemplatesHandlers
  <2>1. CASE Settle({"create", "update"}, {"form", "target"})
    BY <1>0, <2>1, SettleStep
  <2>2. CASE Settle({"delete"}, {})
    BY <1>0, <2>2, SettleStep
  <2> QED BY <1>3, <2>1, <2>2 DEF EmailTemplatesHandlers
<1>4. CASE EmailSend
  BY <1>0, <1>4, SendStep DEF EmailSend
<1>5. CASE EmailSent(0)
  <2>1. PICK w \in writes : /\ w.kind = "send" /\ Acknowledge(w, {})
                            /\ EmailShow([query EXCEPT !.pick = 0]) /\ UNCHANGED <<page, failed, shown, picked>>
    BY <1>5 DEF EmailSent
  <2>2. Mails
    BY <1>0, <2>1 DEF Mails
  <2>3. picked' \in BOOLEAN
    BY <2>1 DEF PageTypes, TypeOK
  <2> QED BY <1>0, <2>1, <2>2, <2>3 DEF Answers
<1> QED BY <1>1, <1>2, <1>3, <1>4, <1>5 DEF EmailTemplatesNext

LEMMA DashboardSteps ==
    ASSUME PageTypes, DashboardNext
    PROVE  UserStep
<1> USE DEF UserStep
<1>0. page = "dashboard" /\ page \in OncePages
      /\ page \notin FreeBoxes /\ page \notin Boxes /\ page \notin Record
      /\ page \notin {"tags", "deal_history", "email_logs", "notifications", "activities"}
  BY DEF DashboardNext, OncePages, FreeBoxes, Boxes, Record
<1>1. CASE DashboardBody
  <2>1. CASE SubmitForm(TRUE) \/ CloseForm(FALSE) \/ OpenForm(FALSE)
    BY <1>0, <2>1, SubmitStep, CloseFormStep, OpenFormStep
  <2>2. CASE Retry
    BY <1>0, <2>2, RetryStep
  <2> QED BY <1>1, <2>1, <2>2 DEF DashboardBody
<1>2. CASE DashboardHandler
  BY <1>0, <1>2, SettleStep DEF DashboardHandler
<1>3. CASE Translate
  BY <1>0, <1>3, TranslateStep
<1> QED BY <1>1, <1>2, <1>3 DEF DashboardNext

LEMMA ReportsSteps ==
    ASSUME PageTypes, ReportsNext
    PROVE  UserStep
<1>1. page = "reports" /\ page \notin Boxes /\ page \notin Record
      /\ page \notin {"tags", "deal_history", "email_logs"}
  BY DEF ReportsNext, Boxes, Record
<1> QED BY <1>1, RetryStep, TranslateStep DEF ReportsNext, UserStep

LEMMA AdminSteps ==
    ASSUME PageTypes, AdminNext
    PROVE  UserStep
<1> USE DEF UserStep
<1>0. page \in {"pipelines", "profiles", "users", "webhooks", "branding"}
      /\ page \notin OncePages /\ page \notin FreeBoxes /\ page \notin Boxes /\ page \notin Record
      /\ page \notin {"tags", "deal_history", "email_logs", "notifications", "activities"}
  BY DEF AdminNext, OncePages, FreeBoxes, Boxes, Record
<1>1. CASE OpenForm(TRUE) \/ OpenForm(FALSE) \/ CloseForm(TRUE) \/ CloseForm(FALSE)
           \/ SubmitForm(FALSE) \/ CloseConfirm
  BY <1>0, <1>1, OpenFormStep, CloseFormStep, SubmitStep, ConfirmStep
<1>2. CASE \E kind \in {"delete", "stage", "toggle", "update"} : Send(kind)
  <2>1. PICK kind \in {"delete", "stage", "toggle", "update"} : Send(kind)
    BY <1>2
  <2> QED BY <1>0, <2>1, SendStep
<1>3. CASE \E kinds : \E closes \in {{}, {"form"}} : SettleInPlace(kinds, closes)
  <2>1. PICK kinds : \E closes \in {{}, {"form"}} : SettleInPlace(kinds, closes)
    BY <1>3
  <2>2. PICK closes \in {{}, {"form"}} : SettleInPlace(kinds, closes)
    BY <2>1
  <2> QED BY <1>0, <2>2, SettleStep
<1>4. CASE PipelinesRows \/ PipelinesHandlers
  <2>1. \/ OpenForm(TRUE) \/ OpenForm(FALSE) \/ CloseForm(TRUE) \/ SubmitForm(FALSE)
        \/ Send("delete") \/ Send("stage")
        \/ SettleInPlace({"create", "update"}, {"form"}) \/ SettleInPlace({"delete", "stage"}, {})
    BY <1>4, Zenon DEF PipelinesRows, PipelinesHandlers
  <2> QED BY <2>1, <1>1, <1>2, <1>3
<1>5. CASE ProfilesRows \/ ProfilesHandlers
  <2>1. \/ OpenForm(TRUE) \/ OpenForm(FALSE) \/ CloseForm(TRUE) \/ SubmitForm(FALSE)
        \/ SettleInPlace({"create", "update"}, {"form"})
    BY <1>5, Zenon DEF ProfilesRows, ProfilesHandlers
  <2> QED BY <2>1, <1>1, <1>3
<1>6. CASE UsersRows \/ UsersHandlers
  <2>1. \/ OpenForm(TRUE) \/ CloseForm(TRUE) \/ SubmitForm(FALSE) \/ Send("delete")
        \/ SettleInPlace({"update"}, {"form"}) \/ SettleInPlace({"delete"}, {})
    BY <1>6, Zenon DEF UsersRows, UsersHandlers
  <2> QED BY <2>1, <1>1, <1>2, <1>3
<1>7. CASE WebhooksRows \/ WebhooksHandlers
  <2>1. CASE \/ OpenForm(FALSE) \/ CloseForm(FALSE) \/ CloseConfirm \/ SubmitForm(FALSE)
             \/ Send("delete") \/ Send("toggle")
             \/ SettleInPlace({"create"}, {"form"}) \/ SettleInPlace({"delete", "toggle"}, {})
    BY <2>1, <1>1, <1>2, <1>3
  <2>2. CASE /\ RowsKept /\ Free /\ ~picked /\ Moving /\ picked' = TRUE
             /\ UNCHANGED <<page, query, typed, loading, failed, shown, form, target, confirm, net>>
    <3>1. confirm' \in BOOLEAN /\ picked' \in BOOLEAN
      BY <2>2 DEF PageTypes, TypeOK
    <3> QED BY <1>0, <2>2, <3>1, FlagStep
  <2>3. CASE /\ picked /\ picked' = FALSE /\ confirm' = TRUE
             /\ UNCHANGED <<page, query, typed, loading, failed, shown, form, target, net, moves>>
    <3>1. confirm' \in BOOLEAN /\ picked' \in BOOLEAN
      BY <2>3
    <3> QED BY <1>0, <2>3, <3>1, FlagStep
  <2> QED BY <1>7, <2>1, <2>2, <2>3, Zenon DEF WebhooksRows, WebhooksHandlers
<1>8. CASE BrandingHandlers
  BY <1>2, <1>3, <1>8, Zenon DEF BrandingHandlers
<1> QED BY <1>4, <1>5, <1>6, <1>7, <1>8 DEF AdminNext

-----------------------------------------------------------------------------
(* The pages of one record.                                                *)
LEMMA ReloadStep ==
    ASSUME PageTypes, RecordReload, page \in {"contact", "company", "deal"}
    PROVE  Controls
<1>1. Moved
  BY PageAssumption DEF PageTypes, TypeOK, RecordReload, Moving, Moved
<1>2. /\ loading' = TRUE /\ loads' = loads \cup {Load(query, "loose")}
      /\ overtaken' = ((loads \cup writes) # {} /\ (overtaken \/ loads # {}))
      /\ UNCHANGED <<page, query, typed, failed, shown, form, target, confirm, picked,
                     writes, committed, acked, opened, created, lost>>
  BY DEF RecordReload
<1>3. Polls
  BY <1>2 DEF Polls
<1>4. typed' \in Term /\ {confirm', picked', target'} \subseteq BOOLEAN
  BY <1>2 DEF PageTypes, TypeOK
<1> QED BY <1>1, <1>2, <1>3, <1>4 DEF Controls, SameServer

LEMMA RecordSteps ==
    ASSUME PageTypes, ContactNext \/ CompanyNext \/ DealNext
    PROVE  UserStep
<1> USE DEF UserStep
<1>0. page \in {"contact", "company", "deal"} /\ page \notin OncePages
      /\ page \notin FreeBoxes /\ page \notin Boxes
      /\ page \notin {"tags", "deal_history", "email_logs", "notifications", "activities"}
      /\ (RecordButtons \/ RecordHandlers \/ RecordReload)
  BY DEF ContactNext, CompanyNext, DealNext, OncePages, FreeBoxes, Boxes
<1>1. CASE RecordButtons
  BY <1>0, <1>1, OpenFormStep, ConfirmStep DEF RecordButtons
<1>2. CASE RecordHandlers
  <2>1. CASE SubmitForm(TRUE) \/ CloseForm(TRUE) \/ CloseConfirm
    BY <1>0, <2>1, SubmitStep, CloseFormStep, ConfirmStep
  <2>2. CASE Send("delete")
    BY <1>0, <2>2, SendStep
  <2>3. CASE SettleInPlace({"update"}, {"form"})
    BY <1>0, <2>3, SettleStep
  <2> QED BY <1>2, <2>1, <2>2, <2>3 DEF RecordHandlers
<1>3. CASE RecordReload
  BY <1>0, <1>3, ReloadStep
<1> QED BY <1>0, <1>1, <1>2, <1>3

LEMMA LeadSteps ==
    ASSUME PageTypes, LeadNext
    PROVE  UserStep
<1> USE DEF UserStep
<1>0. page = "lead" /\ page \notin OncePages /\ page \notin FreeBoxes /\ page \notin Boxes
      /\ page \notin {"tags", "deal_history", "email_logs", "notifications", "activities"}
  BY DEF LeadNext, OncePages, FreeBoxes, Boxes
<1>1. CASE LeadButtons
  BY <1>0, <1>1, OpenFormStep, ConfirmStep DEF LeadButtons
<1>2. CASE LeadStatusButtons
  BY <1>0, <1>2, SendStep DEF LeadStatusButtons, RowsKept
<1>3. CASE LeadHandlers
  <2>1. CASE SubmitForm(TRUE) \/ CloseForm(TRUE) \/ CloseConfirm
    BY <1>0, <2>1, SubmitStep, CloseFormStep, ConfirmStep
  <2>2. CASE Send("delete") \/ Send("convert")
    BY <1>0, <2>2, SendStep
  <2> QED BY <1>3, <2>1, <2>2 DEF LeadHandlers
<1>4. CASE LeadSettled
  <2>1. PICK w \in writes :
           /\ Acknowledge(w, IF w.kind = "update" THEN {"form"} ELSE {"confirm"})
           /\ loads' = loads \cup {Load(w.q, "loose")} /\ overtaken' = (overtaken \/ loads # {})
           /\ UNCHANGED <<page, query, loading, failed, shown, picked>>
    BY <1>4 DEF LeadSettled
  <2>2. Fetches(w)
    BY <1>0, <2>1 DEF Fetches
  <2>3. picked' \in BOOLEAN /\ UNCHANGED <<page, picked>>
    BY <2>1 DEF PageTypes, TypeOK
  <2>4. "target" \notin (IF w.kind = "update" THEN {"form"} ELSE {"confirm"})
    OBVIOUS
  <2> QED BY <1>0, <2>1, <2>2, <2>3, <2>4 DEF Answers
<1>5. CASE LeadStatusSet
  <2>1. PICK w \in writes :
           /\ w.kind = "status" /\ Acknowledge(w, {})
           /\ shown' = [q |-> w.q, has |-> w.sees.has \cup {w.no}, by |-> "local"]
           /\ overtaken' = (overtaken \/ loads # {} \/ w.sees # shown)
           /\ UNCHANGED <<page, query, loading, failed, picked, loads>>
    BY <1>5 DEF LeadStatusSet
  <2>2. Patches(w)
    BY <1>0, <2>1 DEF Patches
  <2>3. picked' \in BOOLEAN /\ UNCHANGED <<page, picked>>
    BY <2>1 DEF PageTypes, TypeOK
  <2> QED BY <1>0, <2>1, <2>2, <2>3 DEF Answers
<1> QED BY <1>1, <1>2, <1>3, <1>4, <1>5 DEF LeadNext

LEMMA LeadActivitiesSteps ==
    ASSUME PageTypes, LeadActivitiesNext
    PROVE  UserStep
<1> USE DEF UserStep
<1>0. page = "lead_activities" /\ page \in OncePages /\ page \notin FreeBoxes /\ page \notin Boxes
      /\ page \notin {"tags", "deal_history", "email_logs", "notifications", "activities"}
  BY DEF LeadActivitiesNext, OncePages, FreeBoxes, Boxes
<1>1. CASE LeadActivitiesPanel
  <2>1. CASE OpenForm(FALSE) \/ CloseForm(FALSE) \/ SubmitForm(TRUE)
    BY <1>0, <2>1, SubmitStep, CloseFormStep, OpenFormStep
  <2>2. CASE Send("complete") \/ Send("delete_activity")
    BY <1>0, <2>2, SendStep DEF Saving
  <2> QED BY <1>1, <2>1, <2>2 DEF LeadActivitiesPanel
<1>2. CASE LeadActivitiesHandlers
  <2>1. CASE SettleInPlace({"create"}, {"form"})
    BY <1>0, <2>1, SettleStep
  <2>2. CASE SettleInPlace({"complete", "delete_activity"}, {})
    BY <1>0, <2>2, SettleStep DEF Saving
  <2> QED BY <1>2, <2>1, <2>2 DEF LeadActivitiesHandlers
<1> QED BY <1>1, <1>2 DEF LeadActivitiesNext

-----------------------------------------------------------------------------
(* Panels and boxes.                                                       *)
LEMMA WhatsAppSteps ==
    ASSUME PageTypes, WhatsAppNext
    PROVE  UserStep
<1> USE DEF UserStep
<1>0. page = "whatsapp" /\ page \notin OncePages /\ page \notin FreeBoxes /\ page \notin Boxes
      /\ page \notin Record
      /\ page \notin {"tags", "deal_history", "email_logs", "notifications", "activities"}
  BY DEF WhatsAppNext, OncePages, FreeBoxes, Boxes, Record
<1>1. CASE WhatsAppRows
  <2>1. CASE Send("send")
    BY <1>0, <2>1, SendStep
  <2>2. CASE /\ Free /\ Moving /\ Refetch(query) /\ loading' = TRUE
             /\ UNCHANGED <<page, query, typed, shown, form, target, confirm, picked,
                            writes, committed, acked, opened, created, lost>>
    <3>1. Moved
      BY <2>2, PageAssumption DEF PageTypes, TypeOK, Moving, Moved
    <3>2. Refetches
      BY <1>0, <2>2 DEF Refetches
    <3>3. {confirm', picked', target'} \subseteq BOOLEAN /\ typed' \in Term
      BY <2>2 DEF PageTypes, TypeOK
    <3> QED BY <2>2, <3>1, <3>2, <3>3 DEF Controls, SameServer
  <2> QED BY <1>1, <2>1, <2>2 DEF WhatsAppRows
<1>2. CASE WhatsAppSend
  BY <1>0, <1>2, SettleStep DEF WhatsAppSend
<1>3. CASE WhatsAppExtract
  <2>1. CASE /\ Free /\ ~picked /\ Moving /\ picked' = TRUE
             /\ UNCHANGED <<page, query, typed, loading, failed, shown, form, target, confirm, net>>
    <3>1. confirm' \in BOOLEAN /\ picked' \in BOOLEAN
      BY <2>1 DEF PageTypes, TypeOK
    <3> QED BY <1>0, <2>1, <3>1, FlagStep
  <2>2. CASE /\ picked /\ picked' = FALSE /\ form' = "new" /\ target' = FALSE /\ opened' = moves
             /\ UNCHANGED <<page, query, typed, loading, failed, shown, confirm, loads, writes,
                            committed, acked, created, lost, overtaken, moves>>
    <3>1. Moved
      BY <2>2 DEF PageTypes, TypeOK, Moved
    <3>2. Idles /\ SameServer
      BY <1>0, <2>2 DEF Idles, SameServer
    <3>3. target' = (form' = "edit") /\ picked' \in BOOLEAN
      BY <2>2
    <3> QED BY <1>0, <2>2, <3>1, <3>2, <3>3 DEF Dialogs
  <2>3. CASE SubmitForm(FALSE) \/ CloseForm(FALSE)
    BY <1>0, <2>3, SubmitStep, CloseFormStep
  <2>4. CASE \E w \in writes : w.kind = "create" /\ Finish(w, {"form"}) /\ UNCHANGED <<target, picked>>
    BY <1>0, <2>4 DEF Finish, Finishes
  <2> QED BY <1>3, <2>1, <2>2, <2>3, <2>4, Zenon DEF WhatsAppExtract
<1> QED BY <1>1, <1>2, <1>3 DEF WhatsAppNext

LEMMA SelectFacts ==
    ASSUME PageTypes, NEW k \in 0..MaxMoves
    PROVE  Select(k) \in Query /\ Select(k).pick = k
BY QueryFacts DEF Select

LEMMA MessagesSteps ==
    ASSUME PageTypes, MessagesNext
    PROVE  UserStep
<1> USE DEF UserStep
<1>0. page = "messages" /\ page \notin OncePages /\ page \notin FreeBoxes /\ page \notin Boxes
      /\ page \notin Record /\ page \notin TwoWay
      /\ page \notin {"tags", "deal_history", "email_logs", "notifications", "activities"}
  BY DEF MessagesNext, OncePages, FreeBoxes, Boxes, Record, TwoWay
<1>1. CASE MessagesSelect
  <2>1. PICK k \in 0..2 :
           /\ Moving /\ k # query.pick /\ query' = Select(k) /\ Rerun(Select(k), k # 0)
           /\ loading' = loading
           /\ UNCHANGED <<page, typed, failed, shown, form, target, confirm, picked,
                          writes, committed, acked, opened, created, lost>>
    BY <1>1 DEF MessagesSelect, Steer
  <2>2. k \in 0..MaxMoves
    BY <2>1, PageAssumption DEF PageTypes, TypeOK, Moving
  <2>3. Select(k) \in Query /\ Select(k).pick = k
    BY <2>2, SelectFacts
  <2>4. typed' \in Term
    BY <2>1 DEF PageTypes, TypeOK
  <2>5. CASE k = 0
    <3>1. Rerun(query', FALSE)
      BY <2>1, <2>5 DEF Rerun
    <3>2. ~Looking'
      BY <1>0, <2>1, <2>3, <2>5 DEF Looking
    <3> QED BY <1>0, <2>1, <2>3, <2>4, <3>1, <3>2, SteerStep DEF Reruns
  <2>6. CASE k # 0
    <3>1. Rerun(query', TRUE)
      BY <2>1, <2>6 DEF Rerun
    <3> QED BY <1>0, <2>1, <2>3, <2>4, <3>1, SteerStep DEF Reruns
  <2> QED BY <2>5, <2>6
<1>2. CASE MessagesSend
  <2>1. CASE Send("send")
    BY <1>0, <2>1, SendStep
  <2>2. CASE SettleInPlace({"send"}, {})
    BY <1>0, <2>2, SettleStep
  <2> QED BY <1>2, <2>1, <2>2 DEF MessagesSend
<1> QED BY <1>1, <1>2 DEF MessagesNext

LEMMA SettingsSteps ==
    ASSUME PageTypes, SettingsNext
    PROVE  UserStep
<1> USE DEF UserStep
<1>0. page = "settings" /\ page \notin OncePages /\ page \notin FreeBoxes /\ page \notin Boxes
      /\ page \notin Record /\ page \notin TwoWay
      /\ page \notin {"tags", "deal_history", "email_logs", "notifications", "activities"}
  BY DEF SettingsNext, OncePages, FreeBoxes, Boxes, Record, TwoWay
<1>1. CASE SettingsTab
  <2>1. PICK k \in {0, 1} :
           /\ Moving /\ query' = Select(k) /\ loading' = (loading \/ k = 1)
           /\ IF k = query.pick THEN UNCHANGED <<loads, overtaken>>
              ELSE Rerun(Select(k), k = 1)
           /\ UNCHANGED <<page, typed, failed, shown, form, target, confirm, picked,
                          writes, committed, acked, opened, created, lost>>
    BY <1>1 DEF SettingsTab, Control, Steer
  <2>2. Select(k) \in Query /\ Select(k).pick = k
    <3>1. k \in 0..MaxMoves
      BY PageAssumption
    <3> QED BY <3>1, SelectFacts
  <2>3. typed' \in Term
    BY <2>1 DEF PageTypes, TypeOK
  <2>4. loading' \in {loading, TRUE}
    BY <2>1 DEF PageTypes, TypeOK
  <2>5. CASE k = query.pick
    <3>1. Select(k) = query
      BY <2>5, QueryFacts DEF Select, Query
    <3> QED BY <2>1, <2>3, <2>4, <2>5, <3>1, SteerStep DEF Idles
  <2>6. CASE k # query.pick /\ k = 0
    <3>1. Rerun(query', FALSE)
      BY <2>1, <2>6 DEF Rerun
    <3>2. ~Looking'
      BY <1>0, <2>1, <2>2, <2>6 DEF Looking
    <3> QED BY <1>0, <2>1, <2>2, <2>3, <2>4, <3>1, <3>2, SteerStep DEF Reruns
  <2>7. CASE k # query.pick /\ k = 1
    <3>1. Rerun(query', TRUE)
      BY <2>1, <2>7 DEF Rerun
    <3> QED BY <1>0, <2>1, <2>2, <2>3, <2>4, <3>1, SteerStep DEF Reruns
  <2> QED BY <2>5, <2>6, <2>7
<1>2. CASE SettingsDisconnect
  <2>1. CASE Send("disconnect")
    BY <1>0, <2>1, SendStep
  <2>2. CASE Settle({"disconnect"}, {})
    BY <1>0, <2>2, SettleStep
  <2> QED BY <1>2, <2>1, <2>2 DEF SettingsDisconnect
<1> QED BY <1>1, <1>2 DEF SettingsNext

LEMMA HistorySteps ==
    ASSUME PageTypes, HistoryNext
    PROVE  UserStep
<1>1. page = "deal_history"
  BY DEF HistoryNext
<1>2. CASE HistoryOpen
  <2>1. PICK k \in 1..2 :
           /\ ~confirm /\ Moving /\ confirm' = TRUE
           /\ query' = Select(k) /\ shown' = None /\ loading' = TRUE
           /\ loads' = loads \cup {Load(Select(k), "refetch")} /\ overtaken' = (loads # {})
           /\ UNCHANGED <<page, typed, failed, form, target, picked, writes, committed,
                          acked, opened, created, lost>>
    BY <1>2 DEF HistoryOpen
  <2>2. k \in 0..MaxMoves /\ Moved
    BY <2>1, PageAssumption DEF PageTypes, TypeOK, Moving, Moved
  <2>3. Looks
    BY <1>1, <2>1, <2>2, SelectFacts DEF Looks
  <2>4. typed' \in Term /\ {picked', target'} \subseteq BOOLEAN
    BY <2>1 DEF PageTypes, TypeOK
  <2>5. confirm' \in BOOLEAN
    BY <2>1
  <2> QED BY <2>1, <2>2, <2>3, <2>4, <2>5 DEF Controls, SameServer, UserStep
<1> QED BY <1>2, ConfirmStep DEF HistoryNext, DealDetailModal, UserStep

LEMMA NoticesSteps ==
    ASSUME PageTypes, NoticesNext
    PROVE  UserStep
<1> USE DEF UserStep
<1>0. page = "notifications" /\ page \notin OncePages /\ page \notin Boxes
  BY DEF NoticesNext, OncePages, Boxes
<1>1. CASE NoticesPoll
  <2>1. Moved
    BY <1>1, PageAssumption DEF PageTypes, TypeOK, NoticesPoll, Moving, Moved
  <2>2. /\ loads' = loads \cup {Load(query, "refetch")}
        /\ overtaken' = (loads \cup writes # {} /\ (overtaken \/ loads # {}))
        /\ UNCHANGED <<page, query, typed, loading, failed, shown, form, target, confirm, picked,
                       writes, committed, acked, opened, created, lost>>
    BY <1>1 DEF NoticesPoll, ui
  <2>3. Polls
    BY <1>0, <2>2 DEF Polls
  <2>4. typed' \in Term /\ {confirm', picked', target'} \subseteq BOOLEAN
    BY <2>2 DEF PageTypes, TypeOK
  <2> QED BY <2>1, <2>2, <2>3, <2>4 DEF Controls, SameServer
<1>2. CASE NoticesRows
  <2>1. CASE Send("read")
    BY <1>0, <1>2, <2>1, SendStep DEF NoticesRows
  <2>2. CASE Send("delete")
    BY <1>0, <1>2, <2>2, SendStep DEF NoticesRows
  <2> QED BY <1>2, <2>1, <2>2 DEF NoticesRows
<1>3. CASE NoticesDone
  <2>1. PICK w \in writes :
           /\ Acknowledge(w, {})
           /\ shown' = [shown EXCEPT !.has = @ \cup {w.no}]
           /\ overtaken' = (overtaken \/ loads # {})
           /\ UNCHANGED <<page, query, loading, failed, picked, loads>>
    BY <1>3 DEF NoticesDone
  <2>2. Patches(w)
    BY <1>0, <2>1 DEF Patches
  <2>3. picked' \in BOOLEAN /\ UNCHANGED <<page, picked>>
    BY <2>1 DEF PageTypes, TypeOK
  <2> QED BY <1>0, <2>1, <2>2, <2>3 DEF Answers
<1> QED BY <1>1, <1>2, <1>3 DEF NoticesNext

LEMMA TagsSteps ==
    ASSUME PageTypes, TagsNext
    PROVE  UserStep
<1> USE DEF UserStep
<1>0. page = "tags" /\ page \notin OncePages /\ page \notin Boxes
  BY DEF TagsNext, OncePages, Boxes
<1>1. CASE TagsBox
  <2>1. CASE Send("status")
    BY <1>0, <1>1, <2>1, SendStep DEF TagsBox, RowsShown, RowsKept
  <2>2. CASE Send("tag")
    BY <1>0, <1>1, <2>2, SendStep DEF TagsBox, RowsShown, RowsKept
  <2> QED BY <1>1, <2>1, <2>2 DEF TagsBox
<1>2. CASE TagsDone
  <2>1. PICK w \in writes :
           /\ w.kind \in {"status", "tag"} /\ Acknowledge(w, {})
           /\ shown' = [shown EXCEPT !.has = w.sees.has \cup {w.no}]
           /\ overtaken' = (overtaken \/ w.sees # shown)
           /\ UNCHANGED <<page, query, loading, failed, picked, loads>>
    BY <1>2 DEF TagsDone
  <2>2. Patches(w)
    BY <1>0, <2>1 DEF Patches
  <2>3. picked' \in BOOLEAN /\ UNCHANGED <<page, picked>>
    BY <2>1 DEF PageTypes, TypeOK
  <2> QED BY <1>0, <2>1, <2>2, <2>3 DEF Answers
<1> QED BY <1>1, <1>2 DEF TagsNext

LEMMA SearchSteps ==
    ASSUME PageTypes, SearchNext
    PROVE  UserStep
<1> USE DEF UserStep
<1>0. page = "global_search" /\ page \in Boxes /\ page \notin FreeBoxes
      /\ page \notin Record /\ page \notin TwoWay
      /\ page \notin {"tags", "deal_history", "email_logs", "notifications"}
  BY DEF SearchNext, Boxes, FreeBoxes, Record, TwoWay
<1>1. CASE SearchType
  <2>1. PICK k \in {0, moves} :
           /\ k # query.pick /\ Moving /\ query' = Select(k) /\ picked' = TRUE
           /\ Rerun(Select(k), FALSE)
           /\ UNCHANGED <<page, typed, loading, failed, shown, form, target, confirm,
                          writes, committed, acked, opened, created, lost>>
    BY <1>1 DEF SearchType
  <2>2. k \in 0..MaxMoves /\ Moved
    BY <2>1, PageAssumption DEF PageTypes, TypeOK, Moving, Moved
  <2>3. Select(k) \in Query
    BY <2>2, SelectFacts
  <2>4. ~Looking'
    BY <1>0, <2>1 DEF Looking
  <2>5. Rerun(query', FALSE)
    BY <2>1 DEF Rerun
  <2>6. Reruns
    BY <1>0, <2>1, <2>3, <2>4, <2>5 DEF Reruns
  <2>7. typed' \in Term /\ {confirm', target'} \subseteq BOOLEAN
    BY <2>1 DEF PageTypes, TypeOK
  <2>8. picked' \in BOOLEAN
    BY <2>1
  <2> QED BY <2>1, <2>2, <2>6, <2>7, <2>8 DEF Controls, SameServer
<1>2. CASE SearchFire
  <2>1. /\ picked' = FALSE
        /\ UNCHANGED <<page, query, typed, failed, form, target, confirm,
                       writes, committed, acked, opened, created, lost, moves>>
    BY <1>2 DEF SearchFire
  <2>2. typed' \in Term /\ {confirm', target'} \subseteq BOOLEAN /\ Moved
    BY <2>1 DEF PageTypes, TypeOK, Moved
  <2>3. picked' \in BOOLEAN
    BY <2>1
  <2>4. CASE query.pick = 0
    <3>1. Empties
      BY <1>0, <1>2, <2>4 DEF SearchFire, Empties
    <3> QED BY <2>1, <2>2, <2>3, <3>1 DEF Controls, SameServer
  <2>5. CASE query.pick # 0
    <3>1. Rerun(query', TRUE) /\ loading' = TRUE /\ UNCHANGED <<shown, failed, query>>
      BY <1>2, <2>5 DEF SearchFire, Rerun
    <3>2. Reruns
      BY <1>0, <3>1, QueryFacts DEF Reruns
    <3> QED BY <2>1, <2>2, <2>3, <3>2 DEF Controls, SameServer
  <2> QED BY <2>4, <2>5
<1> QED BY <1>1, <1>2 DEF SearchNext

LEMMA BoxSteps ==
    ASSUME PageTypes, BoxesNext
    PROVE  UserStep
<1> USE DEF UserStep
<1>0. page \in FreeBoxes /\ page \in Boxes /\ page \notin OncePages
      /\ page \notin {"tags", "email_logs", "notifications"}
  BY DEF BoxesNext, FreeBoxes, Boxes, OncePages
<1>1. CASE BoxType
  <2>1. PICK k \in {0, moves} :
           /\ k # query.pick /\ Moving /\ query' = Select(k) /\ picked' = TRUE /\ target' = FALSE
           /\ UNCHANGED <<page, typed, loading, failed, shown, form, confirm, net>>
    BY <1>1 DEF BoxType
  <2>2. k \in 0..MaxMoves /\ Moved
    BY <2>1, PageAssumption DEF PageTypes, TypeOK, Moving, Moved
  <2>3. Select(k) \in Query
    BY <2>2, SelectFacts
  <2>4. Writes /\ SameServer /\ UNCHANGED opened
    BY <1>0, <2>1, <2>3 DEF Writes, SameServer, net
  <2>5. typed' \in Term /\ confirm' \in BOOLEAN
    BY <2>1 DEF PageTypes, TypeOK
  <2>6. picked' \in BOOLEAN /\ target' \in BOOLEAN
    BY <2>1
  <2> QED BY <1>0, <2>1, <2>2, <2>4, <2>5, <2>6 DEF Controls
<1>2. CASE BoxFire
  <2>1. /\ picked' = FALSE
        /\ UNCHANGED <<page, query, typed, loading, failed, form, target, confirm,
                       writes, committed, acked, opened, created, lost, moves>>
    BY <1>2 DEF BoxFire
  <2>2. typed' \in Term /\ {confirm', target'} \subseteq BOOLEAN /\ Moved
    BY <2>1 DEF PageTypes, TypeOK, Moved
  <2>3. picked' \in BOOLEAN
    BY <2>1
  <2>4. Empties \/ Fires
    BY <1>0, <1>2 DEF BoxFire, Empties, Fires
  <2> QED BY <2>1, <2>2, <2>3, <2>4 DEF Controls, SameServer
<1>3. CASE BoxChoose
  <2>1. /\ target' = TRUE
        /\ UNCHANGED <<page, query, typed, loading, failed, shown, form, confirm, picked, net, moves>>
    BY <1>3 DEF BoxChoose
  <2>2. typed' \in Term /\ {confirm', picked'} \subseteq BOOLEAN /\ Moved
    BY <2>1 DEF PageTypes, TypeOK, Moved
  <2>3. target' \in BOOLEAN
    BY <2>1
  <2>4. Idles /\ SameServer /\ UNCHANGED opened
    BY <2>1 DEF Idles, SameServer, net
  <2> QED BY <1>0, <2>1, <2>2, <2>3, <2>4 DEF Controls
<1>4. CASE BoxCreated
  BY <1>0, <1>4 DEF BoxCreated, Finish, Finishes
<1>5. CASE Send("create")
  BY <1>0, <1>5, SendStep
<1> QED BY <1>1, <1>2, <1>3, <1>4, <1>5
        DEF BoxesNext, CompanySelect, DealContactBox, DealCompanyBox, QuickCreate

(* Every action of a user is a step of one of these kinds.                 *)
LEMMA UserSteps ==
    ASSUME PageTypes, User
    PROVE  UserStep
<1>1. CASE page \in Record /\ Leave
  BY <1>1 DEF UserStep
<1>2. CASE PanelsNext
  BY <1>2, WhatsAppSteps, MessagesSteps, SettingsSteps, HistorySteps, NoticesSteps, TagsSteps,
     SearchSteps, BoxSteps DEF PanelsNext
<1> QED BY <1>1, <1>2, ContactsSteps, CompaniesSteps, LeadsSteps, DealsSteps, DocumentsSteps,
           AuditSteps, ActivitiesSteps, CalendarSteps, EmailLogsSteps, EmailTemplatesSteps,
           DashboardSteps, ReportsSteps, AdminSteps, RecordSteps, LeadSteps, LeadActivitiesSteps
        DEF User

-----------------------------------------------------------------------------
(* Types.                                                                  *)
(* The part of the types that a control or an answer can change.           *)
ListTypes ==
    /\ query \in Query /\ (page \in TwoWay => query.pick \in {0, 1})
    /\ {loading, failed, overtaken} \subseteq BOOLEAN
    /\ loads \subseteq Loads /\ shown \in {None} \cup Listing

RestTypes ==
    /\ page \in Page \cup {"elsewhere", "dragged"}
    /\ typed \in Term /\ moves \in 0..MaxMoves /\ moves # 0 /\ lost \in 0..MaxLost
    /\ {target, confirm, picked} \subseteq BOOLEAN
    /\ form \in {"closed", "new", "edit"} /\ opened \in 0..MaxMoves
    /\ acked \subseteq committed /\ committed \subseteq 0..MaxMoves
    /\ \A w \in writes : IsWrite(w) /\ (w.done = "ok" => w.no \in committed)

LEMMA TypeParts == PageTypes => ListTypes /\ RestTypes
BY DEF PageTypes, TypeOK, ListTypes, RestTypes

LEMMA TypesNext ==
    ASSUME ListTypes', RestTypes'
    PROVE  PageTypes'
BY DEF PageTypes, TypeOK, ListTypes, RestTypes

LEMMA LoadType ==
    ASSUME PageTypes, NEW q \in Query, NEW by \in {"effect", "refetch", "loose"}
    PROVE  Load(q, by) \in Loads /\ Load(q, by).q = q /\ Load(q, by).by = by /\ Load(q, by).has = None
BY DEF PageTypes, TypeOK, Load, Loads

LEMMA RerunType ==
    ASSUME PageTypes, NEW q \in Query, NEW wanted, Rerun(q, wanted)
    PROVE  loads' \subseteq Loads /\ overtaken' \in BOOLEAN
<1>1. Load(q, "effect") \in Loads
  BY LoadType
<1>2. Kept \subseteq Loads
  BY DEF Kept, PageTypes
<1>3. loads' \subseteq Loads
  BY <1>1, <1>2 DEF Rerun
<1>4. overtaken' \in BOOLEAN
  BY DEF Rerun
<1> QED BY <1>3, <1>4

LEMMA RefetchType ==
    ASSUME PageTypes, NEW q \in Query, Refetch(q)
    PROVE  loads' \subseteq Loads /\ overtaken' \in BOOLEAN /\ failed' \in BOOLEAN
<1>1. Load(q, "refetch") \in Loads
  BY LoadType
<1>2. loads' \subseteq Loads
  BY <1>1 DEF Refetch, PageTypes
<1>3. overtaken' \in BOOLEAN
  BY DEF Refetch
<1>4. failed' \in BOOLEAN
  BY DEF Refetch
<1> QED BY <1>2, <1>3, <1>4

LEMMA LoadingType ==
    ASSUME PageTypes, loading' \in {loading, TRUE}
    PROVE  loading' \in BOOLEAN
BY DEF PageTypes, TypeOK

LEMMA MovedType ==
    ASSUME PageTypes, Moved
    PROVE  moves' \in 0..MaxMoves /\ moves' # 0
BY PageAssumption DEF PageTypes, TypeOK, Moved

LEMMA ControlsTypes ==
    ASSUME PageTypes, Controls
    PROVE  PageTypes'
<1>1. ListTypes'
  <2> USE DEF ListTypes
  <2>0. ListTypes /\ page' = page
    BY DEF PageTypes, TypeOK, Controls
  <2>1. CASE Idles
    BY <2>0, <2>1, LoadingType DEF Idles
  <2>2. CASE Reruns
    <3>1. PICK wanted \in BOOLEAN : Rerun(query', wanted)
      BY <2>2 DEF Reruns
    <3>2. query' \in Query
      BY <2>2 DEF Reruns
    <3>3. loads' \subseteq Loads /\ overtaken' \in BOOLEAN
      BY <3>1, <3>2, RerunType
    <3> QED BY <2>0, <2>2, <3>3, LoadingType DEF Reruns
  <2>3. CASE Refetches
    BY <2>0, <2>3, LoadingType, RefetchType DEF Refetches
  <2>4. CASE Clears
    <3> DEFINE First == [query EXCEPT !.page = 1]
    <3>1. First \in Query /\ First.pick = query.pick
      BY QueryFacts
    <3> HIDE DEF First
    <3>2. /\ query' = First
          /\ loads' = (IF query = First THEN loads ELSE Kept \cup {Load(First, "effect")})
                      \cup {Load(query, "refetch")}
          /\ UNCHANGED shown
      BY <2>4 DEF Clears, First
    <3>3. loads' \subseteq Loads
      BY <2>0, <3>1, <3>2, LoadType DEF Kept
    <3>4. overtaken' \in BOOLEAN /\ failed' \in BOOLEAN /\ loading' \in BOOLEAN
      BY <2>4 DEF Clears
    <3> QED BY <2>0, <3>1, <3>2, <3>3, <3>4
  <2>5. CASE Polls
    <3>1. loads' \subseteq Loads
      BY <2>0, <2>5, LoadType DEF Polls
    <3>2. overtaken' \in BOOLEAN
      BY <2>5 DEF Polls
    <3> QED BY <2>0, <2>5, <3>1, <3>2, LoadingType DEF Polls
  <2>6. CASE Looks
    <3>1. loads' \subseteq Loads
      BY <2>0, <2>6, LoadType DEF Looks
    <3>2. overtaken' \in BOOLEAN /\ loading' \in BOOLEAN
      BY <2>6 DEF Looks
    <3> QED BY <2>0, <2>6, <3>1, <3>2 DEF Looks, TwoWay
  <2>7. CASE Writes
    BY <2>0, <2>7 DEF Writes, FreeBoxes, TwoWay
  <2>8. CASE Fires
    <3>1. loads' \subseteq Loads
      BY <2>0, <2>8, LoadType DEF Fires
    <3>2. overtaken' \in BOOLEAN
      BY <2>8 DEF Fires
    <3> QED BY <2>0, <2>8, <3>1, <3>2 DEF Fires
  <2>9. CASE Empties
    BY <2>0, <2>9 DEF Empties
  <2> QED BY <2>1, <2>2, <2>3, <2>4, <2>5, <2>6, <2>7, <2>8, <2>9 DEF Controls
<1>2. /\ UNCHANGED <<page, form, opened, writes, committed, acked, created, lost>>
      /\ typed' \in Term /\ {confirm', picked', target'} \subseteq BOOLEAN
      /\ moves' \in 0..MaxMoves /\ moves' # 0
  BY MovedType DEF Controls, SameServer
<1>3. RestTypes
  BY TypeParts
<1>4. RestTypes'
  BY <1>2, <1>3 DEF RestTypes, IsWrite
<1> QED BY <1>1, <1>4, TypesNext

LEMMA ListKept ==
    ASSUME PageTypes, UNCHANGED <<page, query, loading, failed, loads, shown, overtaken>>
    PROVE  ListTypes'
BY TypeParts DEF ListTypes

LEMMA DialogsTypes ==
    ASSUME PageTypes, Dialogs
    PROVE  PageTypes'
<1>1. ListTypes /\ RestTypes
  BY TypeParts
<1>2. ListTypes'
  BY ListKept DEF Dialogs, Idles
<1>3. /\ UNCHANGED <<page, typed, confirm, writes, committed, acked, created, lost>>
      /\ picked' \in BOOLEAN /\ moves' \in 0..MaxMoves /\ moves' # 0
  BY MovedType DEF Dialogs, SameServer
<1>4. target' \in BOOLEAN
  <2>1. CASE target' \in {FALSE, target}
    BY <1>1, <2>1 DEF RestTypes
  <2>2. CASE target' = (form' = "edit")
    BY <2>2
  <2> QED BY <2>1, <2>2 DEF Dialogs
<1>5. form' \in {"closed", "new", "edit"} /\ opened' \in 0..MaxMoves
  BY <1>1 DEF Dialogs, RestTypes
<1>6. RestTypes'
  BY <1>1, <1>3, <1>4, <1>5 DEF RestTypes, IsWrite
<1> QED BY <1>2, <1>6, TypesNext

LEMMA SendsTypes ==
    ASSUME PageTypes, Sends
    PROVE  PageTypes'
<1>1. ListTypes /\ RestTypes
  BY TypeParts
<1>2. PICK w : writes' = writes \cup {w} /\ IsWrite(w) /\ w.done = "sent"
  BY DEF Sends
<1>3. UNCHANGED <<page, query, typed, loading, failed, shown, form, target, confirm, picked,
                  loads, committed, acked, opened, created, lost, overtaken>>
  BY DEF Sends, ui
<1>4. ListTypes'
  BY <1>3, ListKept
<1>5. moves' \in 0..MaxMoves /\ moves' # 0
  BY MovedType DEF Sends
<1>6. RestTypes'
  BY <1>1, <1>2, <1>3, <1>5 DEF RestTypes, IsWrite
<1> QED BY <1>4, <1>6, TypesNext

LEMMA FinishesTypes ==
    ASSUME PageTypes, Finishes
    PROVE  PageTypes'
<1>1. ListTypes /\ RestTypes
  BY TypeParts
<1>2. UNCHANGED <<page, query, typed, loading, failed, shown, confirm, picked, loads, committed,
                   acked, opened, created, lost, overtaken, moves>>
  BY DEF Finishes
<1>3. writes' \subseteq writes /\ form' \in {"closed", "new", "edit"}
  BY <1>1 DEF Finishes, RestTypes
<1>4. target' \in BOOLEAN
  BY <1>1 DEF Finishes, RestTypes
<1>5. RestTypes'
  BY <1>1, <1>2, <1>3, <1>4 DEF RestTypes, IsWrite
<1> QED BY <1>2, <1>5, ListKept, TypesNext

(* The router has left the page: loads and writes only end.                *)
LEMMA LeavingTypes ==
    ASSUME PageTypes, page' \in {"elsewhere", "dragged"}, loads' \subseteq loads, writes' \subseteq writes,
           acked' \subseteq committed, moves' \in 0..MaxMoves, moves' # 0,
           loading' \in BOOLEAN, failed' \in BOOLEAN,
           UNCHANGED <<query, typed, shown, form, target, confirm, picked,
                       committed, opened, created, lost, overtaken>>
    PROVE  PageTypes'
<1>1. ListTypes /\ RestTypes
  BY TypeParts
<1>2. ListTypes'
  BY <1>1 DEF ListTypes, TwoWay
<1>3. RestTypes'
  BY <1>1 DEF RestTypes, IsWrite
<1> QED BY <1>2, <1>3, TypesNext

LEMMA LeaveTypes ==
    ASSUME PageTypes, Leave
    PROVE  PageTypes'
<1>1. moves' \in 0..MaxMoves /\ moves' # 0
  BY PageAssumption DEF Leave, Moving, PageTypes, TypeOK
<1>2. UNCHANGED <<query, typed, loading, failed, shown, form, target, confirm, picked,
                  committed, acked, opened, created, lost, overtaken>>
  BY DEF Leave, ui
<1>3. loading' \in BOOLEAN /\ failed' \in BOOLEAN /\ acked' \subseteq committed
  BY <1>2 DEF PageTypes, TypeOK
<1> QED BY <1>1, <1>2, <1>3, LeavingTypes DEF Leave, Abandon

LEMMA RecordDeletedTypes ==
    ASSUME PageTypes, RecordDeleted
    PROVE  PageTypes'
<1>1. PICK w \in writes : w.done = "ok" /\ acked' = acked \cup {w.no}
                          /\ writes' = {v \in writes : v.kind = "delete"} \ {w}
  BY DEF RecordDeleted
<1>2. UNCHANGED <<query, typed, loading, failed, shown, form, target, confirm, picked,
                  committed, opened, created, lost, overtaken, moves>>
  BY DEF RecordDeleted, ui
<1>3. page' \in {"elsewhere", "dragged"} /\ loads' \subseteq loads /\ writes' \subseteq writes
  BY <1>1 DEF RecordDeleted, Push
<1>4. loading' \in BOOLEAN /\ failed' \in BOOLEAN /\ acked' \subseteq committed
      /\ moves' \in 0..MaxMoves /\ moves' # 0
  BY <1>1, <1>2 DEF PageTypes, TypeOK
<1> QED BY <1>2, <1>3, <1>4, LeavingTypes

LEMMA RecordFailTypes ==
    ASSUME PageTypes, RecordFail
    PROVE  PageTypes'
<1>1. PICK l \in loads :
        IF l.by = "refetch" THEN page' = page /\ loads' = loads \ {l} /\ UNCHANGED <<writes, loading>>
        ELSE /\ Push /\ loads' = {k \in loads : k.by = "loose"} \ {l}
             /\ writes' = {w \in writes : w.kind = "delete"} /\ loading' = FALSE
  BY DEF RecordFail
<1>2. /\ failed' = TRUE
      /\ UNCHANGED <<query, typed, shown, form, target, confirm, picked, moves,
                     committed, acked, opened, created, lost, overtaken>>
  BY DEF RecordFail
<1>3. failed' \in BOOLEAN
  BY <1>2
<1>4. CASE l.by = "refetch"
  <2>1. page' = page /\ loads' \subseteq loads /\ UNCHANGED <<writes, loading>>
    BY <1>1, <1>4
  <2>2. ListTypes /\ RestTypes
    BY TypeParts
  <2>3. ListTypes'
    BY <1>2, <1>3, <2>1, <2>2 DEF ListTypes
  <2>4. RestTypes'
    BY <1>2, <2>1, <2>2 DEF RestTypes, IsWrite
  <2> QED BY <2>3, <2>4, TypesNext
<1>5. CASE l.by # "refetch"
  <2>1. page' \in {"elsewhere", "dragged"} /\ loads' \subseteq loads /\ writes' \subseteq writes
    BY <1>1, <1>5 DEF Push
  <2>2. loading' \in BOOLEAN
    BY <1>1, <1>5
  <2>3. acked' \subseteq committed /\ moves' \in 0..MaxMoves /\ moves' # 0
    BY <1>2 DEF PageTypes, TypeOK
  <2> QED BY <1>2, <1>3, <2>1, <2>2, <2>3, LeavingTypes
<1> QED BY <1>4, <1>5

(* The list changes, or nothing of it; the rest stays.                     *)
LEMMA ListOnly ==
    ASSUME PageTypes, ListTypes',
           UNCHANGED <<page, typed, moves, lost, target, confirm, picked, form, opened,
                       acked, committed, writes>>
    PROVE  PageTypes'
<1>1. RestTypes
  BY TypeParts
<1>2. RestTypes'
  BY <1>1 DEF RestTypes, IsWrite
<1> QED BY <1>2, TypesNext

LEMMA ListingOf ==
    ASSUME PageTypes, NEW l \in loads, l.has # None
    PROVE  [q |-> l.q, has |-> l.has, by |-> l.by] \in Listing
BY DEF PageTypes, Loads, Listing

LEMMA ReceiveTypes ==
    ASSUME PageTypes, Receive \/ Fail \/ RecordReceive
    PROVE  PageTypes'
<1>1. ListTypes
  BY TypeParts
<1>2. CASE Receive
  <2>1. PICK l \in loads : /\ l.has # None /\ shown' = [q |-> l.q, has |-> l.has, by |-> l.by]
                           /\ loads' = loads \ {l}
    BY <1>2 DEF Receive
  <2>2. loading' \in BOOLEAN /\ failed' \in BOOLEAN
    BY <1>2 DEF Receive
  <2>3. UNCHANGED <<page, query, typed, moves, lost, target, confirm, picked, form, opened,
                       acked, committed, writes, overtaken>>
    BY <1>2 DEF Receive
  <2>4. ListTypes'
    BY <1>1, <2>1, <2>2, <2>3, ListingOf DEF ListTypes
  <2> QED BY <2>3, <2>4, ListOnly
<1>3. CASE Fail
  <2>1. loads' \subseteq loads
    BY <1>3 DEF Fail
  <2>2. loading' \in BOOLEAN /\ failed' \in BOOLEAN
    BY <1>3 DEF Fail
  <2>3. UNCHANGED <<page, query, typed, moves, lost, target, confirm, picked, form, opened,
                       acked, committed, writes, overtaken, shown>>
    BY <1>3 DEF Fail
  <2>4. ListTypes'
    BY <1>1, <2>1, <2>2, <2>3 DEF ListTypes
  <2> QED BY <2>3, <2>4, ListOnly
<1>4. CASE RecordReceive
  <2>1. PICK l \in loads :
          /\ l.has # None /\ loads' = loads \ {l}
          /\ IF page = "elsewhere" THEN UNCHANGED <<shown, loading, failed>>
             ELSE /\ shown' = [q |-> l.q, has |-> l.has, by |-> l.by]
                  /\ loading' = (loading /\ l.by = "refetch") /\ failed' = FALSE
    BY <1>4 DEF RecordReceive
  <2>2. UNCHANGED <<page, query, typed, moves, lost, target, confirm, picked, form, opened,
                       acked, committed, writes, overtaken>>
    BY <1>4 DEF RecordReceive
  <2>3. CASE page = "elsewhere"
    <3>1. ListTypes'
      BY <1>1, <2>1, <2>2, <2>3 DEF ListTypes
    <3> QED BY <2>2, <3>1, ListOnly
  <2>4. CASE page # "elsewhere"
    <3>1. loading' \in BOOLEAN /\ failed' \in BOOLEAN
      BY <2>1, <2>4
    <3>2. ListTypes'
      BY <1>1, <2>1, <2>2, <2>4, <3>1, ListingOf DEF ListTypes
    <3> QED BY <2>2, <3>2, ListOnly
  <2> QED BY <2>3, <2>4
<1> QED BY <1>2, <1>3, <1>4

LEMMA ServerTypes ==
    ASSUME PageTypes, Serve \/ Commit \/ Refuse
    PROVE  PageTypes'
<1>1. ListTypes /\ RestTypes
  BY TypeParts
<1>2. CASE Serve
  <2>1. PICK l \in loads : loads' = (loads \ {l}) \cup {[l EXCEPT !.has = committed]}
    BY <1>2 DEF Serve
  <2>2. [l EXCEPT !.has = committed] \in Loads
    BY <1>1 DEF ListTypes, RestTypes, Loads
  <2>3. UNCHANGED <<page, query, typed, moves, lost, target, confirm, picked, form, opened,
                       acked, committed, writes, overtaken, shown, loading, failed>>
    BY <1>2 DEF Serve, ui
  <2>4. ListTypes'
    BY <1>1, <2>1, <2>2, <2>3 DEF ListTypes
  <2> QED BY <2>3, <2>4, ListOnly
<1>3. CASE Commit
  <2>1. PICK w \in writes : /\ writes' = (writes \ {w}) \cup {[w EXCEPT !.done = "ok"]}
                            /\ committed' = committed \cup {w.no}
    BY <1>3 DEF Commit
  <2>2. UNCHANGED <<page, query, typed, loading, failed, shown, form, target, confirm, picked,
                    loads, acked, opened, lost, overtaken, moves>>
    BY <1>3 DEF Commit, ui
  <2>3. IsWrite([w EXCEPT !.done = "ok"]) /\ [w EXCEPT !.done = "ok"].no = w.no /\ w.no \in 0..MaxMoves
    BY <1>1 DEF RestTypes, IsWrite
  <2>4. \A v \in writes' : IsWrite(v) /\ (v.done = "ok" => v.no \in committed')
    BY <1>1, <2>1, <2>3 DEF RestTypes
  <2>5. RestTypes'
    BY <1>1, <2>1, <2>2, <2>3, <2>4 DEF RestTypes, IsWrite
  <2> QED BY <2>2, <2>5, ListKept, TypesNext
<1>4. CASE Refuse
  <2>1. PICK w \in writes : /\ w.done = "ok" => lost < MaxLost
                            /\ writes' = writes \ {w}
                            /\ lost' = IF w.done = "ok" THEN lost + 1 ELSE lost
    BY <1>4 DEF Refuse
  <2>2. UNCHANGED <<page, query, typed, loading, failed, shown, form, target, confirm, picked,
                    loads, committed, acked, opened, created, overtaken, moves>>
    BY <1>4 DEF Refuse, ui
  <2>3. lost' \in 0..MaxLost
    BY <1>1, <2>1, PageAssumption DEF RestTypes
  <2>4. RestTypes'
    BY <1>1, <2>1, <2>2, <2>3 DEF RestTypes, IsWrite
  <2> QED BY <2>2, <2>4, ListKept, TypesNext
<1> QED BY <1>2, <1>3, <1>4

LEMMA EmailShowType ==
    ASSUME PageTypes, NEW q \in Query, EmailShow(q), page \notin TwoWay
    PROVE  query' \in Query /\ loads' \subseteq Loads /\ {loading', overtaken'} \subseteq BOOLEAN
<1>1. query' = q /\ loading' \in BOOLEAN
  BY DEF EmailShow, PageTypes, TypeOK
<1>2. CASE q = query
  BY <1>1, <1>2 DEF EmailShow, PageTypes, TypeOK
<1>3. CASE q # query
  BY <1>1, <1>3, RerunType DEF EmailShow
<1> QED BY <1>1, <1>2, <1>3

LEMMA PatchesType ==
    ASSUME PageTypes, SeesPlace, NoticePlace, NEW w \in writes, Patches(w)
    PROVE  shown' \in Listing
<1>1. shown \in {None} \cup Listing /\ w.q \in Query /\ w.no \in 0..MaxMoves
      /\ w.sees \in {None} \cup Listing
  BY DEF PageTypes, IsWrite
<1>2. CASE page = "lead"
  <2>1. w.sees \in Listing
    BY <1>1, <1>2 DEF Patches, SeesPlace
  <2> QED BY <1>1, <1>2, <2>1 DEF Patches, Listing
<1>3. CASE page = "notifications"
  <2>1. shown \in Listing
    BY <1>1, <1>3 DEF NoticePlace
  <2> QED BY <1>1, <1>3, <2>1 DEF Patches, Listing
<1>4. CASE page = "tags"
  <2>1. shown \in Listing /\ w.sees \in Listing
    BY <1>1, <1>4 DEF Patches, SeesPlace, NoticePlace
  <2> QED BY <1>1, <1>4, <2>1 DEF Patches, Listing
<1> QED BY <1>2, <1>3, <1>4 DEF Patches

LEMMA AnswersTypes ==
    ASSUME PageTypes, SeesPlace, NoticePlace, Answers
    PROVE  PageTypes'
<1>1. ListTypes /\ RestTypes
  BY TypeParts
<1>2. PICK w \in writes : \E closes :
         Acknowledge(w, closes) /\ (Rereads(w) \/ Mails \/ Fetches(w) \/ Patches(w))
  BY DEF Answers
<1>3. PICK closes : Acknowledge(w, closes)
  BY <1>2
<1>4. w.q \in Query /\ w.no \in 0..MaxMoves /\ w.sees \in {None} \cup Listing /\ w.no \in committed
  BY <1>1, <1>3 DEF RestTypes, IsWrite, Acknowledge
<1>5. ListTypes'
  <2>1. page' = page
    BY DEF Answers
  <2>2. CASE Rereads(w)
    <3>1. loads' \subseteq Loads /\ overtaken' \in BOOLEAN /\ failed' \in BOOLEAN
      BY <1>4, <2>2, RefetchType DEF Rereads
    <3> QED BY <1>1, <2>1, <2>2, <3>1, LoadingType DEF ListTypes, Rereads
  <2>3. CASE Mails
    <3>1. PICK k \in {0, 1} : EmailShow([query EXCEPT !.pick = k])
      BY <2>3 DEF Mails
    <3>2. [query EXCEPT !.pick = k] \in Query /\ page \notin TwoWay
      <4>1. k \in 0..MaxMoves
        BY PageAssumption
      <4>2. [query EXCEPT !.pick = k] \in Query
        BY <4>1, QueryFacts
      <4> QED BY <2>3, <4>2 DEF Mails, TwoWay
    <3>3. query' \in Query /\ loads' \subseteq Loads /\ {loading', overtaken'} \subseteq BOOLEAN
      BY <3>1, <3>2, EmailShowType
    <3> QED BY <1>1, <2>1, <2>3, <3>2, <3>3 DEF ListTypes, Mails
  <2>4. CASE Fetches(w)
    <3>1. loads' \subseteq Loads
      BY <1>1, <1>4, <2>4, LoadType DEF Fetches, ListTypes
    <3>2. overtaken' \in BOOLEAN
      BY <2>4 DEF Fetches
    <3> QED BY <1>1, <2>1, <2>4, <3>1, <3>2 DEF ListTypes, Fetches
  <2>5. CASE Patches(w)
    <3>1. overtaken' \in BOOLEAN
      BY <2>5 DEF Patches
    <3>2. shown' \in Listing
      BY <1>4, <2>5, PatchesType
    <3> QED BY <1>1, <2>1, <2>5, <3>1, <3>2 DEF ListTypes, Patches
  <2> QED BY <1>2, <2>2, <2>3, <2>4, <2>5
<1>6. /\ writes' = writes \ {w} /\ acked' = acked \cup {w.no}
      /\ UNCHANGED <<page, typed, committed, opened, created, lost, moves>>
  BY <1>3 DEF Acknowledge, Answers
<1>7. form' \in {"closed", "new", "edit"}
  BY <1>1, <1>3 DEF Acknowledge, RestTypes
<1>8. target' \in BOOLEAN
  <2>1. target' = IF "target" \in closes THEN FALSE ELSE target
    BY <1>3 DEF Acknowledge
  <2> QED BY <1>1, <2>1 DEF RestTypes
<1>9. confirm' \in BOOLEAN
  BY <1>3 DEF Acknowledge
<1>10. picked' \in BOOLEAN
  BY DEF Answers
<1>11. RestTypes'
  BY <1>1, <1>4, <1>6, <1>7, <1>8, <1>9, <1>10 DEF RestTypes, IsWrite
<1> QED BY <1>5, <1>11, TypesNext

LEMMA UserTypes ==
    ASSUME PageTypes, SeesPlace, NoticePlace, UserStep
    PROVE  PageTypes'
BY ControlsTypes, DialogsTypes, SendsTypes, AnswersTypes, FinishesTypes, LeaveTypes DEF UserStep

LEMMA NextTypes ==
    ASSUME PageTypes, SeesPlace, NoticePlace, Next
    PROVE  PageTypes'
BY UserSteps, UserTypes, ServerTypes, ReceiveTypes, RecordFailTypes, RecordDeletedTypes
   DEF Next, Answer

-----------------------------------------------------------------------------
(* The page has its rows' handlers in place.                               *)
LEMMA ControlsPlaces ==
    ASSUME PageTypes, Places, Controls
    PROVE  Places'
<1>1. UNCHANGED <<page, form, writes>>
  BY DEF Controls, SameServer
<1>2. FormPlace' /\ SeesPlace'
  BY <1>1 DEF Places, FormPlace, SeesPlace
<1>3. ASSUME page \in Record
      PROVE  query' = query
  BY <1>3 DEF Controls, Idles, Reruns, Refetches, Clears, Polls, Looks, Writes, Fires, Empties,
              Record, FreeBoxes
<1>4. RecordPlace'
  BY <1>1, <1>3 DEF Places, RecordPlace
<1>5. NoticePlace'
  <2>1. ASSUME page \in {"notifications", "tags"}
        PROVE  shown' = shown
    BY <2>1 DEF Controls, Idles, Reruns, Refetches, Clears, Polls, Looks, Writes, Fires, Empties,
                FreeBoxes, Boxes
  <2> QED BY <1>1, <2>1 DEF Places, NoticePlace
<1>6. TagsPlace'
  <2>1. ASSUME page = "tags"
        PROVE  UNCHANGED <<shown, loads>>
    BY <2>1 DEF Controls, Idles, Reruns, Refetches, Clears, Polls, Looks, Writes, Fires, Empties,
                FreeBoxes, Boxes
  <2> QED BY <1>1, <2>1 DEF Places, TagsPlace
<1>7. EmailPlace'
  <2>1. ASSUME page = "email_logs"
        PROVE  UNCHANGED <<query, overtaken>> \/ \E wanted \in BOOLEAN : query' # query /\ Rerun(query', wanted)
    BY <2>1 DEF Controls, Idles, Reruns, Refetches, Clears, Polls, Looks, Writes, Fires, Empties,
                FreeBoxes, Boxes
  <2>2. ASSUME page = "email_logs", writes # {}
        PROVE  overtaken' \/ query'.pick # 1
    <3>1. CASE UNCHANGED <<query, overtaken>>
      BY <2>2, <3>1 DEF Places, EmailPlace
    <3>2. CASE \E wanted \in BOOLEAN : query' # query /\ Rerun(query', wanted)
      BY <2>2, <3>2 DEF Rerun
    <3> QED BY <2>1, <2>2, <3>1, <3>2
  <2> QED BY <1>1, <2>2 DEF EmailPlace
<1> QED BY <1>2, <1>4, <1>5, <1>6, <1>7 DEF Places

LEMMA DialogsPlaces ==
    ASSUME PageTypes, Places, Dialogs
    PROVE  Places'
<1>1. UNCHANGED <<page, writes, query, shown, loads, overtaken>>
  BY DEF Dialogs, Idles, SameServer
<1>2. page \in FreeBoxes => form' = "closed"
  BY DEF Dialogs
<1> QED BY <1>1, <1>2 DEF Places, FormPlace, RecordPlace, SeesPlace, NoticePlace, TagsPlace, EmailPlace

LEMMA SendsPlaces ==
    ASSUME PageTypes, Places, Sends
    PROVE  Places'
<1>1. UNCHANGED <<page, form, query, shown, loads, overtaken>>
  BY DEF Sends, ui
<1>2. PICK w : /\ writes' = writes \cup {w} /\ w.q = query
               /\ w.kind \in {"status", "tag"} => w.sees # None
               /\ page \in {"notifications", "tags"} => shown # None
               /\ page = "email_logs" => query.pick # 1
  BY DEF Sends
<1>3. FormPlace' /\ TagsPlace'
  BY <1>1 DEF Places, FormPlace, TagsPlace
<1>4. RecordPlace' /\ SeesPlace'
  BY <1>1, <1>2 DEF Places, RecordPlace, SeesPlace
<1>5. NoticePlace' /\ EmailPlace'
  BY <1>1, <1>2 DEF Places, NoticePlace, EmailPlace
<1> QED BY <1>3, <1>4, <1>5 DEF Places

(* On the e-mail page another tab makes the answer of a write cross.       *)
LEMMA MailsCross ==
    ASSUME PageTypes, Places, NEW w \in writes, Mails, page = "email_logs"
    PROVE  overtaken' \/ query'.pick # 1
<1>1. PICK k \in {0, 1} : EmailShow([query EXCEPT !.pick = k])
  BY DEF Mails
<1>2. CASE [query EXCEPT !.pick = k] = query
  <2>1. UNCHANGED <<query, overtaken>>
    BY <1>1, <1>2 DEF EmailShow
  <2> QED BY <2>1 DEF Places, EmailPlace
<1>3. CASE [query EXCEPT !.pick = k] # query
  <2>1. query' # query /\ Rerun(query', query'.pick = 1)
    BY <1>1, <1>3 DEF EmailShow
  <2> QED BY <2>1 DEF Rerun
<1> QED BY <1>2, <1>3

LEMMA AnswersPlaces ==
    ASSUME PageTypes, Places, Answers
    PROVE  Places'
<1>1. page' = page
  BY DEF Answers
<1>2. PICK w \in writes : \E closes :
         Acknowledge(w, closes) /\ (Rereads(w) \/ Mails \/ Fetches(w) \/ Patches(w))
  BY DEF Answers
<1>3. writes' = writes \ {w} /\ form' \in {"closed", form}
  BY <1>2 DEF Acknowledge
<1>4. FormPlace' /\ SeesPlace'
  BY <1>1, <1>3 DEF Places, FormPlace, SeesPlace
<1>5. RecordPlace'
  <2>1. page \in Record => query' = query
    BY <1>2 DEF Rereads, Mails, Fetches, Patches, Record
  <2> QED BY <1>1, <1>3, <2>1 DEF Places, RecordPlace
<1>6. NoticePlace'
  <2>1. ASSUME page \in {"notifications", "tags"}
        PROVE  shown' # None
    <3>1. shown \in Listing
      BY <2>1 DEF Places, NoticePlace, PageTypes
    <3>2. shown' = shown \/ Patches(w)
      BY <1>2, <2>1 DEF Rereads, Mails, Fetches
    <3>3. Patches(w) => shown' \in Listing
      BY PatchesType DEF Places
    <3> QED BY <3>1, <3>2, <3>3, PageAssumption
  <2> QED BY <1>1, <2>1 DEF NoticePlace
<1>7. TagsPlace'
  <2>1. ASSUME page = "tags"
        PROVE  loads' = loads /\ loads = {}
    BY <1>2, <2>1 DEF Rereads, Mails, Fetches, Patches, Places, TagsPlace, NoticePlace
  <2> QED BY <1>1, <2>1 DEF TagsPlace
<1>8. EmailPlace'
  <2>1. page = "email_logs" => Mails
    BY <1>2 DEF Rereads, Fetches, Patches
  <2> QED BY <1>1, <2>1, MailsCross DEF EmailPlace
<1> QED BY <1>4, <1>5, <1>6, <1>7, <1>8 DEF Places

LEMMA FinishesPlaces ==
    ASSUME PageTypes, Places, Finishes
    PROVE  Places'
<1>1. /\ UNCHANGED <<page, query, shown, loads, overtaken>>
      /\ writes' \subseteq writes /\ form' \in {"closed", form}
  BY DEF Finishes
<1> QED BY <1>1 DEF Places, FormPlace, RecordPlace, SeesPlace, NoticePlace, TagsPlace, EmailPlace

LEMMA ServerPlaces ==
    ASSUME PageTypes, Places, Serve \/ Commit \/ Refuse
    PROVE  Places'
<1>1. CASE Serve
  <2>1. PICK l \in loads : loads' = (loads \ {l}) \cup {[l EXCEPT !.has = committed]}
    BY <1>1 DEF Serve
  <2>2. UNCHANGED <<page, query, shown, writes, overtaken, form>>
    BY <1>1 DEF Serve, ui
  <2>3. TagsPlace'
    <3>1. CASE page = "tags"
      <4>1. loads = {l}
        BY <3>1 DEF Places, TagsPlace
      <4>2. shown = None
        BY <3>1, <4>1 DEF Places, TagsPlace
      <4> QED BY <2>1, <2>2, <4>1, <4>2 DEF TagsPlace
    <3> QED BY <2>2, <3>1 DEF TagsPlace
  <2> QED BY <2>2, <2>3 DEF Places, FormPlace, RecordPlace, SeesPlace, NoticePlace, EmailPlace
<1>2. CASE Commit
  <2>1. PICK w \in writes : writes' = (writes \ {w}) \cup {[w EXCEPT !.done = "ok"]}
    BY <1>2 DEF Commit
  <2>2. UNCHANGED <<page, query, shown, loads, overtaken, form>>
    BY <1>2 DEF Commit, ui
  <2> DEFINE v == [w EXCEPT !.done = "ok"]
  <2>3. v.q = w.q /\ v.kind = w.kind /\ v.sees = w.sees
    BY DEF PageTypes, IsWrite
  <2> HIDE DEF v
  <2>4. writes' = (writes \ {w}) \cup {v}
    BY <2>1 DEF v
  <2>5. RecordPlace' /\ SeesPlace'
    BY <2>2, <2>3, <2>4 DEF Places, RecordPlace, SeesPlace
  <2> QED BY <2>2, <2>5 DEF Places, FormPlace, NoticePlace, TagsPlace, EmailPlace
<1>3. CASE Refuse
  <2>1. UNCHANGED <<page, query, shown, loads, overtaken, form>> /\ writes' \subseteq writes
    BY <1>3 DEF Refuse, ui
  <2> QED BY <2>1 DEF Places, FormPlace, RecordPlace, SeesPlace, NoticePlace, TagsPlace, EmailPlace
<1> QED BY <1>1, <1>2, <1>3

LEMMA ListingThere ==
    ASSUME PageTypes, NEW l \in loads, l.has # None
    PROVE  [q |-> l.q, has |-> l.has, by |-> l.by] # None
BY ListingOf, PageAssumption

LEMMA ReceivePlaces ==
    ASSUME PageTypes, Places, Receive \/ Fail \/ RecordReceive
    PROVE  Places'
<1>1. PICK l \in loads : /\ loads' = loads \ {l}
                         /\ \/ shown' = shown
                            \/ l.has # None /\ shown' = [q |-> l.q, has |-> l.has, by |-> l.by]
  BY DEF Receive, Fail, RecordReceive
<1>2. UNCHANGED <<page, query, form, writes, overtaken>>
  BY DEF Receive, Fail, RecordReceive
<1>3. shown' = shown \/ shown' # None
  BY <1>1, ListingThere
<1>4. NoticePlace'
  BY <1>2, <1>3 DEF Places, NoticePlace
<1>5. TagsPlace'
  BY <1>1, <1>2 DEF Places, TagsPlace
<1> QED BY <1>2, <1>4, <1>5 DEF Places, FormPlace, RecordPlace, SeesPlace, EmailPlace

(* Once the router has left, nothing of the page is asked any more.        *)
LEMMA Leaving ==
    ASSUME PageInv, page \notin {"activities", "calendar"}, page' \in {"elsewhere", "dragged"},
           loads' \subseteq loads, writes' \subseteq writes, UNCHANGED <<query, form, target, created>>
    PROVE  Places' /\ Lists' /\ Once' /\ Shows'
<1>1. page' \notin Page
  BY PageAssumption
<1>2. Places'
  BY DEF PageInv, Places, FormPlace, RecordPlace, SeesPlace, NoticePlace, TagsPlace, EmailPlace,
         FreeBoxes, Record
<1>3. ~Looking'
  BY <1>1 DEF Looking
<1>4. EffectCurrent'
  BY DEF PageInv, Lists, EffectCurrent, FreeBoxes
<1>5. Lists'
  BY <1>3, <1>4 DEF Lists, StaleEffect, LoneLoad, Settled
<1>6. Once'
  BY DEF PageInv, Once, OncePages
<1>7. Shows'
  BY DEF PageInv, Shows, EditFormKnowsItsRow, RecordIsShown, Record
<1> QED BY <1>2, <1>5, <1>6, <1>7

LEMMA LeaveSteps ==
    ASSUME PageInv, (page \in Record /\ Leave) \/ (Routed /\ RecordDeleted)
    PROVE  Places' /\ Lists' /\ Once' /\ Shows'
<1>1. page \notin {"activities", "calendar"}
  BY DEF Routed, Record
<1>2. page' \in {"elsewhere", "dragged"} /\ loads' \subseteq loads /\ writes' \subseteq writes
      /\ UNCHANGED <<query, form, target, created>>
  BY DEF Leave, Abandon, RecordDeleted, Push, ui
<1> QED BY <1>1, <1>2, Leaving

(* A record whose load fails: the page is left, or shows a message.        *)
LEMMA RecordFailSteps ==
    ASSUME PageInv, Routed, RecordFail
    PROVE  Places' /\ Lists' /\ Once' /\ Shows'
<1>1. PICK l \in loads :
        IF l.by = "refetch" THEN page' = page /\ loads' = loads \ {l} /\ UNCHANGED <<writes, loading>>
        ELSE /\ Push /\ loads' = {k \in loads : k.by = "loose"} \ {l}
             /\ writes' = {w \in writes : w.kind = "delete"} /\ loading' = FALSE
  BY DEF RecordFail
<1>2. /\ failed' = TRUE
      /\ UNCHANGED <<query, typed, shown, form, target, confirm, picked, moves,
                     committed, acked, opened, created, lost, overtaken>>
  BY DEF RecordFail
<1>3. page \notin {"activities", "calendar", "tags"} \cup OncePages
  BY DEF Routed, Record, OncePages
<1>4. CASE l.by = "refetch"
  <2>1. page' = page /\ loads' \subseteq loads /\ UNCHANGED <<writes, loading>>
    BY <1>1, <1>4
  <2>2. Places'
    BY <1>2, <1>3, <2>1 DEF PageInv, Places, FormPlace, RecordPlace, SeesPlace, NoticePlace, TagsPlace,
                            EmailPlace
  <2>3. Looking' = Looking
    BY <1>2, <2>1 DEF Looking
  <2>4. Lists'
    BY <1>2, <2>1, <2>3 DEF PageInv, Lists, EffectCurrent, StaleEffect, LoneLoad, Settled
  <2>5. Once'
    BY <1>2, <1>3, <2>1 DEF PageInv, Once
  <2>6. Shows'
    BY <1>2, <2>1 DEF PageInv, Shows, EditFormKnowsItsRow, RecordIsShown
  <2> QED BY <2>2, <2>4, <2>5, <2>6
<1>5. CASE l.by # "refetch"
  <2>1. page' \in {"elsewhere", "dragged"} /\ loads' \subseteq loads /\ writes' \subseteq writes
    BY <1>1, <1>5 DEF Push
  <2> QED BY <1>2, <1>3, <2>1, Leaving
<1> QED BY <1>4, <1>5

-----------------------------------------------------------------------------
(* The row of a form and the record of a page.                             *)
LEMMA ControlsShows ==
    ASSUME PageInv, Controls
    PROVE  Shows'
<1>1. UNCHANGED <<page, form>> /\ (target' = target \/ page \in FreeBoxes)
  BY DEF Controls
<1>2. EditFormKnowsItsRow'
  BY <1>1 DEF PageInv, Shows, EditFormKnowsItsRow, Places, FormPlace
<1>3. ASSUME page \in Record
      PROVE  shown' = shown /\ loading' \in {loading, TRUE}
  BY <1>3 DEF Controls, Idles, Reruns, Refetches, Clears, Polls, Looks, Writes, Fires, Empties,
              Record, FreeBoxes, Boxes
<1>4. RecordIsShown'
  BY <1>1, <1>3 DEF PageInv, Shows, RecordIsShown, PageTypes, TypeOK
<1> QED BY <1>2, <1>4 DEF Shows

LEMMA DialogsShows ==
    ASSUME PageInv, Dialogs
    PROVE  Shows'
<1>1. UNCHANGED <<page, loading, shown>>
  BY DEF Dialogs, Idles
<1>2. CASE form' = "closed"
  BY <1>1, <1>2 DEF PageInv, Shows, EditFormKnowsItsRow, RecordIsShown
<1>3. CASE target' = (form' = "edit")
  BY <1>1, <1>3 DEF PageInv, Shows, EditFormKnowsItsRow, RecordIsShown
<1> QED BY <1>2, <1>3 DEF Dialogs

LEMMA SendsShows ==
    ASSUME PageInv, Sends
    PROVE  Shows'
BY DEF Sends, ui, PageInv, Shows, EditFormKnowsItsRow, RecordIsShown

LEMMA FinishesShows ==
    ASSUME PageInv, Finishes
    PROVE  Shows'
<1>1. /\ UNCHANGED <<page, loading, shown>>
      /\ form' \in {"closed", form} /\ target' \in {TRUE, target}
  BY DEF Finishes
<1>2. EditFormKnowsItsRow'
  <2>1. CASE target' = TRUE
    BY <2>1 DEF EditFormKnowsItsRow
  <2>2. CASE target' = target
    BY <1>1, <2>2 DEF PageInv, Shows, EditFormKnowsItsRow
  <2> QED BY <1>1, <2>1, <2>2
<1>3. RecordIsShown'
  BY <1>1 DEF PageInv, Shows, RecordIsShown
<1> QED BY <1>2, <1>3 DEF Shows

LEMMA AnswersShows ==
    ASSUME PageInv, Answers
    PROVE  Shows'
<1>1. page' = page
  BY DEF Answers
<1>2. PICK w \in writes : \E closes :
         /\ Acknowledge(w, closes)
         /\ "target" \in closes => "form" \in closes \/ page \in {"activities", "calendar"}
         /\ Rereads(w) \/ Mails \/ Fetches(w) \/ Patches(w)
  BY DEF Answers
<1>3. PICK closes : /\ Acknowledge(w, closes)
                    /\ "target" \in closes => "form" \in closes \/ page \in {"activities", "calendar"}
  BY <1>2
<1>4. form' = "edit" /\ page \notin {"activities", "calendar"} => form = "edit" /\ target' = target
  BY <1>3 DEF Acknowledge
<1>5. EditFormKnowsItsRow'
  BY <1>1, <1>4 DEF PageInv, Shows, EditFormKnowsItsRow
<1>6. ASSUME page \in Record
      PROVE  loading' \in {loading, TRUE} /\ (shown' = shown \/ Patches(w))
  BY <1>2, <1>6 DEF Rereads, Mails, Fetches, Patches, Record
<1>7. Patches(w) => shown' # None
  BY PatchesType, PageAssumption DEF PageInv, Places
<1>8. RecordIsShown'
  BY <1>1, <1>6, <1>7 DEF PageInv, Shows, RecordIsShown, PageTypes, TypeOK
<1> QED BY <1>5, <1>8 DEF Shows

LEMMA ServerShows ==
    ASSUME PageInv, Serve \/ Commit \/ Refuse
    PROVE  Shows'
<1>1. UNCHANGED <<page, form, target, loading, shown>>
  BY DEF Serve, Commit, Refuse, ui
<1> QED BY <1>1 DEF PageInv, Shows, EditFormKnowsItsRow, RecordIsShown

LEMMA ReceiveShows ==
    ASSUME PageInv, (~Routed /\ (Receive \/ Fail)) \/ (Routed /\ RecordReceive)
    PROVE  Shows'
<1>1. UNCHANGED <<page, form, target>>
  BY DEF Receive, Fail, RecordReceive
<1>2. EditFormKnowsItsRow'
  BY <1>1 DEF PageInv, Shows, EditFormKnowsItsRow
<1>3. RecordIsShown'
  <2>1. CASE ~Routed
    BY <1>1, <2>1 DEF Routed, RecordIsShown
  <2>2. CASE Routed /\ page \notin Record
    BY <1>1, <2>2 DEF RecordIsShown
  <2>3. CASE RecordReceive /\ page \in Record
    <3>1. PICK l \in loads : l.has # None /\ shown' = [q |-> l.q, has |-> l.has, by |-> l.by]
      BY <2>3 DEF RecordReceive, Record
    <3> QED BY <3>1, ListingThere DEF RecordIsShown, PageInv
  <2> QED BY <2>1, <2>2, <2>3
<1> QED BY <1>2, <1>3 DEF Shows

-----------------------------------------------------------------------------
(* What is shown and what is on its way.  A step leaves a lone request for *)
(* what the controls say, or asks for nothing, or something crosses.       *)
LEMMA LoneRequest ==
    ASSUME NEW l \in Loads, loads' = {l}, l.q = query', l.has = None,
           l.by = "effect" => page' \notin FreeBoxes \cup {"deal_history"}
    PROVE  Lists'
BY DEF Lists, EffectCurrent, StaleEffect, LoneLoad, Settled

LEMMA Crossing ==
    ASSUME overtaken', loads' # {}, EffectCurrent'
    PROVE  Lists'
BY DEF Lists, StaleEffect, LoneLoad, Settled

LEMMA NotLooking ==
    ASSUME ~Looking', EffectCurrent'
    PROVE  Lists'
BY DEF Lists, StaleEffect, LoneLoad, Settled

LEMMA ListsSame ==
    ASSUME Lists, UNCHANGED <<page, query, loads, shown, failed, overtaken, acked>>, Looking' => Looking
    PROVE  Lists'
BY DEF Lists, EffectCurrent, StaleEffect, LoneLoad, Settled

LEMMA RerunLists ==
    ASSUME PageTypes, Lists, NEW wanted \in BOOLEAN, query' \in Query, Rerun(query', wanted),
           Looking' => wanted, page' \notin FreeBoxes \cup {"deal_history"}
    PROVE  Lists'
<1> DEFINE l == Load(query', "effect")
<1>1. l \in Loads /\ l.q = query' /\ l.has = None /\ l.by = "effect"
  BY LoadType
<1>2. /\ loads' = Kept \cup (IF wanted THEN {l} ELSE {})
      /\ overtaken' = ((Kept \cup writes) # {} /\ (overtaken \/ Kept # {} \/ query' # query))
  BY DEF Rerun
<1> HIDE DEF l
<1>3. \A k \in Kept : k.by # "effect"
  BY DEF Kept
<1>4. EffectCurrent'
  BY <1>1, <1>2, <1>3 DEF EffectCurrent
<1>5. CASE ~wanted
  BY <1>4, <1>5, NotLooking
<1>6. CASE wanted /\ Kept = {}
  <2>1. loads' = {l}
    BY <1>2, <1>6
  <2> QED BY <1>1, <2>1, LoneRequest
<1>7. CASE wanted /\ Kept # {}
  <2>1. overtaken' /\ loads' # {}
    BY <1>2, <1>7
  <2> QED BY <1>4, <2>1, Crossing
<1> QED BY <1>5, <1>6, <1>7

(* A request beside those under way crosses them.                          *)
LEMMA BesideLists ==
    ASSUME PageTypes, Lists, NEW q \in Query, NEW by \in {"refetch", "loose"},
           loads' = loads \cup {Load(q, by)}, UNCHANGED <<page, query>>,
           overtaken' \/ (loads = {} /\ q = query)
    PROVE  Lists'
<1> DEFINE l == Load(q, by)
<1>1. l \in Loads /\ l.q = q /\ l.has = None /\ l.by = by
  BY LoadType
<1> HIDE DEF l
<1>2. loads' = loads \cup {l}
  BY DEF l
<1>3. EffectCurrent'
  BY <1>1, <1>2 DEF Lists, EffectCurrent
<1>4. CASE overtaken'
  BY <1>2, <1>3, <1>4, Crossing
<1>5. CASE loads = {} /\ q = query
  BY <1>1, <1>2, <1>5, LoneRequest
<1> QED BY <1>4, <1>5

LEMMA ControlsLists ==
    ASSUME PageInv, Controls
    PROVE  Lists'
<1>1. PageTypes /\ Lists /\ query \in Query
  BY DEF PageInv, PageTypes, TypeOK
<1>2. UNCHANGED <<page, acked>>
  BY DEF Controls, SameServer
<1>3. CASE Idles
  <2>1. Looking' = Looking
    BY <1>2, <1>3 DEF Idles, Looking
  <2> QED BY <1>1, <1>2, <1>3, <2>1, ListsSame DEF Idles
<1>4. CASE Reruns
  <2>1. PICK wanted \in BOOLEAN : Rerun(query', wanted) /\ (Looking' => wanted)
    BY <1>4 DEF Reruns
  <2>2. query' \in Query /\ page' \notin FreeBoxes \cup {"deal_history"}
    BY <1>2, <1>4 DEF Reruns
  <2> QED BY <1>1, <2>1, <2>2, RerunLists
<1>5. CASE Refetches
  <2>1. /\ loads' = loads \cup {Load(query, "refetch")} /\ query' = query
        /\ overtaken' \/ loads = {}
    BY <1>5 DEF Refetches, Refetch
  <2> QED BY <1>1, <1>2, <2>1, BesideLists
<1>6. CASE Clears
  <2> DEFINE First == [query EXCEPT !.page = 1]
  <2>1. First \in Query
    BY <1>1, QueryFacts
  <2>2. /\ page = "contacts" /\ query' = First
        /\ loads' = (IF query = First THEN loads ELSE Kept \cup {Load(First, "effect")})
                    \cup {Load(query, "refetch")}
        /\ overtaken' = (overtaken \/ loads # {} \/ query # First)
    BY <1>6 DEF Clears, First
  <2> HIDE DEF First
  <2>3. CASE query = First
    <3>1. loads' = loads \cup {Load(query, "refetch")} /\ query' = query /\ (overtaken' \/ loads = {})
      BY <2>2, <2>3
    <3> QED BY <1>1, <1>2, <3>1, BesideLists
  <2>4. CASE query # First
    <3>1. overtaken' /\ loads' # {} /\ loads' = Kept \cup {Load(First, "effect")} \cup {Load(query, "refetch")}
      BY <2>2, <2>4
    <3>2. Load(First, "effect").q = First /\ Load(query, "refetch").by = "refetch"
      BY <1>1, <2>1, LoadType
    <3>3. EffectCurrent'
      BY <1>2, <2>2, <3>1, <3>2 DEF Kept, EffectCurrent, FreeBoxes
    <3> QED BY <3>1, <3>3, Crossing
  <2> QED BY <2>3, <2>4
<1>7. CASE Polls
  <2>1. PICK by \in {"refetch", "loose"} : loads' = loads \cup {Load(query, by)}
    BY <1>7 DEF Polls
  <2>2. query' = query /\ (overtaken' \/ loads = {})
    BY <1>7 DEF Polls
  <2> QED BY <1>1, <1>2, <2>1, <2>2, BesideLists
<1>8. CASE Looks
  <2> DEFINE l == Load(query', "refetch")
  <2>1. l \in Loads /\ l.q = query' /\ l.has = None /\ l.by = "refetch"
    BY <1>1, <1>8, LoadType DEF Looks
  <2>2. loads' = loads \cup {l} /\ overtaken' = (loads # {}) /\ page = "deal_history"
    BY <1>8 DEF Looks
  <2> HIDE DEF l
  <2>3. EffectCurrent'
    BY <1>1, <1>2, <2>1, <2>2 DEF Lists, EffectCurrent
  <2>4. CASE loads = {}
    BY <2>1, <2>2, <2>4, LoneRequest
  <2>5. CASE loads # {}
    BY <2>2, <2>3, <2>5, Crossing
  <2> QED BY <2>4, <2>5
<1>9. CASE Writes
  <2>1. ~Looking'
    BY <1>2, <1>9 DEF Writes, Looking, FreeBoxes, Boxes
  <2>2. EffectCurrent'
    BY <1>1, <1>2, <1>9 DEF Writes, Lists, EffectCurrent
  <2> QED BY <2>1, <2>2, NotLooking
<1>10. CASE Fires
  <2>1. loads' = loads \cup {Load(query, "refetch")} /\ query' = query /\ (overtaken' \/ loads = {})
    BY <1>10 DEF Fires
  <2> QED BY <1>1, <1>2, <2>1, BesideLists
<1>11. CASE Empties
  <2>1. ~Looking'
    BY <1>2, <1>11 DEF Empties, Looking
  <2>2. EffectCurrent'
    BY <1>1, <1>2, <1>11 DEF Empties, Lists, EffectCurrent
  <2> QED BY <2>1, <2>2, NotLooking
<1> QED BY <1>3, <1>4, <1>5, <1>6, <1>7, <1>8, <1>9, <1>10, <1>11 DEF Controls

LEMMA StillLists ==
    ASSUME PageInv, Dialogs \/ Sends \/ Finishes \/ Commit \/ Refuse
    PROVE  Lists'
<1>1. UNCHANGED <<page, query, loads, shown, failed, overtaken, acked>>
  BY DEF Dialogs, Idles, SameServer, Sends, Finishes, Commit, Refuse, ui
<1>2. page \in Boxes => picked' = picked
  BY DEF Dialogs, Idles, Sends, Finishes, Commit, Refuse, ui
<1>3. Looking' => Looking
  BY <1>1, <1>2 DEF Looking
<1> QED BY <1>1, <1>3, ListsSame DEF PageInv

LEMMA AnswersLists ==
    ASSUME PageInv, Answers
    PROVE  Lists'
<1>1. PageTypes /\ Places /\ Lists /\ query \in Query
  BY DEF PageInv, PageTypes, TypeOK
<1>2. page' = page /\ (page \in Boxes => picked' = picked)
  BY DEF Answers
<1>3. PICK w \in writes : \E closes :
         Acknowledge(w, closes) /\ (Rereads(w) \/ Mails \/ Fetches(w) \/ Patches(w))
  BY DEF Answers
<1>4. acked' = acked \cup {w.no} /\ w.q \in Query
  BY <1>1, <1>3 DEF Acknowledge, PageTypes, IsWrite
<1>5. CASE Rereads(w)
  <2>1. /\ loads' = loads \cup {Load(w.q, "refetch")} /\ query' = query
        /\ overtaken' \/ (loads = {} /\ w.q = query)
    BY <1>5 DEF Rereads, Refetch
  <2> QED BY <1>1, <1>2, <1>4, <2>1, BesideLists
<1>6. CASE Mails
  <2>1. PICK k \in {0, 1} : /\ EmailShow([query EXCEPT !.pick = k])
                            /\ page = "email_templates" => k = 0
    BY <1>6 DEF Mails
  <2> DEFINE q == [query EXCEPT !.pick = k]
  <2>2. q \in Query /\ q.pick = k
    <3>1. k \in 0..MaxMoves
      BY PageAssumption
    <3> QED BY <1>1, <3>1, QueryFacts
  <2>3. /\ query' = q
        /\ IF q = query THEN UNCHANGED <<loads, overtaken>> ELSE Rerun(q, q.pick = 1)
    BY <2>1 DEF EmailShow
  <2> HIDE DEF q
  <2>4. UNCHANGED <<failed, shown>> /\ page \in {"email_logs", "email_templates"}
    BY <1>6 DEF Mails
  <2>5. CASE q = query
    <3>1. Looking' => page = "email_logs" /\ query'.pick = 1
      BY <1>2, <2>1, <2>2, <2>3, <2>4 DEF Looking
    <3>2. CASE ~Looking'
      <4>1. EffectCurrent'
        BY <1>1, <1>2, <2>3, <2>5 DEF Lists, EffectCurrent
      <4> QED BY <3>2, <4>1, NotLooking
    <3>3. CASE Looking'
      <4>1. overtaken'
        BY <1>1, <1>6, <3>1, <3>3, MailsCross
      <4>2. EffectCurrent' /\ StaleEffect'
        BY <1>1, <1>2, <2>3, <2>4, <2>5 DEF Lists, EffectCurrent, StaleEffect, Looking, Boxes
      <4> QED BY <4>1, <4>2 DEF Lists, LoneLoad, Settled
    <3> QED BY <3>2, <3>3
  <2>6. CASE q # query
    <3>1. Rerun(query', query'.pick = 1) /\ query' \in Query
      BY <2>2, <2>3, <2>6
    <3>2. Looking' => query'.pick = 1
      BY <1>2, <2>4 DEF Looking
    <3>3. page' \notin FreeBoxes \cup {"deal_history"}
      BY <1>2, <2>4 DEF FreeBoxes
    <3> DEFINE wanted == query'.pick = 1
    <3>4. wanted \in BOOLEAN /\ Rerun(query', wanted) /\ (Looking' => wanted)
      BY <3>1, <3>2
    <3> HIDE DEF wanted
    <3> QED BY <1>1, <3>1, <3>3, <3>4, RerunLists
  <2> QED BY <2>5, <2>6
<1>7. CASE Fetches(w)
  <2>1. /\ loads' = loads \cup {Load(w.q, "loose")} /\ query' = query /\ page = "lead"
        /\ overtaken' \/ loads = {}
    BY <1>7 DEF Fetches
  <2>2. w.q = query
    BY <1>1, <2>1 DEF Places, RecordPlace, Record
  <2> QED BY <1>1, <1>2, <1>4, <2>1, <2>2, BesideLists
<1>8. CASE Patches(w)
  <2>1. UNCHANGED <<page, query, failed, loads>> /\ Looking' = Looking
    BY <1>2, <1>8 DEF Patches, Looking
  <2>2. EffectCurrent'
    BY <1>1, <2>1 DEF Lists, EffectCurrent
  <2>3. CASE page = "lead"
    <3>1. /\ w.kind = "status"
          /\ shown' = [q |-> w.q, has |-> w.sees.has \cup {w.no}, by |-> "local"]
          /\ overtaken' = (overtaken \/ loads # {} \/ w.sees # shown)
      BY <1>8, <2>3 DEF Patches
    <3>2. shown'.q = w.q /\ shown'.has = w.sees.has \cup {w.no} /\ shown'.by = "local"
      BY <3>1
    <3>3. w.sees # None /\ w.q = query
      BY <1>1, <2>3, <3>1 DEF Places, SeesPlace, RecordPlace, Record
    <3>4. StaleEffect'
      BY <2>1, <3>2 DEF StaleEffect
    <3>5. LoneLoad'
      BY <3>1, <2>1 DEF LoneLoad
    <3>6. Settled'
      BY <1>1, <1>4, <2>1, <3>1, <3>2, <3>3 DEF Lists, Settled
    <3> QED BY <2>2, <3>4, <3>5, <3>6 DEF Lists
  <2>4. CASE page = "notifications"
    <3>1. /\ shown' = [shown EXCEPT !.has = shown.has \cup {w.no}]
          /\ overtaken' = (overtaken \/ loads # {})
      BY <1>8, <2>4 DEF Patches
    <3>2. shown \in Listing
      BY <1>1, <2>4 DEF Places, NoticePlace, PageTypes
    <3>3. shown'.q = shown.q /\ shown'.has = shown.has \cup {w.no} /\ shown'.by = shown.by /\ shown # None
      BY <3>1, <3>2, PageAssumption DEF Listing
    <3>4. StaleEffect'
      BY <1>1, <2>1, <3>3 DEF Lists, StaleEffect
    <3>5. LoneLoad'
      BY <3>1, <2>1 DEF LoneLoad
    <3>6. Settled'
      BY <1>1, <1>4, <2>1, <3>1, <3>3 DEF Lists, Settled
    <3> QED BY <2>2, <3>4, <3>5, <3>6 DEF Lists
  <2>5. CASE page = "tags"
    <3>1. /\ w.kind \in {"status", "tag"}
          /\ shown' = [shown EXCEPT !.has = w.sees.has \cup {w.no}]
          /\ overtaken' = (overtaken \/ w.sees # shown)
      BY <1>8, <2>5 DEF Patches
    <3>2. shown \in Listing
      BY <1>1, <2>5 DEF Places, NoticePlace, PageTypes
    <3>3. shown'.q = shown.q /\ shown'.has = w.sees.has \cup {w.no} /\ shown'.by = shown.by /\ shown # None
      BY <3>1, <3>2, PageAssumption DEF Listing
    <3>4. loads = {}
      BY <1>1, <2>5, <3>3 DEF Places, TagsPlace
    <3>5. StaleEffect'
      BY <1>1, <2>1, <3>3 DEF Lists, StaleEffect
    <3>6. LoneLoad'
      BY <2>1, <3>4 DEF LoneLoad
    <3>7. Settled'
      BY <1>1, <1>4, <2>1, <3>1, <3>3 DEF Lists, Settled
    <3> QED BY <2>2, <3>5, <3>6, <3>7 DEF Lists
  <2> QED BY <1>8, <2>3, <2>4, <2>5 DEF Patches
<1> QED BY <1>3, <1>5, <1>6, <1>7, <1>8

LEMMA ServeLists ==
    ASSUME PageInv, Serve
    PROVE  Lists'
<1>1. PICK l \in loads : loads' = (loads \ {l}) \cup {[l EXCEPT !.has = committed]}
  BY DEF Serve
<1> DEFINE k == [l EXCEPT !.has = committed]
<1>2. k.q = l.q /\ k.by = l.by /\ k.has = committed
  BY DEF PageInv, PageTypes, Loads
<1> HIDE DEF k
<1>3. loads' = (loads \ {l}) \cup {k}
  BY <1>1 DEF k
<1>4. UNCHANGED <<page, query, picked, shown, failed, overtaken, acked>>
  BY DEF Serve, ui
<1>5. Looking' = Looking
  BY <1>4 DEF Looking
<1>6. EffectCurrent'
  BY <1>2, <1>3, <1>4 DEF PageInv, Lists, EffectCurrent
<1>7. LoneLoad'
  <2>1. ASSUME Looking, ~overtaken
        PROVE  loads = {l} /\ k.q = query /\ acked \subseteq k.has
    BY <1>2, <2>1 DEF PageInv, Lists, LoneLoad, PageTypes, TypeOK
  <2> QED BY <1>3, <1>4, <1>5, <2>1 DEF LoneLoad
<1>8. StaleEffect' /\ Settled'
  BY <1>3 , <1>4, <1>5 DEF PageInv, Lists, StaleEffect, Settled
<1> QED BY <1>6, <1>7, <1>8 DEF Lists

(* A list replaces the one on the screen.                                  *)
LEMMA TakeLists ==
    ASSUME PageInv, NEW l \in loads, l.has # None, shown' = [q |-> l.q, has |-> l.has, by |-> l.by],
           loads' = loads \ {l}, UNCHANGED <<page, query, picked, overtaken, acked>>
    PROVE  Lists'
<1>1. shown'.q = l.q /\ shown'.has = l.has /\ shown'.by = l.by
  OBVIOUS
<1>2. Looking' = Looking
  BY DEF Looking
<1>3. EffectCurrent'
  BY DEF PageInv, Lists, EffectCurrent
<1>4. StaleEffect'
  BY <1>1 DEF PageInv, Lists, EffectCurrent, StaleEffect
<1>5. LoneLoad'
  BY <1>2 DEF PageInv, Lists, LoneLoad
<1>6. Settled'
  BY <1>1, <1>2 DEF PageInv, Lists, LoneLoad, Settled
<1> QED BY <1>3, <1>4, <1>5, <1>6 DEF Lists

LEMMA ReceiveLists ==
    ASSUME PageInv, Receive \/ Fail \/ RecordReceive
    PROVE  Lists'
<1>1. UNCHANGED <<page, query, picked, overtaken, acked>>
  BY DEF Receive, Fail, RecordReceive
<1>2. CASE Receive
  BY <1>1, <1>2, TakeLists DEF Receive
<1>3. CASE Fail
  <2>1. loads' \subseteq loads /\ failed' = TRUE /\ shown' = shown /\ Looking' = Looking
    BY <1>1, <1>3 DEF Fail, Looking
  <2> QED BY <1>1, <2>1 DEF PageInv, Lists, EffectCurrent, StaleEffect, LoneLoad, Settled
<1>4. CASE RecordReceive
  <2>1. PICK l \in loads :
          /\ l.has # None /\ loads' = loads \ {l}
          /\ page = "elsewhere" \/ shown' = [q |-> l.q, has |-> l.has, by |-> l.by]
    BY <1>4 DEF RecordReceive
  <2>2. CASE page = "elsewhere"
    <3>1. ~Looking'
      BY <1>1, <2>2, PageAssumption DEF Looking
    <3>2. EffectCurrent'
      BY <1>1, <2>1 DEF PageInv, Lists, EffectCurrent
    <3> QED BY <3>1, <3>2, NotLooking
  <2>3. CASE page # "elsewhere"
    BY <1>1, <2>1, <2>3, TakeLists
  <2> QED BY <2>2, <2>3
<1> QED BY <1>2, <1>3, <1>4

-----------------------------------------------------------------------------
(* The rows that an opening of a form makes.                               *)
LEMMA MadeType ==
    ASSUME IsFiniteSet(created), NEW n
    PROVE  Made(n) \in Nat
<1>1. IsFiniteSet({c \in created : c[1] = n})
  BY FS_Subset
<1> QED BY <1>1, FS_CardinalityType DEF Made

LEMMA MadeNextType ==
    ASSUME IsFiniteSet(created'), NEW n
    PROVE  Made(n)' \in Nat
<1>1. IsFiniteSet({c \in created' : c[1] = n})
  BY FS_Subset
<1> QED BY <1>1, FS_CardinalityType DEF Made

LEMMA OnceElsewhere ==
    ASSUME Once, UNCHANGED <<page, created>>, page \notin OncePages
    PROVE  Once'
BY DEF Once

LEMMA OnceKept ==
    ASSUME PageTypes, Once, UNCHANGED <<page, created, lost, opened, form, writes>>, Moved
    PROVE  Once'
<1>1. CASE page \in OncePages
  <2>1. OnceHere /\ opened \in Nat /\ moves \in Nat
    BY <1>1, PageAssumption DEF Once, PageTypes, TypeOK
  <2>2. opened' < moves'
    BY <2>1 DEF Moved, OnceHere
  <2>3. Saves' = Saves /\ \A n : Made(n)' = Made(n)
    BY DEF Saves, Made
  <2>4. Made(opened)' = Made(opened)
    BY DEF Made
  <2>5. \A w \in Saves : Made(w.opening)' = Made(w.opening)
    BY DEF Made
  <2>6. OnceHere'
    BY <2>1, <2>2, <2>3, <2>4, <2>5 DEF OnceHere, Saves, Made
  <2> QED BY <2>6 DEF Once
<1> QED BY <1>1, OnceElsewhere

LEMMA StillOnce ==
    ASSUME PageInv, Controls \/ Serve \/ Receive \/ Fail \/ RecordReceive
    PROVE  Once'
<1>1. UNCHANGED <<page, created, lost, opened, form, writes>>
  BY DEF Controls, SameServer, Serve, Receive, Fail, RecordReceive, ui
<1>2. Moved
  BY DEF Controls, Serve, Receive, Fail, RecordReceive, Moved, PageInv, PageTypes, TypeOK
<1> QED BY <1>1, <1>2, OnceKept DEF PageInv

(* An opening that is new has made nothing yet.                            *)
LEMMA DialogsOnce ==
    ASSUME PageInv, Dialogs
    PROVE  Once'
<1>1. UNCHANGED <<page, created, lost, writes>> /\ Moved
  BY DEF Dialogs, SameServer
<1>2. CASE page \notin OncePages
  BY <1>1, <1>2, OnceElsewhere DEF PageInv
<1>3. CASE page \in OncePages
  <2>1. OnceHere /\ opened \in Nat /\ moves \in Nat /\ lost \in Nat /\ IsFiniteSet(created)
    BY <1>3, PageAssumption DEF PageInv, Once, PageTypes, TypeOK
  <2>2. Saves' = Saves /\ \A n : Made(n)' = Made(n)
    BY <1>1 DEF Saves, Made
  <2>3. \A w \in Saves : Made(w.opening)' = Made(w.opening)
    BY <1>1 DEF Made
  <2>4. CASE form' = "closed" /\ opened' = opened
    <3>1. opened' < moves'
      BY <1>1, <2>1, <2>4 DEF Moved, OnceHere
    <3>2. OnceHere'
      BY <1>1, <2>1, <2>2, <2>3, <2>4, <3>1 DEF OnceHere, Saves, Made
    <3> QED BY <1>1, <2>1, <3>2 DEF Once
  <2>5. CASE opened' = moves /\ moves' = moves + 1
    <3>1. opened' < moves' /\ opened < opened' /\ opened' \in Nat
      BY <2>1, <2>5 DEF OnceHere
    <3>2. \A c \in created : c[1] \in 0..opened' /\ c[1] # opened'
      BY <2>1, <3>1 DEF OnceHere
    <3>3. \A w \in Saves : w.opening \in 0..opened' /\ w.opening # opened'
      BY <2>1, <3>1 DEF OnceHere
    <3>4. {c \in created : c[1] = opened'} = {}
      BY <3>2
    <3>5. Made(opened)' = 0
      BY <1>1, <3>4, FS_EmptySet DEF Made
    <3>6. OnceHere'
      <4>1. Made(opened)' <= lost'
        BY <1>1, <2>1, <3>5
      <4>2. \A n \in 0..MaxMoves : Made(n)' <= 1 + lost'
        BY <1>1, <2>1, <2>2 DEF OnceHere
      <4>3. \A w \in Saves : w.done = "sent" \/ w.kind = "update" => Made(w.opening)' <= lost'
        BY <1>1, <2>1, <2>3 DEF OnceHere
      <4>4. \A v, w \in Saves : v = w
        BY <2>1 DEF OnceHere
      <4>5. \A c \in created' : c[1] \in 0..opened'
        BY <1>1, <3>2
      <4> QED BY <2>2, <3>1, <3>3, <4>1, <4>2, <4>3, <4>4, <4>5 DEF OnceHere
    <3> QED BY <1>1, <2>1, <3>6 DEF Once
  <2> QED BY <1>3, <2>4, <2>5 DEF Dialogs
<1> QED BY <1>2, <1>3

(* One save at a time, and only for an opening that has made nothing.      *)
LEMMA SendsOnce ==
    ASSUME PageInv, Sends
    PROVE  Once'
<1>1. UNCHANGED <<page, form, created, lost, opened>> /\ Moved
  BY DEF Sends, ui
<1>2. CASE page \notin OncePages
  BY <1>1, <1>2, OnceElsewhere DEF PageInv
<1>3. CASE page \in OncePages
  <2>1. OnceHere /\ opened \in Nat /\ moves \in Nat /\ lost \in Nat /\ IsFiniteSet(created)
    BY <1>3, PageAssumption DEF PageInv, Once, PageTypes, TypeOK
  <2>2. PICK w :
          /\ writes' = writes \cup {w} /\ w.done = "sent" /\ w.opening = opened
          /\ w.kind \in Saving =>
                /\ ~InFlight(Saving) /\ form # "closed"
                /\ page = "activities" => form = IF w.kind = "create" THEN "new" ELSE "edit"
    BY <1>3 DEF Sends
  <2>3. opened' < moves'
    BY <1>1, <2>1 DEF Moved, OnceHere
  <2>4. \A n : Made(n)' = Made(n)
    BY <1>1 DEF Made
  <2>5. Made(opened)' = Made(opened) /\ Made(w.opening)' = Made(opened)
    BY <1>1, <2>2 DEF Made
  <2>6. CASE w.kind \notin Saving
    <3>1. Saves' = Saves
      BY <2>2, <2>6 DEF Saves
    <3>2. \A v \in Saves : Made(v.opening)' = Made(v.opening)
      BY <1>1 DEF Made
    <3>3. OnceHere'
      BY <1>1, <2>1, <2>3, <2>4, <2>5, <3>1, <3>2 DEF OnceHere
    <3> QED BY <1>1, <2>1, <3>3 DEF Once
  <2>7. CASE w.kind \in Saving
    <3>1. Saves = {} /\ Saves' = {w}
      BY <2>2, <2>7 DEF Saves, InFlight
    <3>2. Made(opened) <= lost
      BY <2>1, <2>2, <2>7, <3>1 DEF OnceHere
    <3>3. OnceHere'
      BY <1>1, <2>1, <2>2, <2>3, <2>4, <2>5, <2>7, <3>1, <3>2 DEF OnceHere
    <3> QED BY <1>1, <2>1, <3>3 DEF Once
  <2> QED BY <2>6, <2>7
<1> QED BY <1>2, <1>3

(* A save that succeeds closes its form.                                   *)
LEMMA AnswersOnce ==
    ASSUME PageInv, Answers
    PROVE  Once'
<1>1. page' = page
  BY DEF Answers
<1>2. PICK w \in writes : \E closes :
        /\ Acknowledge(w, closes)
        /\ page \in OncePages /\ w.kind \in Saving =>
              \/ "form" \in closes
              \/ page = "activities" /\ form # IF w.kind = "create" THEN "new" ELSE "edit"
  BY DEF Answers
<1>3. PICK closes :
        /\ Acknowledge(w, closes)
        /\ page \in OncePages /\ w.kind \in Saving =>
              \/ "form" \in closes
              \/ page = "activities" /\ form # IF w.kind = "create" THEN "new" ELSE "edit"
  BY <1>2
<1>4. /\ UNCHANGED <<created, lost, opened, moves>>
      /\ writes' = writes \ {w} /\ form' = IF "form" \in closes THEN "closed" ELSE form
  BY <1>3 DEF Acknowledge
<1>5. CASE page \notin OncePages
  BY <1>1, <1>4, <1>5, OnceElsewhere DEF PageInv
<1>6. CASE page \in OncePages
  <2>1. OnceHere /\ IsFiniteSet(created)
    BY <1>6 DEF PageInv, Once
  <2>2. \A n : Made(n)' = Made(n)
    BY <1>4 DEF Made
  <2>3. Made(opened)' = Made(opened) /\ \A v \in Saves : Made(v.opening)' = Made(v.opening)
    BY <1>4 DEF Made
  <2>4. CASE w.kind \notin Saving
    <3>1. Saves' = Saves
      BY <1>4, <2>4 DEF Saves
    <3>2. OnceHere'
      BY <1>1, <1>4, <2>1, <2>2, <2>3, <3>1 DEF OnceHere
    <3> QED BY <1>1, <1>4, <2>1, <3>2 DEF Once
  <2>5. CASE w.kind \in Saving
    <3>1. Saves = {w} /\ Saves' = {}
      BY <1>4, <2>1, <2>5 DEF Saves, OnceHere
    <3>2. form' # "closed" => Made(opened) <= lost
      BY <1>3, <1>4, <1>6, <2>1, <2>5, <3>1 DEF OnceHere
    <3>3. OnceHere'
      BY <1>4, <2>1, <2>2, <2>3, <3>1, <3>2 DEF OnceHere
    <3> QED BY <1>1, <1>4, <2>1, <3>3 DEF Once
  <2> QED BY <2>4, <2>5
<1> QED BY <1>5, <1>6

(* The server makes the row of a save whose opening had made none, but for *)
(* those it was not told of.                                               *)
LEMMA CommitOnce ==
    ASSUME PageInv, Commit
    PROVE  Once'
<1>1. UNCHANGED <<page, form, opened, lost, moves>>
  BY DEF Commit, ui
<1>2. PICK w \in writes :
        /\ w.done = "sent"
        /\ writes' = (writes \ {w}) \cup {[w EXCEPT !.done = "ok"]}
        /\ created' = IF w.kind = "create" THEN created \cup {<<w.opening, w.no>>} ELSE created
  BY DEF Commit
<1>3. IsFiniteSet(created) /\ lost \in Nat
  BY PageAssumption DEF PageInv, Once, PageTypes, TypeOK
<1>4. IsFiniteSet(created')
  BY <1>2, <1>3, FS_AddElement
<1> DEFINE v == [w EXCEPT !.done = "ok"]
<1>5. v.done = "ok" /\ v.kind = w.kind /\ v.opening = w.opening
  BY DEF PageInv, PageTypes, IsWrite
<1> HIDE DEF v
<1>6. writes' = (writes \ {w}) \cup {v}
  BY <1>2 DEF v
<1>7. CASE page \in OncePages
  <2>1. OnceHere
    BY <1>7 DEF PageInv, Once
  <2>2. CASE w.kind \notin Saving
    <3>1. created' = created
      BY <1>2, <2>2 DEF Saving
    <3>2. Saves' = Saves
      BY <1>5, <1>6, <2>2 DEF Saves
    <3>3. Made(opened)' = Made(opened) /\ \A u \in Saves : Made(u.opening)' = Made(u.opening)
      BY <1>1, <3>1 DEF Made
    <3>4. \A n : Made(n)' = Made(n)
      BY <3>1 DEF Made
    <3>5. OnceHere'
      BY <1>1, <2>1, <3>1, <3>2, <3>3, <3>4 DEF OnceHere
    <3> QED BY <1>4, <3>5 DEF Once
  <2>3. CASE w.kind \in Saving
    <3>1. Saves = {w} /\ Saves' = {v}
      BY <1>5, <1>6, <2>1, <2>3 DEF Saves, OnceHere
    <3>2. w.opening \in 0..opened /\ Made(w.opening) <= lost
      BY <1>2, <2>1, <3>1 DEF OnceHere
    <3>3. \A c \in created' : c[1] \in 0..opened
      BY <1>2, <2>1, <3>2 DEF OnceHere
    <3>4. \A n : n # w.opening => Made(n)' = Made(n)
      <4>1. ASSUME NEW n, n # w.opening
            PROVE  {c \in created' : c[1] = n} = {c \in created : c[1] = n}
        BY <1>2, <4>1
      <4> QED BY <4>1 DEF Made
    <3>5. Made(w.opening)' <= 1 + Made(w.opening) /\ Made(w.opening) \in Nat
      <4> DEFINE S == {c \in created : c[1] = w.opening}
                 T == {c \in created' : c[1] = w.opening}
      <4>1. IsFiniteSet(S)
        BY <1>3, FS_Subset
      <4>2. T = S \/ T = S \cup {<<w.opening, w.no>>}
        BY <1>2
      <4>3. Cardinality(T) \in {Cardinality(S), Cardinality(S) + 1} /\ Cardinality(S) \in Nat
        BY <4>1, <4>2, FS_AddElement, FS_CardinalityType
      <4>4. Made(w.opening)' = Cardinality(T) /\ Made(w.opening) = Cardinality(S)
        BY DEF Made
      <4> QED BY <4>3, <4>4
    <3>6. \A n \in 0..MaxMoves : Made(n)' <= 1 + lost
      <4>1. ASSUME NEW n \in 0..MaxMoves
            PROVE  Made(n)' <= 1 + lost
        <5>1. CASE n = w.opening
          <6>1. Made(n)' = Made(w.opening)'
            BY <5>1 DEF Made
          <6>2. Made(w.opening)' \in Nat
            BY <1>4, MadeNextType
          <6> QED BY <1>3, <3>2, <3>5, <6>1, <6>2
        <5>2. CASE n # w.opening
          BY <2>1, <3>4, <5>2 DEF OnceHere
        <5> QED BY <5>1, <5>2
      <4> QED BY <4>1
    <3>7. w.kind = "update" => Made(w.opening)' <= lost
      BY <1>2, <3>2 DEF Made
    <3>8. opened # w.opening => Made(opened)' = Made(opened)
      BY <1>1, <3>4 DEF Made
    <3>9. Made(v.opening)' = Made(w.opening)'
      BY <1>5 DEF Made
    <3>10. OnceHere'
      BY <1>1, <1>5, <2>1, <3>1, <3>2, <3>3, <3>6, <3>7, <3>8, <3>9 DEF OnceHere
    <3> QED BY <1>4, <3>10 DEF Once
  <2> QED BY <2>2, <2>3
<1> QED BY <1>1, <1>4, <1>7 DEF Once

(* Without its answer a save that made a row counts as lost.               *)
LEMMA RefuseOnce ==
    ASSUME PageInv, Refuse
    PROVE  Once'
<1>1. UNCHANGED <<page, form, opened, created, moves>>
  BY DEF Refuse, ui
<1>2. PICK w \in writes : /\ writes' = writes \ {w}
                          /\ lost' = IF w.done = "ok" THEN lost + 1 ELSE lost
  BY DEF Refuse
<1>3. CASE page \notin OncePages
  BY <1>1, <1>3, OnceElsewhere DEF PageInv
<1>4. CASE page \in OncePages
  <2>1. OnceHere /\ IsFiniteSet(created) /\ lost \in Nat /\ opened \in 0..MaxMoves
        /\ w.done \in {"sent", "ok"}
    BY <1>4, PageAssumption DEF PageInv, Once, PageTypes, TypeOK, IsWrite
  <2>2. lost <= lost' /\ lost' \in Nat
    BY <1>2, <2>1
  <2>3. \A n : Made(n)' = Made(n) /\ Made(n) \in Nat
    BY <1>1, <2>1, MadeType DEF Made
  <2>4. Made(opened)' = Made(opened) /\ \A u \in Saves : Made(u.opening)' = Made(u.opening)
    BY <1>1 DEF Made
  <2>5. Saves' \subseteq Saves
    BY <1>2 DEF Saves
  <2>6. form' # "closed" /\ (\A u \in Saves' : u.opening # opened) => Made(opened) <= lost'
    <3>1. CASE \A u \in Saves : u.opening # opened
      BY <1>1, <2>1, <2>2, <2>3, <3>1 DEF OnceHere
    <3>2. CASE \E u \in Saves : u.opening = opened /\ u # w
      BY <1>2, <3>2 DEF Saves
    <3>3. CASE w \in Saves /\ w.opening = opened
      <4>1. CASE w.done = "sent"
        BY <1>2, <2>1, <3>3, <4>1 DEF OnceHere
      <4>2. CASE w.done = "ok"
        <5>1. lost' = lost + 1 /\ Made(opened) <= 1 + lost
          BY <1>2, <2>1, <4>2 DEF OnceHere
        <5> QED BY <2>1, <5>1
      <4> QED BY <2>1, <4>1, <4>2
    <3> QED BY <3>1, <3>2, <3>3
  <2>7. \A n \in 0..MaxMoves : Made(n)' <= 1 + lost'
    BY <2>1, <2>2, <2>3 DEF OnceHere
  <2>8. \A u \in Saves' : u.done = "sent" \/ u.kind = "update" => Made(u.opening)' <= lost'
    BY <2>1, <2>2, <2>3, <2>4, <2>5 DEF OnceHere
  <2>9. OnceHere'
    BY <1>1, <2>1, <2>4, <2>5, <2>6, <2>7, <2>8 DEF OnceHere
  <2> QED BY <1>1, <2>1, <2>9 DEF Once
<1> QED BY <1>3, <1>4

-----------------------------------------------------------------------------
(* The initial states.                                                     *)
LEMMA Beginning ==
    /\ 0 \in 0..MaxLost /\ 0 \in 0..MaxMoves /\ 1 \in 0..MaxMoves
    /\ Start \in Query /\ Start.pick \in {0, 1}
<1>1. 0 \in 0..MaxLost /\ 0 \in 0..MaxMoves /\ 1 \in 0..MaxMoves
  BY PageAssumption
<1>2. Start \in Query /\ Start.pick \in {0, 1}
  BY <1>1 DEF Start, Query, Term
<1> QED BY <1>1, <1>2

LEMMA FreshBounds ==
    ASSUME opened = 0, moves = 1, lost = 0
    PROVE  opened \in 0..MaxMoves /\ moves \in 0..MaxMoves /\ moves # 0 /\ lost \in 0..MaxLost
<1>1. opened \in 0..MaxMoves /\ moves \in 0..MaxMoves
  BY Beginning
<1>2. moves # 0
  OBVIOUS
<1>3. lost \in 0..MaxLost
  BY Beginning
<1> QED BY <1>1, <1>2, <1>3

LEMMA FreshTypes ==
    ASSUME page \in Page \cup {"elsewhere"}, query = Start, typed = "", shown = None, loads \subseteq Loads,
           form = "closed", writes = {}, committed = {}, acked = {}, opened \in 0..MaxMoves,
           moves \in 0..MaxMoves, moves # 0, lost \in 0..MaxLost,
           {loading, failed, target, confirm, picked, overtaken} \subseteq BOOLEAN
    PROVE  PageTypes
<1>1. Start \in Query /\ Start.pick \in {0, 1}
  BY Beginning
<1>2. TypeOK
  BY <1>1 DEF TypeOK, Term
<1> QED BY <1>1, <1>2 DEF PageTypes

LEMMA FreshOnce ==
    ASSUME writes = {}, opened = 0, created = {}, moves = 1, lost = 0
    PROVE  Once
<1>1. \A n : {c \in created : c[1] = n} = {}
  OBVIOUS
<1>2. Made(opened) = 0 /\ \A n \in 0..MaxMoves : Made(n) = 0
  BY <1>1, FS_EmptySet DEF Made
<1>3. IsFiniteSet(created) /\ Saves = {}
  BY FS_EmptySet DEF Saves
<1>4. OnceHere
  BY <1>2, <1>3 DEF OnceHere
<1> QED BY <1>3, <1>4 DEF Once

LEMMA MountInv ==
    ASSUME NEW spinner \in BOOLEAN, NEW wanted \in BOOLEAN, NEW by \in {"effect", "refetch", "loose"},
           page \in Page \cup {"elsewhere"}, Mount(spinner, wanted, by),
           page \in Record => spinner, page \in FreeBoxes \cup {"deal_history"} => ~wanted
    PROVE  PageInv
<1> DEFINE l == [no |-> 0, q |-> Start, by |-> by, has |-> None]
<1>1. /\ query = Start /\ typed = "" /\ loading = spinner /\ failed = FALSE /\ shown = None
      /\ loads = (IF wanted THEN {l} ELSE {})
      /\ form = "closed" /\ target = FALSE /\ confirm = FALSE /\ picked = FALSE
      /\ writes = {} /\ committed = {} /\ acked = {} /\ opened = 0 /\ created = {}
      /\ moves = 1 /\ lost = 0 /\ overtaken = FALSE
  BY DEF Mount
<1>2. Start \in Query /\ Start.pick = 0 /\ MaxMoves \in Nat /\ MaxLost \in Nat /\ 1 \in 0..MaxMoves
  BY PageAssumption DEF Start, Query, Term
<1>3. l \in Loads /\ l.q = Start /\ l.has = None /\ l.by = by
  BY <1>2 DEF Loads
<1> HIDE DEF l
<1>4. /\ query = Start /\ typed = "" /\ shown = None /\ loads \in {{}, {l}} /\ form = "closed"
      /\ writes = {} /\ committed = {} /\ acked = {} /\ opened = 0 /\ created = {}
      /\ moves = 1 /\ lost = 0
  BY <1>1
<1>5. PageTypes
  <2>1. {loading, failed, target, confirm, picked, overtaken} \subseteq BOOLEAN
    BY <1>1
  <2>2. opened \in 0..MaxMoves /\ moves \in 0..MaxMoves /\ moves # 0 /\ lost \in 0..MaxLost
    BY <1>4, FreshBounds
  <2> QED BY <1>3, <1>4, <2>1, <2>2, FreshTypes
<1>6. Places
  BY <1>1, <1>3 DEF Places, FormPlace, RecordPlace, SeesPlace, NoticePlace, TagsPlace, EmailPlace
<1>7. Lists
  <2>1. EffectCurrent
    BY <1>1, <1>3 DEF EffectCurrent
  <2>2. StaleEffect /\ Settled
    BY <1>1 DEF StaleEffect, Settled
  <2>3. LoneLoad
    BY <1>1, <1>3 DEF LoneLoad
  <2> QED BY <2>1, <2>2, <2>3 DEF Lists
<1>8. Once
  BY <1>4, FreshOnce
<1>9. Shows
  BY <1>1 DEF Shows, EditFormKnowsItsRow, RecordIsShown
<1> QED BY <1>5, <1>6, <1>7, <1>8, <1>9 DEF PageInv

LEMMA InitInv == Init => PageInv
<1> SUFFICES ASSUME Init PROVE PageInv
  OBVIOUS
<1>1. page \in Page
  BY DEF Init
<1>2. CASE Mount(TRUE, TRUE, "effect") /\ page \notin FreeBoxes \cup {"deal_history"}
  BY <1>1, <1>2, MountInv
<1>3. CASE Mount(TRUE, TRUE, "loose") /\ page \in {"contact", "company", "deal"}
  BY <1>1, <1>3, MountInv DEF FreeBoxes
<1>4. CASE Mount(FALSE, TRUE, "effect") /\ page \notin Record \cup FreeBoxes \cup {"deal_history"}
  BY <1>1, <1>4, MountInv
<1>5. CASE Mount(FALSE, TRUE, "refetch") /\ page \in {"notifications", "tags"}
  BY <1>1, <1>5, MountInv DEF Record, FreeBoxes
<1>6. CASE Mount(FALSE, FALSE, "effect") /\ page \notin Record
  BY <1>1, <1>6, MountInv
<1>7. CASE \/ ContactsMount \/ CompaniesMount \/ LeadsMount \/ DealsMount \/ DocumentsMount
           \/ AuditMount \/ ActivitiesMount \/ CalendarMount \/ DashboardMount \/ ReportsMount
           \/ LeadMount \/ WhatsAppMount
  BY <1>2, <1>7 DEF ContactsMount, CompaniesMount, LeadsMount, DealsMount, DocumentsMount, AuditMount,
         ActivitiesMount, CalendarMount, DashboardMount, ReportsMount, LeadMount, WhatsAppMount, FreeBoxes
<1>8. CASE \/ PipelinesMount \/ ProfilesMount \/ UsersMount \/ WebhooksMount \/ BrandingMount
           \/ LeadActivitiesMount
  BY <1>4, <1>8 DEF PipelinesMount, ProfilesMount, UsersMount, WebhooksMount, BrandingMount,
         LeadActivitiesMount, Record, FreeBoxes
<1>9. CASE ContactMount \/ CompanyMount \/ DealMount
  BY <1>3, <1>9 DEF ContactMount, CompanyMount, DealMount
<1>10. CASE NoticesMount \/ TagsMount
  BY <1>5, <1>10 DEF NoticesMount, TagsMount
<1>11. CASE \/ EmailLogsMount \/ EmailTemplatesMount \/ MessagesMount \/ SettingsMount \/ HistoryMount
            \/ SearchMount \/ CompanySelectMount \/ DealContactMount \/ DealCompanyMount
  BY <1>6, <1>11 DEF EmailLogsMount, EmailTemplatesMount, MessagesMount, SettingsMount, HistoryMount,
         SearchMount, CompanySelectMount, DealContactMount, DealCompanyMount, Record
<1> QED BY <1>7, <1>8, <1>9, <1>10, <1>11 DEF Init

LEMMA ParkedInv == PagesParked => PageInv
<1> SUFFICES ASSUME PagesParked PROVE PageInv
  OBVIOUS
<1>1. page = "elsewhere" /\ Mount(FALSE, FALSE, "effect")
  BY DEF PagesParked
<1>2. page \notin Record
  BY <1>1 DEF Record
<1> QED BY <1>1, <1>2, MountInv

-----------------------------------------------------------------------------
(* The steps.                                                              *)
LEMMA UserInv ==
    ASSUME PageInv, User
    PROVE  PageInv'
<1>1. PageTypes'
  BY NextTypes DEF Next, PageInv, Places
<1>2. CASE page \in Record /\ Leave
  BY <1>1, <1>2, LeaveSteps DEF PageInv
<1>3. UserStep
  BY UserSteps DEF PageInv
<1>4. CASE Controls
  BY <1>1, <1>4, ControlsPlaces, ControlsLists, StillOnce, ControlsShows DEF PageInv
<1>5. CASE Dialogs
  BY <1>1, <1>5, DialogsPlaces, StillLists, DialogsOnce, DialogsShows DEF PageInv
<1>6. CASE Sends
  BY <1>1, <1>6, SendsPlaces, StillLists, SendsOnce, SendsShows DEF PageInv
<1>7. CASE Answers
  BY <1>1, <1>7, AnswersPlaces, AnswersLists, AnswersOnce, AnswersShows DEF PageInv
<1>8. CASE Finishes
  <2>1. page' = page /\ page \notin OncePages /\ created' = created
    BY <1>8 DEF Finishes, FreeBoxes, OncePages
  <2>2. Once'
    BY <2>1, OnceElsewhere DEF PageInv
  <2> QED BY <1>1, <1>8, <2>2, FinishesPlaces, StillLists, FinishesShows DEF PageInv
<1> QED BY <1>2, <1>3, <1>4, <1>5, <1>6, <1>7, <1>8 DEF UserStep

LEMMA AnswerInv ==
    ASSUME PageInv, Answer
    PROVE  PageInv'
<1>1. PageTypes'
  BY NextTypes DEF Next, PageInv, Places
<1>2. CASE Routed /\ RecordFail
  BY <1>1, <1>2, RecordFailSteps DEF PageInv
<1>3. CASE (~Routed /\ (Receive \/ Fail)) \/ (Routed /\ RecordReceive)
  BY <1>1, <1>3, ReceivePlaces, ReceiveLists, StillOnce, ReceiveShows DEF PageInv
<1> QED BY <1>2, <1>3 DEF Answer

LEMMA ServerInv ==
    ASSUME PageInv, Serve \/ Commit \/ Refuse
    PROVE  PageInv'
<1>1. PageTypes' /\ Places' /\ Shows'
  BY ServerTypes, ServerPlaces, ServerShows DEF PageInv
<1>2. CASE Serve
  BY <1>1, <1>2, ServeLists, StillOnce DEF PageInv
<1>3. CASE Commit
  BY <1>1, <1>3, StillLists, CommitOnce DEF PageInv
<1>4. CASE Refuse
  BY <1>1, <1>4, StillLists, RefuseOnce DEF PageInv
<1> QED BY <1>2, <1>3, <1>4

LEMMA NextInv == PageInv /\ Next => PageInv'
<1> SUFFICES ASSUME PageInv, Next PROVE PageInv'
  OBVIOUS
<1>1. CASE Routed /\ RecordDeleted
  BY <1>1, NextTypes, LeaveSteps DEF PageInv, Places
<1> QED BY <1>1, UserInv, AnswerInv, ServerInv DEF Next

LEMMA StutterInv == PageInv /\ UNCHANGED vars => PageInv'
<1> SUFFICES ASSUME PageInv, UNCHANGED vars PROVE PageInv'
  OBVIOUS
<1>1. UNCHANGED <<page, query, typed, loading, failed, shown, loads, form, target, confirm, picked,
                  writes, committed, acked, opened, created, moves, lost, overtaken>>
  BY DEF vars, ui, net
<1>2. PageTypes'
  <2>1. RestTypes /\ UNCHANGED <<page, typed, moves, lost, target, confirm, picked, form, opened,
                                 acked, committed, writes>>
    BY <1>1, TypeParts DEF PageInv
  <2> QED BY <1>1, <2>1, ListKept, ListOnly DEF PageInv
<1>3. Places'
  BY <1>1 DEF PageInv, Places, FormPlace, RecordPlace, SeesPlace, NoticePlace, TagsPlace, EmailPlace
<1>4. Lists'
  BY <1>1, ListsSame DEF PageInv, Looking
<1>5. Moved
  BY <1>1 DEF Moved, PageInv, PageTypes, TypeOK
<1>6. Once'
  BY <1>1, <1>5, OnceKept DEF PageInv
<1>7. Shows'
  BY <1>1 DEF PageInv, Shows, EditFormKnowsItsRow, RecordIsShown
<1> QED BY <1>2, <1>3, <1>4, <1>6, <1>7 DEF PageInv

(* The invariant holds of the pages in every behaviour of the frontend.    *)
THEOREM PagesInductive == FrontendSpec => []PageInv
<1>1. FrontendInit => PageInv
  BY InitInv, ParkedInv DEF FrontendInit
<1>2. PageInv /\ [FrontendNext]_<<vars, formvars>> => PageInv'
  BY NextInv, StutterInv DEF FrontendNext
<1> QED BY <1>1, <1>2, PTL DEF FrontendSpec

-----------------------------------------------------------------------------
(* What the run checks, for every value of the constants.                  *)

(* The state of a page has its types.                                      *)
THEOREM PagesTypeOK == FrontendSpec => []TypeOK
<1>1. PageInv => TypeOK
  BY DEF PageInv, PageTypes
<1> QED BY <1>1, PagesInductive, PTL

(* A page at rest on which nothing crossed shows the rows its controls ask *)
(* for, with every write it was told of: the handlers refetch after each   *)
(* write, and the effect drops the answers of earlier queries.             *)
THEOREM RowsStayCurrent == FrontendSpec => []RowsAreCurrent
<1>1. PageInv => RowsAreCurrent
  BY DEF PageInv, Lists, Settled, RowsAreCurrent, Quiet
<1> QED BY <1>1, PagesInductive, PTL

(* A list that came from the effect answers the query of the controls,     *)
(* whatever crossed it: useEffect's clean-up sets `cancelled'.             *)
THEOREM EffectShowsQuery == FrontendSpec => []QueryShown
<1>1. PageInv => QueryShown
  BY DEF PageInv, Lists, StaleEffect, QueryShown, Quiet
<1> QED BY <1>1, PagesInductive, PTL

(* One opening of a form whose button is disabled while it submits makes   *)
(* one row, and one more for each success that did not arrive.             *)
THEOREM OneRowPerOpening == FrontendSpec => []CreatesOncePerOpening
<1>1. PageInv => CreatesOncePerOpening
  BY DEF PageInv, Once, OnceHere, OncePages, Made, CreatesOncePerOpening
<1> QED BY <1>1, PagesInductive, PTL

(* An edit form still has the row it was opened on.                        *)
THEOREM EditKeepsRow == FrontendSpec => []EditFormKnowsItsRow
<1>1. PageInv => EditFormKnowsItsRow
  BY DEF PageInv, Shows
<1> QED BY <1>1, PagesInductive, PTL

(* The page of a record that has loaded shows it until it is left.         *)
THEOREM RecordStaysShown == FrontendSpec => []RecordIsShown
<1>1. PageInv => RecordIsShown
  BY DEF PageInv, Shows
<1> QED BY <1>1, PagesInductive, PTL
=============================================================================
