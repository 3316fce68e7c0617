---------------------------- MODULE EntityWrites ----------------------------
(***************************************************************************)
(* Contacts, companies, deals and activities: how a handler changes a row  *)
(* and then tells the audit log and the webhooks about it.                 *)
(* backend/src/services/contact_service.rs and repositories/               *)
(* contact_repo.rs, handlers/companies.rs, handlers/deals.rs and           *)
(* repositories/deal_repo.rs, handlers/activities.rs, handlers/audit.rs.   *)
(*                                                                         *)
(* Every statement commits by itself: other handlers run between the read  *)
(* of the old row, the write, the entry and the event.  What a row holds   *)
(* is named by the change that left it so: the n-th one committed.         *)
(***************************************************************************)
EXTENDS Naturals, Sequences, FiniteSets, SequencesExt

CONSTANTS Entity,
          Caller,       \* requests that are served at the same time
          MaxChanges,   \* bound on the changes committed
          MaxFaults,    \* bound on failing statements and requests cut short
          NoEntity

ASSUME EntityAssumption ==
    IsFiniteSet(Entity) /\ MaxChanges \in Nat /\ MaxFaults \in Nat

Table == {"contact", "company", "deal", "activity"}
Tracked == {"created", "updated", "deleted", "completed"}

VARIABLES
    table,      \* the table each entity belongs to
    accepts,    \* the database compares the enum webhooks.event with text
    row,        \* the change that left the row as it is; 0 without a row
    past,       \* history: the changes committed, in order
    audit,      \* audit_log
    raised,     \* events enqueue_event has taken
    handler,    \* the requests running
    answered,   \* history: changes answered with success
    hit,        \* history: changes whose request a failure hit afterwards
    faults

schema == <<table, accepts>>
tables == <<schema, row, past>>
told == <<audit, raised, answered>>
entityvars == <<tables, told, handler, hit, faults>>

Free == [pc |-> "idle", action |-> "created", on |-> NoEntity, old |-> 0, change |-> 0]

EntityTypeOK ==
    LET version == 0 .. MaxChanges
    IN  /\ table \in [Entity -> Table] /\ accepts \in BOOLEAN
        /\ row \in [Entity -> version]
        /\ past \in Seq([action : Tracked \cup {"imported", "bulk"}, on : Entity,
                         after : version])
        /\ audit \in Seq([action : Tracked, on : Entity, old : version, new : version])
        /\ raised \in Seq([action : Tracked, on : Entity, payload : version])
        /\ handler \in [Caller -> [pc : {"idle", "write", "audit", "enqueue"},
                                   action : Tracked, on : Entity \cup {NoEntity},
                                   old : version, change : version]]
        /\ answered \cup hit \subseteq DOMAIN past
        /\ faults \in 0 .. MaxFaults

(* With the migrations of the repository, which have no such cast, accepts *)
(* is FALSE.                                                               *)
EntityInit ==
    /\ table \in [Entity -> Table] /\ accepts \in BOOLEAN
    /\ row = [e \in Entity |-> 0]
    /\ past = <<>> /\ audit = <<>> /\ raised = <<>>
    /\ handler = [c \in Caller |-> Free]
    /\ answered = {} /\ hit = {} /\ faults = 0

Continue(c, what) == handler' = [handler EXCEPT ![c] = what]
End(c) == Continue(c, Free)

(* An id is made by the INSERT and never again. *)
Unborn(e) == \A i \in DOMAIN past : past[i].on # e

-----------------------------------------------------------------------------
(* The writes *)

Commit(action, e) ==
    LET n == Len(past) + 1
        after == IF action = "deleted" THEN 0 ELSE n
    IN  /\ n <= MaxChanges
        /\ row' = [row EXCEPT ![e] = after]
        /\ past' = Append(past, [action |-> action, on |-> e, after |-> after])
        /\ UNCHANGED schema

(* map_deal_row takes a column RETURNING does not name, and panics; the    *)
(* column the handlers of activities return is called "activity_type:      *)
(* ActivityType", and the row fails to decode.  The statement has          *)
(* committed by then.                                                      *)
Unreadable(action, e) == table[e] = "activity" \/ (table[e] = "deal" /\ action # "deleted")

(* A request goes on with its entry, if it has got the row back. *)
Written(c, action, e, old) ==
    IF Unreadable(action, e) THEN End(c)
    ELSE Continue(c, [pc |-> "audit", action |-> action, on |-> e, old |-> old,
                    change |-> Len(past) + 1])

Create(c, e) ==
    /\ handler[c].pc = "idle" /\ Unborn(e)
    /\ Commit("created", e)
    /\ Written(c, "created", e, 0)
    /\ UNCHANGED <<told, hit, faults>>

(* complete_activity *)
Complete(c, e) ==
    /\ handler[c].pc = "idle" /\ table[e] = "activity" /\ row[e] # 0
    /\ Commit("completed", e)
    /\ Written(c, "completed", e, 0)
    /\ UNCHANGED <<told, hit, faults>>

(* The row before an update (of a deal's stage, too) or a deletion.  That  *)
(* of an activity fails to decode, and the request is over.                *)
Read(c, action, e) ==
    /\ handler[c].pc = "idle" /\ row[e] # 0 /\ table[e] # "activity"
    /\ Continue(c, [Free EXCEPT !.pc = "write", !.action = action, !.on = e,
                              !.old = row[e]])
    /\ UNCHANGED <<tables, told, hit, faults>>

MutantWrite(c) ==                     \* the rows affected are not looked at
    LET h == handler[c]
    IN  /\ h.pc = "write"
        /\ Commit(h.action, h.on)
        /\ Written(c, h.action, h.on, h.old)
        /\ UNCHANGED <<told, hit, faults>>

(* UPDATE or DELETE, where the row may be gone by now: 404. *)
Write(c) ==
    LET h == handler[c]
    IN  /\ h.pc = "write"
        /\ IF row[h.on] = 0 THEN End(c) /\ UNCHANGED tables
           ELSE Commit(h.action, h.on) /\ Written(c, h.action, h.on, h.old)
        /\ UNCHANGED <<told, hit, faults>>

(* A line of an import: no entry, no event. *)
Import(e) ==
    /\ Unborn(e) /\ table[e] # "activity"
    /\ Commit("imported", e)
    /\ UNCHANGED <<told, handler, hit, faults>>

(* bulk_delete: one statement, its rows in any order; no entry, no event. *)
BulkDelete(gone) ==
    /\ gone # <<>> /\ Len(past) + Len(gone) <= MaxChanges
    /\ \A i \in DOMAIN gone : table[gone[i]] = "contact" /\ row[gone[i]] # 0
    /\ row' = [e \in Entity |-> IF Contains(gone, e) THEN 0 ELSE row[e]]
    /\ past' = past \o [i \in DOMAIN gone |->
                           [action |-> "bulk", on |-> gone[i], after |-> 0]]
    /\ UNCHANGED <<schema, told, handler, hit, faults>>

-----------------------------------------------------------------------------
(* The entry and the event *)

Answer(c) == answered' = answered \cup {handler[c].change} /\ End(c)

(* After the entry, whether it was written or not. *)
Go(c) ==
    IF table[handler[c].on] \in {"contact", "deal"}
    THEN Continue(c, [handler[c] EXCEPT !.pc = "enqueue"]) /\ UNCHANGED answered
    ELSE Answer(c)

InsertAudit(c) ==
    LET h == handler[c]
    IN  /\ h.pc = "audit"
        /\ audit' = Append(audit, [action |-> h.action, on |-> h.on, old |-> h.old,
                                   new |-> past[h.change].after])
        /\ Go(c)
        /\ UNCHANGED <<tables, raised, hit, faults>>

(* enqueue_event binds text to the enum: its query fails where the         *)
(* database has no such comparison, and the error is logged.               *)
EnqueueRefused(c) ==
    /\ handler[c].pc = "enqueue" /\ ~accepts
    /\ Answer(c)
    /\ UNCHANGED <<tables, audit, raised, hit, faults>>

(* The payload is the row after the change, or the row that was deleted. *)
Enqueue(c) ==
    LET h == handler[c]
        payload == IF h.action = "deleted" THEN h.old ELSE h.change
    IN  /\ h.pc = "enqueue" /\ accepts
        /\ raised' = Append(raised, [action |-> h.action, on |-> h.on, payload |-> payload])
        /\ Answer(c)
        /\ UNCHANGED <<tables, audit, hit, faults>>

-----------------------------------------------------------------------------
(* Failures *)

Hit(c) ==
    /\ handler[c].pc # "idle" /\ faults < MaxFaults
    /\ faults' = faults + 1
    /\ hit' = hit \cup ({handler[c].change} \ {0})
    /\ UNCHANGED <<tables, audit, raised>>

(* Of the errors of an entry and of an event, one is dropped and the other *)
(* logged; the request goes on.                                            *)
LoseEntry(c) == handler[c].pc = "audit" /\ Hit(c) /\ Go(c)
LoseEvent(c) == handler[c].pc = "enqueue" /\ Hit(c) /\ Answer(c)

(* A failing write, a client that hangs up, a crash. *)
CutShort(c) == Hit(c) /\ End(c) /\ UNCHANGED answered

EntityNext ==
    \/ \E c \in Caller, e \in Entity :
          \/ Create(c, e) \/ Complete(c, e)
          \/ Read(c, "updated", e) \/ Read(c, "deleted", e)
    \/ \E c \in Caller : \/ Write(c) \/ InsertAudit(c)
                         \/ EnqueueRefused(c) \/ Enqueue(c)
                         \/ LoseEntry(c) \/ LoseEvent(c) \/ CutShort(c)
    \/ \E e \in Entity : Import(e)
    \/ \E gone \in SetToAllKPermutations(Entity) : BulkDelete(gone)

EntitySpec == EntityInit /\ [][EntityNext]_entityvars

-----------------------------------------------------------------------------
(* Properties *)

(* What the row of e has held before change i. *)
HeldBefore(e, i) == {past[k].after : k \in {j \in 1 .. i - 1 : past[j].on = e}} \ {0}

(* Entry a, and event v, is about change i. *)
TellsOf(a, i) ==
    /\ a.action = past[i].action /\ a.on = past[i].on /\ a.new = past[i].after
    /\ a.old \in IF a.action = "created" THEN {0} ELSE HeldBefore(a.on, i)

RaisedBy(v, i) ==
    /\ v.action = past[i].action /\ v.on = past[i].on
    /\ v.payload \in IF v.action = "deleted" THEN HeldBefore(v.on, i) ELSE {past[i].after}

(* The audit log and the events tell of changes that were committed and of *)
(* each at most once, whichever handlers cross: the loser of two deletions *)
(* says nothing.  What was answered with success has its entry and, where  *)
(* the database accepts the query, its event, unless a failure of theirs   *)
(* was dropped.                                                            *)
LogTellsWhatHappened ==
    /\ \A n \in DOMAIN audit : \E i \in DOMAIN past : TellsOf(audit[n], i)
    /\ \A n \in DOMAIN raised : \E i \in DOMAIN past : RaisedBy(raised[n], i)
    /\ IsInjective(audit) /\ IsInjective(raised)
    /\ \A i \in answered \ hit :
          /\ \E n \in DOMAIN audit : TellsOf(audit[n], i)
          /\ accepts /\ table[past[i].on] \in {"contact", "deal"} =>
                \E n \in DOMAIN raised : RaisedBy(raised[n], i)
=============================================================================
