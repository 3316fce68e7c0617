-------------------------- MODULE WebhookDelivery --------------------------
(***************************************************************************)
(* Outgoing webhooks: backend/src/services/webhook_worker.rs, fed by the   *)
(* handlers that enqueue events, and administered by handlers/webhooks.rs. *)
(* The queue is the table webhook_deliveries.  A worker claims a batch of  *)
(* rows in a transaction, posts them one after the other outside of it,    *)
(* and records each answer by the id of the row; rows that stay claimed    *)
(* for longer than a lease are claimed again.                              *)
(*                                                                         *)
(* Time is measured in ages: since when a row is claimed, for how long it  *)
(* has to wait.  The claiming transaction takes less than a tick.          *)
(***************************************************************************)
EXTENDS Integers, FiniteSets, FiniteSetsExt

CONSTANTS Webhook, Event,
          Worker,       \* one per running server
          Batch,        \* LIMIT 50
          MaxAttempts,
          Leases,       \* 5 minutes, in ticks: several lengths are explored
          SendTime,     \* posting and recording one delivery takes at most this
          Backoff,      \* the wait after each attempt but the last
          MaxCrashes,   \* bound on the crashes of a server
          MaxCount      \* the history answered counts up to this

ASSUME SizeAssumption ==
    /\ Batch \in Nat \ {0} /\ MaxAttempts \in Nat \ {0}
    /\ Leases \subseteq Nat /\ Leases # {} /\ SendTime \in Nat \ {0}
    /\ MaxCrashes \in Nat /\ MaxCount \in Nat /\ MaxCount >= MaxAttempts
    /\ Backoff \in [1 .. MaxAttempts - 1 -> Nat \ {0}]
ASSUME FiniteAssumption ==
    IsFiniteSet(Webhook) /\ IsFiniteSet(Event) /\ IsFiniteSet(Worker)

Delivery == Webhook \X Event
HookOf(d) == d[1]

VARIABLES
    lease,      \* the lease of this run: how long a row stays claimed
    accepts,    \* the parameters the database accepts for its enum columns
    webhook,    \* webhooks: not created yet, active, or deleted
    event,      \* the handler that raised each event, and the webhooks it read
    delivery,   \* webhook_deliveries
    worker,     \* the loops of start_worker
    answered,   \* history: requests of each delivery whose answer was recorded
    crashes

system == <<webhook, event, delivery, worker, answered, crashes>>
vars == <<lease, accepts, system>>
producers == <<webhook, event>>
histories == <<answered, crashes>>

Wait == 0 .. Max({0} \cup {Backoff[a] : a \in 1 .. MaxAttempts - 1})

Row == [status : {"absent", "pending", "processing", "success", "failed", "gone"},
        attempts : 0..MaxAttempts,
        age : 0 .. lease + 1,         \* since updated_at, while processing
        wait : Wait]                  \* until next_attempt_at, while pending

Absent == [status |-> "absent", attempts |-> 0, age |-> 0, wait |-> 0]
Gone == [Absent EXCEPT !.status = "gone"]

(* took: the attempts of each row as the claim read them. *)
Idle == [pc |-> "idle", batch |-> {}, took |-> [d \in Delivery |-> 0],
         cur |-> {}, ok |-> FALSE, spent |-> 0]

TypeOK ==
    /\ lease \in Leases
    /\ accepts \subseteq {"event", "status"}
    /\ webhook \in [Webhook -> {"unborn", "active", "deleted"}]
    /\ event \in [Event -> [state : {"new", "insert", "done", "lost"},
                            hooks : SUBSET Webhook]]
    /\ delivery \in [Delivery -> Row]
    /\ worker \in [Worker ->
          [pc : {"idle", "claim", "work", "send", "record", "dead", "down"},
           batch : SUBSET Delivery, took : [Delivery -> 0 .. MaxAttempts - 1],
           cur : SUBSET Delivery, ok : BOOLEAN, spent : 0..SendTime]]
    /\ \A w \in Worker : Cardinality(worker[w].cur) <= 1
    /\ answered \in [Delivery -> 0..MaxCount]
    /\ crashes \in 0..MaxCrashes

(* webhooks.event and webhook_deliveries.status are enums, and the code     *)
(* binds text to them.  With the migrations of the repository, which have   *)
(* no cast, accepts is {}: nothing is queued.  The other values are the     *)
(* same code on a schema with a cast for the one column or for both.        *)
Init ==
    /\ lease \in Leases
    /\ accepts \in SUBSET {"event", "status"}
    /\ webhook \in [Webhook -> {"unborn", "active"}]
    /\ event = [e \in Event |-> [state |-> "new", hooks |-> {}]]
    /\ delivery = [d \in Delivery |-> Absent]
    /\ worker = [w \in Worker |-> Idle]
    /\ answered = [d \in Delivery |-> 0]
    /\ crashes = 0

-----------------------------------------------------------------------------
(* The rows an open claim holds: FOR UPDATE locks the webhooks as well. *)
Locked == UNION {worker[w].batch : w \in {v \in Worker : worker[v].pc = "claim"}}
LockedHooks == {HookOf(d) : d \in Locked}

(* enqueue_event: the webhooks are read first, the rows are inserted in    *)
(* one transaction afterwards.  The query compares the enum with text: it  *)
(* fails, and the event is lost, where the database does not accept that.  *)
EnqueueRefused(e) ==
    /\ event[e].state = "new" /\ "event" \notin accepts
    /\ event' = [event EXCEPT ![e].state = "lost"]
    /\ UNCHANGED <<webhook, delivery, worker, histories>>

EnqueueRead(e) ==
    LET active == {h \in Webhook : webhook[h] = "active"}
    IN  /\ event[e].state = "new" /\ "event" \in accepts
        /\ event' = [event EXCEPT ![e] =
                        [state |-> IF active = {} THEN "done" ELSE "insert",
                         hooks |-> active]]
        /\ UNCHANGED <<webhook, delivery, worker, histories>>

(* A foreign key that is gone rolls back the rows of the other webhooks.   *)
EnqueueInsert(e) ==
    LET hooks == event[e].hooks
    IN  /\ event[e].state = "insert"
        /\ hooks \cap LockedHooks = {}
        /\ IF \E h \in hooks : webhook[h] = "deleted"
           THEN /\ event' = [event EXCEPT ![e].state = "lost"]
                /\ UNCHANGED delivery
           ELSE /\ event' = [event EXCEPT ![e].state = "done"]
                /\ delivery' = [d \in Delivery |->
                      IF HookOf(d) \in hooks /\ d[2] = e
                      THEN [Absent EXCEPT !.status = "pending"] ELSE delivery[d]]
        /\ UNCHANGED <<webhook, worker, histories>>

(* The client of the handler hangs up before the rows are committed. *)
EnqueueAbandon(e) ==
    /\ event[e].state \in {"new", "insert"}
    /\ event' = [event EXCEPT ![e].state = "lost"]
    /\ UNCHANGED <<webhook, delivery, worker, histories>>

(* A webhook is active from the start, and stays so.  The rows that the     *)
(* queries of create_webhook and update_webhook give back cannot be decoded *)
(* (they call a column "event: WebhookEvent"): the first has inserted by    *)
(* then and answers an error, the second fails before it writes.            *)
CreateWebhook(h) ==
    /\ webhook[h] = "unborn"
    /\ webhook' = [webhook EXCEPT ![h] = "active"]
    /\ UNCHANGED <<event, delivery, worker, histories>>

(* delete_webhook cascades to its deliveries. *)
DeleteWebhook(h) ==
    /\ webhook[h] = "active" /\ h \notin LockedHooks
    /\ webhook' = [webhook EXCEPT ![h] = "deleted"]
    /\ delivery' = [d \in Delivery |-> IF HookOf(d) = h THEN Gone ELSE delivery[d]]
    /\ UNCHANGED <<event, worker, histories>>

-----------------------------------------------------------------------------
(* process_pending_deliveries: the claim. *)
Become(w, what) == worker' = [worker EXCEPT ![w] = what]

MutantNoLease(d) ==                   \* claimed rows are due whatever their age
    \/ delivery[d].status = "pending" /\ delivery[d].wait = 0
    \/ delivery[d].status = "processing"

MutantNoReclaim(d) ==                 \* claimed rows are never due
    delivery[d].status = "pending" /\ delivery[d].wait = 0

Due(d) ==
    \/ delivery[d].status = "pending" /\ delivery[d].wait = 0
    \/ delivery[d].status = "processing" /\ delivery[d].age > lease

MutantClaimable ==                    \* no FOR UPDATE SKIP LOCKED
    {d \in Delivery : Due(d)}

Claimable == {d \in Delivery : Due(d) /\ HookOf(d) \notin LockedHooks}

(* ORDER BY next_attempt_at: any choice, for the order is not modelled. *)
ClaimSelect(w) ==
    /\ worker[w].pc = "idle"
    /\ Claimable # {}
    /\ \E S \in kSubset(Min({Batch, Cardinality(Claimable)}), Claimable) :
           Become(w, [Idle EXCEPT !.pc = "claim", !.batch = S,
                         !.took = [d \in Delivery |->
                             IF d \in S THEN delivery[d].attempts ELSE 0]])
    /\ UNCHANGED <<producers, delivery, histories>>

ClaimCommit(w) ==
    /\ worker[w].pc = "claim"
    /\ delivery' = [d \in Delivery |->
           IF d \in worker[w].batch
           THEN [delivery[d] EXCEPT !.status = "processing", !.age = 0, !.wait = 0]
           ELSE delivery[d]]
    /\ Become(w, [worker[w] EXCEPT !.pc = "work"])
    /\ UNCHANGED <<producers, histories>>

-----------------------------------------------------------------------------
(* The rows of the batch, one after the other. *)

(* The worker is done with d; took is kept for the rest of the batch only. *)
Rest(w, d) ==
    LET left == worker[w].batch \ {d}
    IN  [Idle EXCEPT !.pc = IF left = {} THEN "idle" ELSE "work",
                     !.batch = left, !.took = [worker[w].took EXCEPT ![d] = 0]]

(* An UPDATE by id: it finds no row when the webhook was deleted.          *)
Write(d, row) ==
    delivery' = IF delivery[d].status = "gone"
                THEN delivery ELSE [delivery EXCEPT ![d] = row]

Post(w, d) ==
    /\ worker[w].pc = "work" /\ d \in worker[w].batch
    /\ Become(w, [worker[w] EXCEPT !.pc = "send", !.cur = {d}])
    /\ UNCHANGED <<producers, delivery, histories>>

(* url_allowed refuses the address: the delivery fails at once. *)
Block(w, d) ==
    /\ worker[w].pc = "work" /\ d \in worker[w].batch
    /\ d \notin Locked
    /\ Write(d, [Absent EXCEPT !.status = "failed",
                               !.attempts = worker[w].took[d] + 1])
    /\ Become(w, Rest(w, d))
    /\ UNCHANGED <<producers, histories>>

(* 2xx or not; a timeout is an error like the others. *)
Answer(w, ok) ==
    /\ worker[w].pc = "send"
    /\ Become(w, [worker[w] EXCEPT !.pc = "record", !.ok = ok])
    /\ UNCHANGED <<producers, delivery, histories>>

MutantNoLimit(attempts, ok) ==        \* MAX_ATTEMPTS is not looked at
    [Absent EXCEPT !.attempts = attempts,
                   !.status = IF ok THEN "success" ELSE "pending"]

MutantEarlyLimit(attempts, ok) ==     \* the limit counts the retries
    LET row == [Absent EXCEPT !.attempts = attempts]
    IN  CASE ok -> [row EXCEPT !.status = "success"]
          [] ~ok /\ attempts + 1 < MaxAttempts ->
                 [row EXCEPT !.status = "pending", !.wait = Backoff[attempts]]
          [] OTHER -> [row EXCEPT !.status = "failed"]

MutantUncounted(attempts, ok) ==      \* the attempts that were claimed
    LET row == [Absent EXCEPT !.attempts = attempts - 1]
    IN  CASE ok -> [row EXCEPT !.status = "success"]
          [] ~ok /\ attempts < MaxAttempts ->
                 [row EXCEPT !.status = "pending", !.wait = Backoff[attempts]]
          [] OTHER -> [row EXCEPT !.status = "failed"]

AfterAttempt(attempts, ok) ==
    LET row == [Absent EXCEPT !.attempts = attempts]
    IN  CASE ok -> [row EXCEPT !.status = "success"]
          [] ~ok /\ attempts < MaxAttempts ->
                 [row EXCEPT !.status = "pending", !.wait = Backoff[attempts]]
          [] OTHER -> [row EXCEPT !.status = "failed"]

(* The UPDATE binds the new status as text: it can only succeed where the  *)
(* database accepts that (it fails otherwise: StatementFails).             *)
Record(w) ==
    \E d \in worker[w].cur :
        /\ worker[w].pc = "record" /\ "status" \in accepts
        /\ d \notin Locked
        /\ Write(d, AfterAttempt(worker[w].took[d] + 1, worker[w].ok))
        /\ answered' = [answered EXCEPT ![d] = Min({@ + 1, MaxCount})]
        /\ Become(w, Rest(w, d))
        /\ UNCHANGED <<producers, crashes>>

-----------------------------------------------------------------------------
(* Failures: the rows of the batch stay claimed, and the answer that was   *)
(* to be recorded is lost.                                                 *)
LoseBatch(w, next) ==
    Become(w, [Idle EXCEPT !.pc = next]) /\ UNCHANGED <<producers, delivery, answered>>

(* A statement fails and process_pending_deliveries returns its error.     *)
(* Nothing bounds how often: a status that the database refuses, or a body *)
(* with a NUL byte, fails at every attempt, and so does all when it is down. *)
StatementFails(w) ==
    worker[w].pc \in {"claim", "work", "record"} /\ LoseBatch(w, "idle") /\ UNCHANGED crashes

(* String::truncate panics when byte 4000 of the body of a refusal is not  *)
(* the first of a character: the task ends, the server goes on without it. *)
Panic(w) == worker[w].pc = "send" /\ LoseBatch(w, "dead") /\ UNCHANGED crashes

(* The server dies, and is started again. *)
Crash(w) ==
    /\ worker[w].pc # "down" /\ crashes < MaxCrashes
    /\ crashes' = crashes + 1
    /\ LoseBatch(w, "down")

Restart(w) ==
    /\ worker[w].pc = "down"
    /\ Become(w, Idle)
    /\ UNCHANGED <<producers, delivery, histories>>

Tick ==
    /\ \A w \in Worker :
          /\ worker[w].pc # "claim"
          /\ worker[w].pc \in {"work", "send", "record"} => worker[w].spent < SendTime
    /\ delivery' = [d \in Delivery |->
          [delivery[d] EXCEPT
              !.age = IF delivery[d].status = "processing" /\ @ <= lease THEN @ + 1 ELSE @,
              !.wait = IF @ > 0 THEN @ - 1 ELSE 0]]
    /\ worker' = [w \in Worker |->
          IF worker[w].pc \in {"work", "send", "record"}
          THEN [worker[w] EXCEPT !.spent = @ + 1] ELSE worker[w]]
    /\ UNCHANGED <<producers, histories>>

-----------------------------------------------------------------------------
Work(w) ==
    \/ ClaimSelect(w) \/ ClaimCommit(w) \/ Record(w)
    \/ \E d \in Delivery : Post(w, d) \/ Block(w, d)
    \/ \E ok \in BOOLEAN : Answer(w, ok)

(* The next step of a loop that is left alone, whatever comes of it. *)
Step(w) == Work(w) \/ StatementFails(w)

Disturb(w) == StatementFails(w) \/ Crash(w) \/ Panic(w)

Produce ==
    \/ \E e \in Event : EnqueueRefused(e) \/ EnqueueRead(e) \/ EnqueueInsert(e) \/ EnqueueAbandon(e)
    \/ \E h \in Webhook : CreateWebhook(h) \/ DeleteWebhook(h)

Next ==
    /\ \/ Produce \/ Tick
       \/ \E w \in Worker : Work(w) \/ Restart(w) \/ Disturb(w)
    /\ UNCHANGED <<lease, accepts>>

Fairness ==
    /\ SF_system(Tick)
    /\ \A w \in Worker : WF_system(Step(w)) /\ WF_system(Restart(w))

Spec == Init /\ [][Next]_vars /\ Fairness

-----------------------------------------------------------------------------
(* Properties *)
Settled(d) == delivery[d].status \notin {"pending", "processing"}
Sending(w) == {d \in worker[w].cur : worker[w].pc = "send"}

(* A claim takes only rows that are still due when it commits, however the *)
(* claims of several workers interleave.                                   *)
ClaimsAreDue ==
    [][\A w \in Worker : \A d \in worker[w].batch :
          ClaimCommit(w) => Due(d)]_vars

(* A batch is sent within its lease, whatever its requests take.           *)
BatchFits == lease >= Batch * SendTime

(* "SKIP LOCKED keeps concurrent workers from double-sending": no delivery *)
(* is being posted by two workers at once.                                 *)
NoDoubleSend ==
    \A v, w \in Worker : v # w => Sending(v) \cap Sending(w) = {}

(* It is so when a batch is sent within its lease.                         *)
NoDoubleSendWithinLease == BatchFits => NoDoubleSend

(* Then a delivery that succeeded or failed is never claimed, sent or      *)
(* retried again either, through crashes and failing statements.           *)
SettledIsFinal ==
    [][\A d \in Delivery :
          BatchFits /\ delivery[d].status \in {"success", "failed"} =>
              /\ delivery'[d].status \in {delivery[d].status, "gone"}
              /\ ~ \E w \in Worker : Post(w, d)]_vars

(* And every request whose answer was recorded is an attempt that is       *)
(* counted: no worker takes back what another has counted, and the limit   *)
(* on attempts limits the requests.                                        *)
AnswersAreCounted ==
    BatchFits => \A d \in Delivery : delivery[d].status \notin {"absent", "gone"} =>
        answered[d] <= delivery[d].attempts

(* A crash, a failing statement or a reclaimed batch costs a delivery none *)
(* of its attempts: it is given up when MaxAttempts of its requests were   *)
(* answered and recorded, or when its address is refused.                  *)
GivesUpAfterMaxAttempts ==
    [][\A d \in Delivery :
          delivery[d].status # "failed" /\ delivery'[d].status = "failed" =>
              answered'[d] >= MaxAttempts \/ \E w \in Worker : Block(w, d)]_vars

(* While a worker is left, no delivery is forgotten: rows that a crash, a  *)
(* panic or a failing statement left in processing are claimed again when  *)
(* their lease expires, as often as it happens.  And each is settled in    *)
(* the end, unless statements fail for ever.                               *)
NoDeliveryIsForgotten ==
    \/ <>[](\A w \in Worker : worker[w].pc = "dead")
    \/ \A d \in Delivery :
          /\ []<>(Settled(d) \/ \E w \in Worker : d \in worker[w].batch)
          /\ \/ []<>Settled(d)
             \/ []<><<\E w \in Worker : StatementFails(w)>>_vars
=============================================================================
