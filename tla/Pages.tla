------------------------------- MODULE Pages -------------------------------
(***************************************************************************)
(* What the pages of the frontend have in common: a list loaded by an      *)
(* effect that depends on the query, controls that change the query,       *)
(* dialogs that send writes, and a refetch after each write.               *)
(*                                                                         *)
(* React runs an effect again when one of its dependencies has changed and *)
(* calls the clean-up of the previous run first; the clean-up sets the     *)
(* `cancelled' flag of the previous load, so its answer is dropped.  The   *)
(* function fetchX, which the handlers call after a write, has no such     *)
(* flag and uses the query of the render in which the user clicked.        *)
(*                                                                         *)
(* Data are abstract: a list is described by the query it answers and by   *)
(* the writes it reflects.  An action of the user takes one of MaxMoves    *)
(* moves, and MaxLost answers of committed writes get lost.                *)
(***************************************************************************)
EXTENDS Naturals, FiniteSets

CONSTANTS Page,      \* the pages explored
          MaxMoves,  \* bound: actions of the user
          MaxLost,   \* bound: answers lost after the server committed
          None

VARIABLES
    page,       \* the page the router has mounted
    query,      \* what the effect depends on: search, page number, pick
    typed,      \* searchInput: the text in the search box
    loading, failed,
    shown,      \* the list on the screen: its query, its writes, its origin
    loads,      \* list requests whose answer will be used
    form,       \* "closed", "new" or "edit"
    target,     \* editingX: TRUE when the form edits a row, FALSE for a new one
    confirm,    \* a dialog about one row is open (delete, convert, detail)
    picked,     \* rows are selected, an answer will open a dialog, or a timer runs
    writes,     \* requests that change the server
    committed,  \* server: the writes done
    acked,      \* writes whose success the page was told
    opened,     \* which opening of the form is the current one
    created,    \* server: the rows created, as <<opening, write>>
    moves, lost,
    overtaken   \* two things of one page crossed since its last lone load

ui   == <<query, typed, loading, failed, shown, form, target, confirm, picked>>
net  == <<loads, writes, committed, acked, opened, created, lost, overtaken>>
vars == <<page, ui, net, moves>>

Term  == {"", "a"}
Query == [search : Term, page : 1..2, pick : 0..MaxMoves]
Start == [search |-> "", page |-> 1, pick |-> 0]

\* A list on the screen: the query it answers, the writes it reflects, and where
\* it came from.
Listing == [q : Query, has : SUBSET (0..MaxMoves), by : {"effect", "refetch", "loose", "local"}]

\* A mount is the first move, the pages apart from the two names for being away,
\* and null is no list.
ASSUME PageAssumption ==
    /\ MaxMoves \in Nat \ {0} /\ MaxLost \in Nat
    /\ {"elsewhere", "dragged"} \cap Page = {}
    /\ None \notin Listing

\* A pick stands for what the other controls select: a sort order, a filter,
\* a folder, a tab or a month.
Moving == moves < MaxMoves /\ moves' = moves + 1

-----------------------------------------------------------------------------
\* Loads.

\* A load by the effect is dropped by the clean-up, one by fetchX() is not, nor
\* is a "loose" one, which also leaves the page when it fails.
Load(q, by) == [no |-> moves, q |-> q, by |-> by, has |-> None]

MutantKept == loads                   \* the effect has no clean-up

\* The requests still in use after the clean-up of the effect.
Kept == {l \in loads : l.by # "effect"}

\* One effect run: the clean-up, then a load of q if the page wants one.
Rerun(q, wanted) ==
    /\ loads' = Kept \cup (IF wanted THEN {Load(q, "effect")} ELSE {})
    /\ overtaken' = ((Kept \cup writes) # {} /\ (overtaken \/ Kept # {} \/ q # query))

\* setLoading(true) beside the setters of the query.  The effect runs only
\* if one of them changed something.
Ask(q) ==
    /\ loading' = TRUE /\ query' = q
    /\ IF q = query THEN UNCHANGED <<loads, overtaken>> ELSE Rerun(q, TRUE)

\* The setters alone: the old list stays on the screen until the answer.
Slip(q) ==
    /\ query' = q
    /\ IF q = query THEN UNCHANGED <<loads, overtaken>> ELSE Rerun(q, TRUE)
    /\ UNCHANGED loading

\* fetchX() for the query of the click that led to it.
Refetch(q) ==
    /\ loads' = loads \cup {Load(q, "refetch")}
    /\ overtaken' = (overtaken \/ loads # {} \/ q # query)
    /\ failed' = FALSE

\* The server reads the list.
Serve ==
    /\ \E l \in loads : l.has = None /\ loads' = (loads \ {l}) \cup {[l EXCEPT !.has = committed]}
    /\ UNCHANGED <<page, ui, writes, committed, acked, opened, created, lost, overtaken, moves>>

\* The answer reaches the page: setData, setErrorState(null), setLoading(false).
Receive ==
    /\ \E l \in loads :
          /\ l.has # None
          /\ shown' = [q |-> l.q, has |-> l.has, by |-> l.by]
          /\ loads' = loads \ {l}
    /\ failed' = FALSE /\ loading' = FALSE
    /\ UNCHANGED <<page, query, typed, form, target, confirm, picked, moves,
                   writes, committed, acked, opened, created, lost, overtaken>>

MutantFail ==                         \* only an answer stops the spinner
    /\ \E l \in loads : loads' = loads \ {l}
    /\ failed' = TRUE
    /\ UNCHANGED <<page, query, typed, loading, shown, form, target, confirm, picked, moves,
                   writes, committed, acked, opened, created, lost, overtaken>>

\* The request fails: setErrorState(msg), setLoading(false).  For the pages
\* that show no error (`catch {}') failed only records that it happened.
Fail ==
    /\ \E l \in loads : loads' = loads \ {l}
    /\ failed' = TRUE /\ loading' = FALSE
    /\ UNCHANGED <<page, query, typed, shown, form, target, confirm, picked, moves,
                   writes, committed, acked, opened, created, lost, overtaken>>

\* Where the component and its effect depend on t: the translations arrive, or
\* the user chooses another language (i18n-context.tsx).  The effect runs again.
Translate == /\ Moving /\ Rerun(query, TRUE) /\ UNCHANGED <<query, loading>>
             /\ UNCHANGED <<page, typed, failed, shown, form, target, confirm, picked,
                            writes, committed, acked, opened, created, lost>>

RowsKept == ~loading /\ shown # None

\* The rows and their buttons are on the screen.  A page that ignores errors
\* keeps its rows after one.
RowsShown == RowsKept /\ ~failed

-----------------------------------------------------------------------------
\* Dialogs.  An open one covers the page: modal.tsx lays it over the whole
\* window and keeps the focus inside.

Free == form = "closed" /\ ~confirm

MutantOpenForm(editing) ==            \* the row to edit is not set
    /\ Moving
    /\ form' = (IF editing THEN "edit" ELSE "new") /\ target' = FALSE /\ opened' = moves
    /\ UNCHANGED <<page, query, typed, loading, failed, shown, confirm, picked,
                   loads, writes, committed, acked, created, lost, overtaken>>

OpenForm(editing) ==
    /\ Moving
    /\ form' = (IF editing THEN "edit" ELSE "new") /\ target' = editing /\ opened' = moves
    /\ UNCHANGED <<page, query, typed, loading, failed, shown, confirm, picked,
                   loads, writes, committed, acked, created, lost, overtaken>>

\* onClose: `keep' is TRUE where the handler leaves the edited row in place.
CloseForm(keep) ==
    /\ form # "closed" /\ Moving
    /\ form' = "closed" /\ target' = (keep /\ target)
    /\ UNCHANGED <<page, query, typed, loading, failed, shown, confirm, picked, net>>

OpenConfirm ==
    /\ Moving /\ confirm' = TRUE
    /\ UNCHANGED <<page, query, typed, loading, failed, shown, form, target, picked, net>>

CloseConfirm ==
    /\ confirm /\ Moving /\ confirm' = FALSE
    /\ UNCHANGED <<page, query, typed, loading, failed, shown, form, target, picked, net>>

-----------------------------------------------------------------------------
\* Writes.  A write remembers the query of the click: the handler continues
\* in the render that started it.

Send(kind) ==
    /\ Moving
    /\ writes' = writes \cup {[no |-> moves, kind |-> kind, q |-> query, done |-> "sent",
                               opening |-> opened,
                               sees |-> IF kind \in {"status", "tag"} THEN shown ELSE None]}
    /\ UNCHANGED <<page, ui, loads, committed, acked, opened, created, lost, overtaken>>

InFlight(kinds) == \E w \in writes : w.kind \in kinds

MutantSubmitForm(guarded) ==          \* the button stays enabled
    form # "closed" /\ Send(IF target THEN "update" ELSE "create")

\* The submit of a form: a form without a row to edit creates one.
SubmitForm(guarded) ==
    /\ form # "closed"
    /\ guarded => ~InFlight({"create", "update"})
    /\ Send(IF target THEN "update" ELSE "create")

Commit ==
    /\ \E w \in writes :
          /\ w.done = "sent"
          /\ writes' = (writes \ {w}) \cup {[w EXCEPT !.done = "ok"]}
          /\ committed' = committed \cup {w.no}
          /\ created' = IF w.kind = "create" THEN created \cup {<<w.opening, w.no>>} ELSE created
    /\ UNCHANGED <<page, ui, loads, acked, opened, lost, overtaken, moves>>

\* A refusal, or the answer to a committed write that gets lost: an error
\* toast, and the dialogs stay as they are.
Refuse ==
    /\ \E w \in writes :
          /\ w.done = "ok" => lost < MaxLost
          /\ writes' = writes \ {w}
          /\ lost' = IF w.done = "ok" THEN lost + 1 ELSE lost
    /\ UNCHANGED <<page, ui, loads, committed, acked, opened, created, overtaken, moves>>

MutantAcknowledge(w, closes) ==       \* success is shown before the answer
    /\ writes' = writes \ {w} /\ acked' = acked \cup {w.no}
    /\ form'    = IF "form" \in closes THEN "closed" ELSE form
    /\ target'  = IF "target" \in closes THEN FALSE ELSE target
    /\ confirm' = (confirm /\ "confirm" \notin closes)
    /\ UNCHANGED <<typed, committed, opened, created, lost, moves>>

\* The success of a write of one of these kinds; `closes' are the dialogs the
\* handler closes, whatever they show by then.
Acknowledge(w, closes) ==
    /\ w.done = "ok"
    /\ writes' = writes \ {w} /\ acked' = acked \cup {w.no}
    /\ form'    = IF "form" \in closes THEN "closed" ELSE form
    /\ target'  = IF "target" \in closes THEN FALSE ELSE target
    /\ confirm' = (confirm /\ "confirm" \notin closes)
    /\ UNCHANGED <<typed, committed, opened, created, lost, moves>>

\* The handler then calls fetchX().
Settle(kinds, closes) ==
    \E w \in writes :
        /\ w.kind \in kinds /\ Acknowledge(w, closes)
        /\ Refetch(w.q) /\ loading' = TRUE
        /\ UNCHANGED <<page, query, shown, picked>>

MutantSettleInPlace(kinds, closes) == \* the list is not fetched again
    \E w \in writes :
        /\ w.kind \in kinds /\ Acknowledge(w, closes)
        /\ UNCHANGED <<page, query, shown, picked, loading, failed, loads, overtaken>>

\* The same without a spinner.
SettleInPlace(kinds, closes) ==
    \E w \in writes :
        /\ w.kind \in kinds /\ Acknowledge(w, closes)
        /\ Refetch(w.q) /\ UNCHANGED <<page, query, shown, picked, loading>>

-----------------------------------------------------------------------------
\* Controls of a page that no dialog covers.

Steer(change) ==
    /\ Moving /\ change
    /\ UNCHANGED <<page, typed, failed, shown, form, target, confirm, picked,
                   writes, committed, acked, opened, created, lost>>

Control(change) == Free /\ Steer(change)

Type(text) ==
    /\ Free /\ typed # text /\ typed' = text
    /\ UNCHANGED <<page, query, loading, failed, shown, form, target, confirm, picked, net, moves>>

\* handleSearch, and clearSearch on the cross that appears when `clearable'.
Search(clearable) ==
    LET For(text) == [query EXCEPT !.search = text, !.page = 1] IN
    \/ Control(Ask(For(typed)))
    \/ /\ clearable /\ typed' = "" /\ Free /\ Moving /\ Ask(For(""))
       /\ UNCHANGED <<page, failed, shown, form, target, confirm, picked,
                      writes, committed, acked, opened, created, lost>>

\* pagination.tsx: every page number is offered, the current one included.
Turn == \E p \in 1..2 : Control(Ask([query EXCEPT !.page = p]))

\* The button of the error view.
Retry == /\ failed /\ ~loading /\ Free /\ Moving
         /\ Refetch(query) /\ loading' = TRUE
         /\ UNCHANGED <<page, query, typed, shown, form, target, confirm, picked,
                        writes, committed, acked, opened, created, lost>>

\* Initial state of a mounted page: its effect has started the first load.
Mount(spinner, wanted, by) ==
    /\ query = Start /\ typed = "" /\ loading = spinner /\ failed = FALSE /\ shown = None
    /\ loads = (IF wanted THEN {[no |-> 0, q |-> Start, by |-> by, has |-> None]} ELSE {})
    /\ form = "closed" /\ target = FALSE /\ confirm = FALSE /\ picked = FALSE
    /\ writes = {} /\ committed = {} /\ acked = {} /\ opened = 0 /\ created = {}
    /\ moves = 1 /\ lost = 0 /\ overtaken = FALSE

Quiet == loads = {} /\ ~loading /\ ~failed /\ shown # None
=============================================================================
