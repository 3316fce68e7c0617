---------------------------- MODULE AuthSessions ----------------------------
(***************************************************************************)
(* Accounts, passwords and refresh tokens: the handlers of                 *)
(* backend/src/handlers/auth.rs over the tables users, refresh_tokens and  *)
(* password_reset_tokens.                                                  *)
(*                                                                         *)
(* Every handler runs as one request, split where the code awaits a        *)
(* statement that other requests can observe or run between.  PostgreSQL   *)
(* is at READ COMMITTED: an UPDATE works on the rows committed when it     *)
(* began (its snapshot, request field snap), waits for those another       *)
(* transaction has locked, and then applies to what is left of them.  A    *)
(* statement and the COMMIT that follows it are one step; an UPDATE of     *)
(* several rows takes its row locks together, when it applies.             *)
(***************************************************************************)
EXTENDS Integers, FiniteSets

CONSTANTS User,         \* rows the users table can have, one per e-mail
          Password,
          Request,      \* handlers that run at the same time
          ResetToken,   \* password reset tokens that can be mailed
          MaxSecond,    \* bound of the clock
          RefreshTTL,   \* life of a refresh token
          Leeway,       \* slack jsonwebtoken allows on "exp"
          ResetTTL,     \* life of a reset token
          None

ASSUME ClockAssumption ==
    /\ MaxSecond \in Nat /\ RefreshTTL \in Nat
    /\ Leeway \in Nat /\ ResetTTL \in Nat
ASSUME NoneAssumption ==
    /\ None \notin User \cup Password \cup ResetToken
    /\ None \notin User \X (0..MaxSecond)

Second == 0..MaxSecond

(* create_refresh_token_string signs only the user and the expiry second,  *)
(* so the user and the second it is minted in determine the token, and the *)
(* column token_hash is UNIQUE.                                            *)
Token == User \X Second
Owner == [t \in Token |-> t[1]]

PC == {"idle", "store", "register_insert", "create_insert", "rotate", "reuse",
       "change_update", "revoke_start", "revoke", "reset_begin",
       "reset_commit", "delete_lock", "delete_cascade"}

VARIABLES
    now,        \* the clock, in seconds
    account,    \* users: does the row exist, and with which profile
    password,   \* users.password_hash, None without a row
    token,      \* refresh_tokens: no row, or its column revoked
    parent,     \* history: the token each one was exchanged for
    vouch,      \* history: the password the session of a live token began with
    reset,      \* password_reset_tokens
    req         \* the handlers running, one record per request

vars == <<now, account, password, token, parent, vouch, reset, req>>
database == <<account, password, token, parent, vouch, reset>>

Active(u) == account[u] \in {"admin", "member"}
Present(t) == token[t] # "absent"
TokensOf(u) == {t \in Token : Owner[t] = u /\ Present(t)}
LiveOf(u) == {t \in TokensOf(u) : token[t] = "live"}

JwtAccepts(t) == now <= t[2] + RefreshTTL + Leeway
RowExpired(t) == t[2] + RefreshTTL < now

Idle == [pc |-> "idle", user |-> None, pw |-> None, tok |-> None,
         rst |-> None, snap |-> {}]

Busy(pc, u) == [Idle EXCEPT !.pc = pc, !.user = u]

ResetRow == [state : {"unborn", "unused", "used", "gone"},
             user : User \cup {None}, at : Second]

Handler == [pc : PC, user : User \cup {None}, pw : Password \cup {None},
            tok : Token \cup {None}, rst : ResetToken \cup {None},
            snap : SUBSET Token]

TypeOK ==
    /\ now \in Second
    /\ account \in [User -> {"unborn", "admin", "member", "deleted"}]
    /\ password \in [User -> Password \cup {None}]
    /\ token \in [Token -> {"absent", "live", "revoked"}]
    /\ parent \in [Token -> Token \cup {None}]
    /\ vouch \in [Token -> Password \cup {None}]
    /\ reset \in [ResetToken -> ResetRow]
    /\ req \in [Request -> Handler]
    /\ \A u \in User : Active(u) <=> password[u] # None
    /\ \A x \in ResetToken : reset[x].state = "unused" <=> reset[x].user # None

Init ==
    /\ now = 0
    /\ account \in [User -> {"unborn", "member"}]
    /\ \E p \in Password :
           password = [u \in User |-> IF account[u] = "unborn" THEN None ELSE p]
    /\ token = [t \in Token |-> "absent"]
    /\ parent = [t \in Token |-> None]
    /\ vouch = [t \in Token |-> None]
    /\ reset = [x \in ResetToken |-> [state |-> "unborn", user |-> None, at |-> 0]]
    /\ req = [r \in Request |-> Idle]

-----------------------------------------------------------------------------
(* Locks held by open transactions. *)

(* SELECT ... FOR UPDATE holds the row of the presented token. *)
RowHolders(t) ==
    {r \in Request : req[r].pc \in {"rotate", "reuse"} /\ req[r].tok = t}

(* An open UPDATE or DELETE of the users row. *)
UserHolders(u) ==
    {r \in Request : req[r].pc \in {"reset_commit", "delete_cascade"}
                     /\ req[r].user = u}

(* An INSERT that references the users row waits only for its DELETE. *)
Deleters(u) == {r \in UserHolders(u) : req[r].pc = "delete_cascade"}

(* The requests whose locks request r is waiting for. *)
WaitsFor(r) ==
    CASE req[r].pc \in {"reuse", "revoke", "reset_commit"} ->
             (UNION {RowHolders(t) : t \in req[r].snap}) \ {r}
      [] req[r].pc = "delete_cascade" ->
             UNION {RowHolders(t) : t \in TokensOf(req[r].user)}
      [] req[r].pc \in {"store", "rotate"} -> Deleters(req[r].user)
      [] req[r].pc \in {"change_update", "reset_begin", "delete_lock"} ->
             UserHolders(req[r].user)
      [] OTHER -> {}

At(r, pc) == req[r].pc = pc /\ WaitsFor(r) = {}
Become(r, what) == req' = [req EXCEPT ![r] = what]
Goto(r, pc) == Become(r, [req[r] EXCEPT !.pc = pc])
Return(r) == Become(r, Idle)

-----------------------------------------------------------------------------
(* register: the advisory lock is held from the check to the commit. *)

MutantRegisterCheck(r, u, p) ==       \* no pg_advisory_xact_lock
    /\ At(r, "idle")
    /\ \A v \in User : ~Active(v)
    /\ account[u] = "unborn"
    /\ Become(r, [Busy("register_insert", u) EXCEPT !.pw = p])
    /\ UNCHANGED <<now, database>>

RegisterCheck(r, u, p) ==
    /\ At(r, "idle")
    /\ \A s \in Request : req[s].pc # "register_insert"
    /\ \A v \in User : ~Active(v)
    /\ account[u] = "unborn"
    /\ Become(r, [Busy("register_insert", u) EXCEPT !.pw = p])
    /\ UNCHANGED <<now, database>>

(* The e-mail is UNIQUE: a row inserted meanwhile turns this into a 409. *)
Insert(r, profile, next) ==
    LET u == req[r].user
    IN  IF account[u] = "unborn"
        THEN /\ account' = [account EXCEPT ![u] = profile]
             /\ password' = [password EXCEPT ![u] = req[r].pw]
             /\ Become(r, next)
        ELSE /\ Return(r)
             /\ UNCHANGED <<account, password>>

RegisterInsert(r) ==
    /\ At(r, "register_insert")
    /\ Insert(r, "admin", [req[r] EXCEPT !.pc = "store"])
    /\ UNCHANGED <<now, token, parent, vouch, reset>>

(* create_user: the caller's token and cached permissions outlive its row. *)
CreateUser(r, u, p) ==
    /\ At(r, "idle")
    /\ \E c \in User : account[c] # "unborn"
    /\ account[u] = "unborn"
    /\ Become(r, [Busy("create_insert", u) EXCEPT !.pw = p])
    /\ UNCHANGED <<now, database>>

CreateInsert(r) ==
    /\ At(r, "create_insert")
    /\ Insert(r, "member", Idle)
    /\ UNCHANGED <<now, token, parent, vouch, reset>>

-----------------------------------------------------------------------------
(* login: the password is verified against the row that was read; the      *)
(* token is stored later, by a statement of its own.                       *)
Login(r, u) ==
    /\ At(r, "idle")
    /\ Active(u)
    /\ Become(r, [Busy("store", u) EXCEPT !.pw = password[u]])
    /\ UNCHANGED <<now, database>>

MutantStoreToken(r) ==                \* the hash is not UNIQUE: an upsert
    LET u == req[r].user
        t == <<u, now>>
    IN  /\ At(r, "store")
        /\ IF Active(u)
           THEN /\ token' = [token EXCEPT ![t] = "live"]
                /\ vouch' = [vouch EXCEPT ![t] = req[r].pw]
           ELSE UNCHANGED <<token, vouch>>
        /\ Return(r)
        /\ UNCHANGED <<now, account, password, parent, reset>>

(* store_refresh_token fails when the user is gone (foreign key) or has a  *)
(* token minted in this very second (unique hash).                         *)
StoreToken(r) ==
    LET u == req[r].user
        t == <<u, now>>
    IN  /\ At(r, "store")
        /\ IF Active(u) /\ ~Present(t)
           THEN /\ token' = [token EXCEPT ![t] = "live"]
                /\ vouch' = [vouch EXCEPT ![t] = req[r].pw]
           ELSE UNCHANGED <<token, vouch>>
        /\ Return(r)
        /\ UNCHANGED <<now, account, password, parent, reset>>

-----------------------------------------------------------------------------
(* refresh_token: the row is locked and checked, then exchanged. *)
MutantRefreshLock(r, t) ==            \* no FOR UPDATE
    /\ At(r, "idle")
    /\ JwtAccepts(t)
    /\ token[t] = "live" /\ ~RowExpired(t)
    /\ Become(r, [Busy("rotate", Owner[t]) EXCEPT !.tok = t])
    /\ UNCHANGED <<now, database>>

RefreshLock(r, t) ==
    /\ At(r, "idle")
    /\ JwtAccepts(t)
    /\ token[t] = "live" /\ ~RowExpired(t)
    /\ RowHolders(t) = {}
    /\ Become(r, [Busy("rotate", Owner[t]) EXCEPT !.tok = t])
    /\ UNCHANGED <<now, database>>

MutantRefreshRotate(r) ==             \* the presented token is not revoked
    LET t == req[r].tok
        n == <<Owner[t], now>>
    IN  /\ At(r, "rotate")
        /\ IF Active(Owner[t]) /\ ~Present(n)
           THEN /\ token' = [token EXCEPT ![n] = "live"]
                /\ parent' = [parent EXCEPT ![n] = t]
                /\ vouch' = [vouch EXCEPT ![n] = vouch[t]]
           ELSE UNCHANGED <<token, parent, vouch>>
        /\ Return(r)
        /\ UNCHANGED <<now, account, password, reset>>

(* A token of the same second makes the INSERT fail and rolls back. *)
RefreshRotate(r) ==
    LET t == req[r].tok
        n == <<Owner[t], now>>
    IN  /\ At(r, "rotate")
        /\ IF Active(Owner[t]) /\ ~Present(n)
           THEN /\ token' = [token EXCEPT ![t] = "revoked", ![n] = "live"]
                /\ parent' = [parent EXCEPT ![n] = t]
                /\ vouch' = [vouch EXCEPT ![t] = None, ![n] = vouch[t]]
           ELSE UNCHANGED <<token, parent, vouch>>
        /\ Return(r)
        /\ UNCHANGED <<now, account, password, reset>>

(* A revoked token was presented: every token of the user is revoked. *)
RefreshReuse(r, t) ==
    /\ At(r, "idle")
    /\ JwtAccepts(t)
    /\ token[t] = "revoked"
    /\ RowHolders(t) = {}
    /\ Become(r, [Busy("reuse", Owner[t]) EXCEPT !.tok = t,
                                                 !.snap = TokensOf(Owner[t])])
    /\ UNCHANGED <<now, database>>

RevokeRows(S) ==
    /\ token' = [t \in Token |-> IF t \in S /\ Present(t) THEN "revoked" ELSE token[t]]
    /\ vouch' = [t \in Token |-> IF t \in S THEN None ELSE vouch[t]]

MutantReuseApply(r) ==                \* the transaction is never finished
    /\ At(r, "reuse")
    /\ RevokeRows(req[r].snap)
    /\ UNCHANGED <<now, account, password, parent, reset, req>>

ReuseApply(r) ==
    /\ At(r, "reuse")
    /\ RevokeRows(req[r].snap)
    /\ Return(r)
    /\ UNCHANGED <<now, account, password, parent, reset>>

-----------------------------------------------------------------------------
(* logout and change_password end in the same UPDATE of refresh_tokens. *)
Logout(r, u) ==
    /\ At(r, "idle")
    /\ account[u] # "unborn"          \* an access token outlives its user
    /\ Become(r, Busy("revoke_start", u))
    /\ UNCHANGED <<now, database>>

RevokeStart(r) ==
    /\ At(r, "revoke_start")
    /\ Become(r, [req[r] EXCEPT !.pc = "revoke", !.snap = LiveOf(req[r].user)])
    /\ UNCHANGED <<now, database>>

RevokeApply(r) ==
    /\ At(r, "revoke")
    /\ RevokeRows(req[r].snap)
    /\ Return(r)
    /\ UNCHANGED <<now, account, password, parent, reset>>

ChangePassword(r, u, p) ==
    /\ At(r, "idle")
    /\ Active(u)
    /\ Become(r, [Busy("change_update", u) EXCEPT !.pw = p])
    /\ UNCHANGED <<now, database>>

MutantSetPassword(u, p) ==            \* an upsert instead of an update
    password' = [password EXCEPT ![u] = p]

SetPassword(u, p) ==
    password' = IF Active(u) THEN [password EXCEPT ![u] = p] ELSE password

ChangeUpdate(r) ==
    /\ At(r, "change_update")
    /\ SetPassword(req[r].user, req[r].pw)
    /\ Become(r, [req[r] EXCEPT !.pc = "revoke_start", !.pw = None])
    /\ UNCHANGED <<now, account, token, parent, vouch, reset>>

-----------------------------------------------------------------------------
(* forgot_password and reset_password *)
ForgotPassword(u, x) ==
    /\ Active(u)
    /\ reset[x].state = "unborn"
    /\ reset' = [reset EXCEPT ![x] = [state |-> "unused", user |-> u, at |-> now]]
    /\ UNCHANGED <<now, account, password, token, parent, vouch, req>>

(* A row no reset can use any more: its other columns do not matter. *)
Spent(state) == [state |-> state, user |-> None, at |-> 0]

(* The checks run on a row that is read without a lock, before the bcrypt. *)
ResetPassword(r, x, p) ==
    /\ At(r, "idle")
    /\ reset[x].state = "unused"
    /\ now <= reset[x].at + ResetTTL
    /\ Become(r, [Busy("reset_begin", reset[x].user) EXCEPT !.pw = p, !.rst = x])
    /\ UNCHANGED <<now, database>>

ResetBegin(r) ==
    /\ At(r, "reset_begin")
    /\ Become(r, [req[r] EXCEPT !.pc = "reset_commit", !.snap = LiveOf(req[r].user)])
    /\ UNCHANGED <<now, database>>

ResetCommit(r) ==
    LET x == req[r].rst
    IN  /\ At(r, "reset_commit")
        /\ SetPassword(req[r].user, req[r].pw)
        /\ reset' = IF reset[x].state = "gone"
                    THEN reset ELSE [reset EXCEPT ![x] = Spent("used")]
        /\ RevokeRows(req[r].snap)
        /\ Return(r)
        /\ UNCHANGED <<now, account, parent>>

-----------------------------------------------------------------------------
(* delete_user: the caller is someone else, or was. *)
DeleteUser(r, u) ==
    /\ At(r, "idle")
    /\ \E c \in User \ {u} : account[c] # "unborn"
    /\ Become(r, Busy("delete_lock", u))
    /\ UNCHANGED <<now, database>>

DeleteLock(r) ==
    /\ At(r, "delete_lock")
    /\ IF Active(req[r].user) THEN Goto(r, "delete_cascade") ELSE Return(r)
    /\ UNCHANGED <<now, database>>

(* ON DELETE CASCADE takes the user's refresh and reset tokens along. *)
DeleteCascade(r) ==
    LET u == req[r].user
    IN  /\ At(r, "delete_cascade")
        /\ account' = [account EXCEPT ![u] = "deleted"]
        /\ password' = [password EXCEPT ![u] = None]
        /\ token' = [t \in Token |-> IF Owner[t] = u THEN "absent" ELSE token[t]]
        /\ parent' = [t \in Token |-> IF Owner[t] = u THEN None ELSE parent[t]]
        /\ vouch' = [t \in Token |-> IF Owner[t] = u THEN None ELSE vouch[t]]
        /\ reset' = [x \in ResetToken |->
                        IF reset[x].user = u
                        THEN Spent("gone") ELSE reset[x]]
        /\ Return(r)
        /\ UNCHANGED now

-----------------------------------------------------------------------------
(* The environment. *)

(* The client hangs up, or the server dies: the handler stops at an await  *)
(* and its open transaction is rolled back.                                *)
Abandon(r) ==
    /\ req[r].pc # "idle"
    /\ Return(r)
    /\ UNCHANGED <<now, database>>

(* PostgreSQL aborts one of two transactions that wait for each other. *)
DeadlockAbort(r) ==
    /\ \E s \in WaitsFor(r) : r \in WaitsFor(s)
    /\ Return(r)
    /\ UNCHANGED <<now, database>>

Tick ==
    /\ now < MaxSecond
    /\ now' = now + 1
    /\ UNCHANGED <<database, req>>

Start(r) ==
    \/ \E u \in User, p \in Password :
           RegisterCheck(r, u, p) \/ CreateUser(r, u, p) \/ ChangePassword(r, u, p)
    \/ \E u \in User : Login(r, u) \/ Logout(r, u) \/ DeleteUser(r, u)
    \/ \E t \in Token : RefreshLock(r, t) \/ RefreshReuse(r, t)
    \/ \E x \in ResetToken, p \in Password : ResetPassword(r, x, p)

Continue(r) ==
    \/ RegisterInsert(r) \/ CreateInsert(r) \/ StoreToken(r)
    \/ RefreshRotate(r)  \/ ReuseApply(r)
    \/ ChangeUpdate(r)   \/ RevokeStart(r)  \/ RevokeApply(r)
    \/ ResetBegin(r)     \/ ResetCommit(r)
    \/ DeleteLock(r)     \/ DeleteCascade(r)

Step ==
    \/ \E r \in Request : Start(r) \/ Continue(r) \/ DeadlockAbort(r)
    \/ \E u \in User, x \in ResetToken : ForgotPassword(u, x)
    \/ Tick

Next == Step \/ \E r \in Request : Abandon(r)

Spec == Init /\ [][Next]_vars

(* PostgreSQL hands out locks in the order they were asked for, so a       *)
(* request that could go on again and again does go on.                    *)
Fairness == \A r \in Request : /\ SF_vars(Continue(r))
                               /\ WF_vars(DeadlockAbort(r))

FairSpec == Spec /\ Fairness

(* No request is cut short. *)
UninterruptedSpec == Init /\ [][Step]_vars /\ Fairness

-----------------------------------------------------------------------------
(* Properties *)

Store == INSTANCE SessionStore WITH NoToken <- None

(* The handlers implement the token store: rotation is indivisible and     *)
(* happens once per token, and no interleaving of refresh, logout, resets  *)
(* and deletions brings a revoked token back.                              *)
StoreSpec == Store!StoreSpec

(* Two concurrent refreshes of one token never both get a successor, also  *)
(* when a logout, a reuse detection or a deletion runs between them.       *)
SingleSuccessor == Store!SingleSuccessor

(* register: "two concurrent registrations on an empty users table would   *)
(* both see no users and create two admins" does not happen, with other    *)
(* users being created and deleted meanwhile.                              *)
OneBootstrapAdmin ==
    \A u, v \in User : account[u] = "admin" /\ account[v] = "admin" => u = v

(* No request waits for ever: every cycle of locks the handlers can close  *)
(* is one the database breaks by aborting one of two transactions.         *)
EveryRequestEnds == \A r \in Request : []<>(req[r].pc = "idle")

(* README: changing the password revokes all refresh tokens.  With no      *)
(* change of the password under way, a live token belongs to a session     *)
(* that began with the current password.                                   *)
NoSessionOutlivesPassword ==
    \A t \in Token :
        /\ token[t] = "live"
        /\ \A r \in Request : req[r].user = Owner[t] =>
               req[r].pc \notin {"revoke_start", "revoke", "reset_commit"}
        => vouch[t] = password[Owner[t]]

(* reset_password answers "Token already used" to the second use of a      *)
(* token: a reset that commits finds its token unused.                     *)
ResetTokenSingleUse ==
    [][\A r \in Request : ResetCommit(r) => reset[req[r].rst].state # "used"]_vars
=============================================================================
