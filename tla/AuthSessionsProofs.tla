------------------------- MODULE AuthSessionsProofs -------------------------
(***************************************************************************)
(* Proofs about AuthSessions, for every set of users, requests and tokens  *)
(* and every clock bound.                                                  *)
(***************************************************************************)
EXTENDS AuthSessions, TLAPS

USE DEF Second

(* What a handler remembers while it is at a given point. *)
HandlerOK(h) ==
    /\ h.pc # "idle" => h.user \in User
    /\ h.pc \in {"store", "register_insert", "create_insert", "change_update",
                 "reset_begin", "reset_commit"} => h.pw \in Password
    /\ h.pc \in {"rotate", "reuse"} => h.tok \in Token /\ h.user = Owner[h.tok]
    /\ h.pc \in {"reset_begin", "reset_commit"} => h.rst \in ResetToken
    /\ \A t \in h.snap : Owner[t] = h.user

HandlersOK == \A r \in Request : HandlerOK(req[r])

(* FOR UPDATE excludes: the locked row stays as it was when it was locked. *)
LockedRow(r) ==
    /\ req[r].pc = "rotate" => token[req[r].tok] = "live"
    /\ req[r].pc = "reuse" => token[req[r].tok] = "revoked"

LocksExclude ==
    \A r, s \in Request :
        /\ req[r].pc \in {"rotate", "reuse"}
        /\ req[s].pc \in {"rotate", "reuse"}
        /\ req[r].tok = req[s].tok
        => r = s

LocksOK == LocksExclude /\ \A r \in Request : LockedRow(r)

(* The advisory lock excludes, and no administrator exists while it is held. *)
BootstrapOK ==
    /\ \A r, s \in Request :
           req[r].pc = "register_insert" /\ req[s].pc = "register_insert" => r = s
    /\ \A r \in Request, u \in User :
           req[r].pc = "register_insert" => account[u] # "admin"

IInv == TypeOK /\ HandlersOK /\ LocksOK /\ BootstrapOK /\ OneBootstrapAdmin

-----------------------------------------------------------------------------
(* Handlers as values. *)

LEMMA IdleOK == Idle \in Handler /\ HandlerOK(Idle)
BY DEF Idle, Handler, PC, HandlerOK

LEMMA OwnerType == \A t \in Token : Owner[t] \in User /\ Owner[t] = t[1]
BY DEF Token, Owner

LEMMA TokenOfUser ==
    ASSUME NEW u \in User, NEW n \in Second
    PROVE  <<u, n>> \in Token /\ Owner[<<u, n>>] = u
BY DEF Token, Owner

LEMMA BusyOK ==
    ASSUME NEW pc \in {"revoke_start", "delete_lock"}, NEW u \in User
    PROVE  Busy(pc, u) \in Handler /\ HandlerOK(Busy(pc, u))
BY DEF Busy, Idle, Handler, PC, HandlerOK

LEMMA BusyWithPassword ==
    ASSUME NEW pc \in {"store", "register_insert", "create_insert", "change_update"},
           NEW u \in User, NEW p \in Password
    PROVE  LET h == [Busy(pc, u) EXCEPT !.pw = p]
           IN  h \in Handler /\ HandlerOK(h) /\ h.pc = pc
BY DEF Busy, Idle, Handler, PC, HandlerOK

LEMMA BusyWithToken ==
    ASSUME NEW t \in Token
    PROVE  LET h == [Busy("rotate", Owner[t]) EXCEPT !.tok = t]
           IN  h \in Handler /\ HandlerOK(h) /\ h.pc = "rotate" /\ h.tok = t
<1>1. Owner[t] \in User
  BY OwnerType
<1> QED BY <1>1 DEF Busy, Idle, Handler, PC, HandlerOK

LEMMA BusyWithSnapshot ==
    ASSUME NEW t \in Token
    PROVE  LET h == [Busy("reuse", Owner[t]) EXCEPT !.tok = t,
                                                    !.snap = TokensOf(Owner[t])]
           IN  h \in Handler /\ HandlerOK(h) /\ h.pc = "reuse" /\ h.tok = t
<1>1. Owner[t] \in User
  BY OwnerType
<1>2. TokensOf(Owner[t]) \subseteq Token /\ \A s \in TokensOf(Owner[t]) : Owner[s] = Owner[t]
  BY DEF TokensOf
<1> QED BY <1>1, <1>2 DEF Busy, Idle, Handler, PC, HandlerOK

LEMMA BusyWithReset ==
    ASSUME NEW u \in User, NEW p \in Password, NEW x \in ResetToken
    PROVE  LET h == [Busy("reset_begin", u) EXCEPT !.pw = p, !.rst = x]
           IN  h \in Handler /\ HandlerOK(h) /\ h.pc = "reset_begin"
BY DEF Busy, Idle, Handler, PC, HandlerOK

(* A handler that moves to h leaves the other handlers alone. *)
LEMMA BecomeOK ==
    ASSUME TypeOK, HandlersOK, NEW r \in Request, NEW h,
           h \in Handler, HandlerOK(h), Become(r, h)
    PROVE  /\ req' \in [Request -> Handler]
           /\ HandlersOK'
           /\ req'[r] = h
           /\ \A s \in Request \ {r} : req'[s] = req[s]
<1>1. req' = [req EXCEPT ![r] = h] /\ req \in [Request -> Handler]
  BY DEF Become, TypeOK
<1>2. /\ req' \in [Request -> Handler]
      /\ req'[r] = h
      /\ \A s \in Request \ {r} : req'[s] = req[s]
  BY <1>1
<1>3. \A s \in Request : HandlerOK(req'[s])
  BY <1>2 DEF HandlersOK
<1> QED BY <1>2, <1>3 DEF HandlersOK, HandlerOK

LEMMA RevokeRowsType ==
    ASSUME TypeOK, NEW S, RevokeRows(S)
    PROVE  /\ token' \in [Token -> {"absent", "live", "revoked"}]
           /\ vouch' \in [Token -> Password \cup {None}]
BY DEF TypeOK, RevokeRows

LEMMA RevokeRowsEffect ==
    ASSUME NEW S, RevokeRows(S), NEW t \in Token
    PROVE  token'[t] = IF t \in S /\ Present(t) THEN "revoked" ELSE token[t]
BY DEF RevokeRows

LEMMA TypeInit == Init => TypeOK /\ HandlersOK
<1> SUFFICES ASSUME Init PROVE TypeOK /\ HandlersOK
  OBVIOUS
<1>1. PICK p \in Password :
        password = [u \in User |-> IF account[u] = "unborn" THEN None ELSE p]
  BY DEF Init
<1>2. TypeOK
  BY <1>1, NoneAssumption, ClockAssumption, IdleOK DEF Init, TypeOK, ResetRow, Active
<1>3. HandlersOK
  BY IdleOK DEF Init, HandlersOK
<1> QED BY <1>2, <1>3

(* Steps that change nothing but the record of handler r. *)
LEMMA MoveType ==
    ASSUME TypeOK, HandlersOK, NEW r \in Request, NEW h,
           h \in Handler, HandlerOK(h), Become(r, h), UNCHANGED <<now, database>>
    PROVE  TypeOK' /\ HandlersOK'
<1>1. req' \in [Request -> Handler] /\ HandlersOK'
  BY BecomeOK
<1> QED BY <1>1 DEF TypeOK, database, Active

LEMMA StartType ==
    ASSUME TypeOK, HandlersOK, NEW r \in Request, Start(r)
    PROVE  TypeOK' /\ HandlersOK'
<1>1. ASSUME NEW u \in User, NEW p \in Password,
             RegisterCheck(r, u, p) \/ CreateUser(r, u, p) \/ ChangePassword(r, u, p)
      PROVE  TypeOK' /\ HandlersOK'
  <2>1. PICK pc \in {"register_insert", "create_insert", "change_update"} :
          /\ Become(r, [Busy(pc, u) EXCEPT !.pw = p])
          /\ UNCHANGED <<now, database>>
    BY <1>1 DEF RegisterCheck, CreateUser, ChangePassword
  <2> QED BY <2>1, BusyWithPassword, MoveType
<1>2. ASSUME NEW u \in User, Login(r, u)
      PROVE  TypeOK' /\ HandlersOK'
  <2>1. password[u] \in Password
    BY <1>2 DEF TypeOK, Login
  <2> QED BY <1>2, <2>1, BusyWithPassword, MoveType DEF Login
<1>3. ASSUME NEW u \in User, Logout(r, u) \/ DeleteUser(r, u)
      PROVE  TypeOK' /\ HandlersOK'
  BY <1>3, BusyOK, MoveType DEF Logout, DeleteUser
<1>4. ASSUME NEW t \in Token, RefreshLock(r, t)
      PROVE  TypeOK' /\ HandlersOK'
  BY <1>4, BusyWithToken, MoveType DEF RefreshLock
<1>5. ASSUME NEW t \in Token, RefreshReuse(r, t)
      PROVE  TypeOK' /\ HandlersOK'
  BY <1>5, BusyWithSnapshot, MoveType DEF RefreshReuse
<1>6. ASSUME NEW x \in ResetToken, NEW p \in Password, ResetPassword(r, x, p)
      PROVE  TypeOK' /\ HandlersOK'
  <2>1. reset[x].user \in User
    BY <1>6 DEF TypeOK, ResetRow, ResetPassword
  <2> QED BY <1>6, <2>1, BusyWithReset, MoveType DEF ResetPassword
<1> QED BY <1>1, <1>2, <1>3, <1>4, <1>5, <1>6 DEF Start

LEMMA InsertType ==
    ASSUME TypeOK, HandlersOK, NEW r \in Request,
           RegisterInsert(r) \/ CreateInsert(r)
    PROVE  TypeOK' /\ HandlersOK'
<1>1. req[r] \in Handler /\ HandlerOK(req[r]) /\ req[r].pc \in {"register_insert", "create_insert"}
  BY DEF TypeOK, HandlersOK, RegisterInsert, CreateInsert, At
<1> DEFINE h == [req[r] EXCEPT !.pc = "store"]
<1>2. h \in Handler /\ HandlerOK(h)
  BY <1>1 DEF Handler, HandlerOK, PC
<1>3. PICK profile \in {"admin", "member"}, next \in {h, Idle} :
        /\ Insert(r, profile, next)
        /\ UNCHANGED <<now, token, parent, vouch, reset>>
  BY DEF RegisterInsert, CreateInsert
<1>4. next \in Handler /\ HandlerOK(next)
  BY <1>2, <1>3, IdleOK
<1>5. \E g \in {next, Idle} : Become(r, g)
  BY <1>3 DEF Insert, Return
<1>6. req' \in [Request -> Handler] /\ HandlersOK'
  BY <1>4, <1>5, IdleOK, BecomeOK
<1>7. req[r].user \in User /\ req[r].pw \in Password
  BY <1>1 DEF HandlerOK
<1>8. /\ account' \in [User -> {"unborn", "admin", "member", "deleted"}]
      /\ password' \in [User -> Password \cup {None}]
      /\ \A u \in User : Active(u)' <=> password'[u] # None
  BY <1>3, <1>7, NoneAssumption DEF Insert, TypeOK, Active
<1> QED BY <1>3, <1>6, <1>8 DEF TypeOK
LEMMA ReturnType ==
    ASSUME TypeOK, HandlersOK, NEW r \in Request, Return(r)
    PROVE  req' \in [Request -> Handler] /\ HandlersOK' /\ req'[r] = Idle
BY IdleOK, BecomeOK DEF Return

LEMMA SetPasswordType ==
    ASSUME TypeOK, NEW u \in User, NEW p \in Password, SetPassword(u, p),
           UNCHANGED account
    PROVE  /\ password' \in [User -> Password \cup {None}]
           /\ \A v \in User : Active(v)' <=> password'[v] # None
BY NoneAssumption DEF TypeOK, SetPassword, Active

LEMMA SessionType ==
    ASSUME TypeOK, HandlersOK, NEW r \in Request, StoreToken(r) \/ RefreshRotate(r)
    PROVE  TypeOK' /\ HandlersOK'
<1>1. req' \in [Request -> Handler] /\ HandlersOK'
  BY ReturnType DEF StoreToken, RefreshRotate
<1>2. CASE StoreToken(r)
  <2>1. req[r].pw \in Password
    BY <1>2 DEF StoreToken, At, HandlersOK, HandlerOK
  <2>2. /\ token' \in [Token -> {"absent", "live", "revoked"}]
        /\ vouch' \in [Token -> Password \cup {None}]
    BY <1>2, <2>1 DEF StoreToken, TypeOK
  <2> QED BY <1>1, <1>2, <2>2 DEF StoreToken, TypeOK, Active
<1>3. CASE RefreshRotate(r)
  <2>1. req[r].tok \in Token
    BY <1>3 DEF RefreshRotate, At, HandlersOK, HandlerOK
  <2>2. /\ token' \in [Token -> {"absent", "live", "revoked"}]
        /\ parent' \in [Token -> Token \cup {None}]
        /\ vouch' \in [Token -> Password \cup {None}]
    BY <1>3, <2>1 DEF RefreshRotate, TypeOK
  <2> QED BY <1>1, <1>3, <2>2 DEF RefreshRotate, TypeOK, Active
<1> QED BY <1>2, <1>3

LEMMA RevokeType ==
    ASSUME TypeOK, HandlersOK, NEW r \in Request, ReuseApply(r) \/ RevokeApply(r)
    PROVE  TypeOK' /\ HandlersOK'
<1>1. req' \in [Request -> Handler] /\ HandlersOK'
  BY ReturnType DEF ReuseApply, RevokeApply
<1> QED BY <1>1, RevokeRowsType DEF ReuseApply, RevokeApply, TypeOK, Active

LEMMA SnapshotType ==
    ASSUME TypeOK, HandlersOK, NEW r \in Request, RevokeStart(r) \/ ResetBegin(r)
    PROVE  TypeOK' /\ HandlersOK'
<1> DEFINE S == LiveOf(req[r].user)
           h == [req[r] EXCEPT !.pc = "revoke", !.snap = S]
           g == [req[r] EXCEPT !.pc = "reset_commit", !.snap = S]
<1>1. req[r] \in Handler /\ HandlerOK(req[r])
  BY DEF TypeOK, HandlersOK
<1>2. S \subseteq Token /\ \A t \in S : Owner[t] = req[r].user
  BY DEF LiveOf, TokensOf
<1>3. CASE RevokeStart(r)
  <2>1. h \in Handler
    BY <1>1, <1>2 DEF Handler, PC
  <2>2. HandlerOK(h)
    BY <1>1, <1>2, <1>3 DEF Handler, HandlerOK, RevokeStart, At
  <2> QED BY <1>3, <2>1, <2>2, MoveType DEF RevokeStart
<1>4. CASE ResetBegin(r)
  <2>1. g \in Handler
    BY <1>1, <1>2 DEF Handler, PC
  <2>2. HandlerOK(g)
    BY <1>1, <1>2, <1>4 DEF Handler, HandlerOK, ResetBegin, At
  <2> QED BY <1>4, <2>1, <2>2, MoveType DEF ResetBegin
<1> QED BY <1>3, <1>4

LEMMA PasswordType ==
    ASSUME TypeOK, HandlersOK, NEW r \in Request, ChangeUpdate(r) \/ ResetCommit(r)
    PROVE  TypeOK' /\ HandlersOK'
<1>1. req[r] \in Handler /\ HandlerOK(req[r])
  BY DEF TypeOK, HandlersOK
<1>2. req[r].user \in User /\ req[r].pw \in Password
  BY <1>1 DEF HandlerOK, ChangeUpdate, ResetCommit, At
<1>3. /\ password' \in [User -> Password \cup {None}]
      /\ \A v \in User : Active(v)' <=> password'[v] # None
  BY <1>2, SetPasswordType DEF ChangeUpdate, ResetCommit
<1>4. CASE ChangeUpdate(r)
  <2> DEFINE h == [req[r] EXCEPT !.pc = "revoke_start", !.pw = None]
  <2>1. h \in Handler /\ HandlerOK(h)
    BY <1>1, <1>2 DEF Handler, HandlerOK, PC
  <2>2. req' \in [Request -> Handler] /\ HandlersOK'
    BY <1>4, <2>1, BecomeOK DEF ChangeUpdate
  <2> QED BY <1>3, <1>4, <2>2 DEF ChangeUpdate, TypeOK
<1>5. CASE ResetCommit(r)
  <2>1. req' \in [Request -> Handler] /\ HandlersOK'
    BY <1>5, ReturnType DEF ResetCommit
  <2>2. req[r].rst \in ResetToken
    BY <1>1, <1>5 DEF HandlerOK, ResetCommit, At
  <2>3. /\ reset' \in [ResetToken -> ResetRow]
        /\ \A x \in ResetToken : reset'[x].state = "unused" <=> reset'[x].user # None
    BY <1>5, <2>2, ClockAssumption DEF ResetCommit, TypeOK, ResetRow, Spent
  <2> QED BY <1>3, <1>5, <2>1, <2>3, RevokeRowsType DEF ResetCommit, TypeOK
<1> QED BY <1>4, <1>5

LEMMA DeleteType ==
    ASSUME TypeOK, HandlersOK, NEW r \in Request, DeleteLock(r) \/ DeleteCascade(r)
    PROVE  TypeOK' /\ HandlersOK'
<1>1. req[r] \in Handler /\ HandlerOK(req[r])
  BY DEF TypeOK, HandlersOK
<1>2. CASE DeleteLock(r)
  <2> DEFINE h == [req[r] EXCEPT !.pc = "delete_cascade"]
  <2>1. h \in Handler
    BY <1>1 DEF Handler, PC
  <2>2. HandlerOK(h)
    BY <1>1, <1>2 DEF Handler, HandlerOK, DeleteLock, At
  <2> QED BY <1>2, <2>1, <2>2, IdleOK, MoveType DEF DeleteLock, Goto, Return
<1>3. CASE DeleteCascade(r)
  <2>1. req' \in [Request -> Handler] /\ HandlersOK'
    BY <1>3, ReturnType DEF DeleteCascade
  <2>2. req[r].user \in User
    BY <1>1, <1>3 DEF HandlerOK, DeleteCascade, At
  <2>3. /\ account' \in [User -> {"unborn", "admin", "member", "deleted"}]
        /\ password' \in [User -> Password \cup {None}]
        /\ \A v \in User : Active(v)' <=> password'[v] # None
    BY <1>3, <2>2 DEF DeleteCascade, TypeOK, Active
  <2>4. /\ token' \in [Token -> {"absent", "live", "revoked"}]
        /\ parent' \in [Token -> Token \cup {None}]
        /\ vouch' \in [Token -> Password \cup {None}]
    BY <1>3 DEF DeleteCascade, TypeOK
  <2>5. /\ reset' \in [ResetToken -> ResetRow]
        /\ \A x \in ResetToken : reset'[x].state = "unused" <=> reset'[x].user # None
    BY <1>3, ClockAssumption DEF DeleteCascade, TypeOK, ResetRow, Spent
  <2> QED BY <1>3, <2>1, <2>3, <2>4, <2>5 DEF DeleteCascade, TypeOK
<1> QED BY <1>2, <1>3

LEMMA TypeNext ==
    ASSUME TypeOK, HandlersOK, [Next]_vars
    PROVE  TypeOK' /\ HandlersOK'
<1>1. ASSUME NEW r \in Request, Continue(r)
      PROVE  TypeOK' /\ HandlersOK'
  BY <1>1, InsertType, SessionType, RevokeType, SnapshotType, PasswordType, DeleteType
     DEF Continue
<1>2. ASSUME NEW r \in Request, DeadlockAbort(r) \/ Abandon(r)
      PROVE  TypeOK' /\ HandlersOK'
  BY <1>2, IdleOK, MoveType DEF DeadlockAbort, Abandon, Return
<1>3. ASSUME NEW u \in User, NEW x \in ResetToken, ForgotPassword(u, x)
      PROVE  TypeOK' /\ HandlersOK'
  <2>1. /\ reset' \in [ResetToken -> ResetRow]
        /\ \A y \in ResetToken : reset'[y].state = "unused" <=> reset'[y].user # None
    BY <1>3, NoneAssumption DEF ForgotPassword, TypeOK, ResetRow
  <2> QED BY <1>3, <2>1 DEF ForgotPassword, TypeOK, HandlersOK, Active
<1>4. CASE Tick
  <2>1. now' \in Second
    BY <1>4, ClockAssumption DEF Tick, TypeOK
  <2> QED BY <1>4, <2>1 DEF Tick, database, TypeOK, HandlersOK, Active
<1>5. CASE UNCHANGED vars
  BY <1>5 DEF vars, TypeOK, HandlersOK, Active
<1> QED BY <1>1, <1>2, <1>3, <1>4, <1>5, StartType DEF Next, Step

(* Every variable keeps its type, whatever the handlers are in the middle of. *)
THEOREM TypeCorrect == Spec => []TypeOK
<1>1. TypeOK /\ HandlersOK /\ [Next]_vars => (TypeOK /\ HandlersOK)'
  BY TypeNext
<1> QED BY <1>1, TypeInit, PTL DEF Spec
-----------------------------------------------------------------------------
(* Locks. *)

(* No handler is left holding a lock, or the advisory lock, by its own step. *)
LEMMA ContinueReleases ==
    ASSUME TypeOK, HandlersOK, NEW r \in Request, Continue(r)
    PROVE  /\ req'[r].pc \notin {"rotate", "reuse", "register_insert"}
           /\ \A s \in Request \ {r} : req'[s] = req[s]
<1>1. req[r] \in Handler /\ req \in [Request -> Handler]
  BY DEF TypeOK
<1>2. \E h : Become(r, h) /\ h.pc \notin {"rotate", "reuse", "register_insert"}
  <2> DEFINE Free(h) == h.pc \notin {"rotate", "reuse", "register_insert"}
  <2>1. Free(Idle)
    BY DEF Idle
  <2>2. CASE RegisterInsert(r) \/ CreateInsert(r)
    <3>1. Free([req[r] EXCEPT !.pc = "store"])
      BY <1>1 DEF Handler
    <3> QED BY <2>1, <2>2, <3>1 DEF RegisterInsert, CreateInsert, Insert, Return
  <2>3. CASE ChangeUpdate(r)
    <3>1. Free([req[r] EXCEPT !.pc = "revoke_start", !.pw = None])
      BY <1>1 DEF Handler
    <3> QED BY <2>3, <3>1 DEF ChangeUpdate
  <2>4. CASE RevokeStart(r)
    <3>1. Free([req[r] EXCEPT !.pc = "revoke", !.snap = LiveOf(req[r].user)])
      BY <1>1 DEF Handler
    <3> QED BY <2>4, <3>1 DEF RevokeStart
  <2>5. CASE ResetBegin(r)
    <3>1. Free([req[r] EXCEPT !.pc = "reset_commit", !.snap = LiveOf(req[r].user)])
      BY <1>1 DEF Handler
    <3> QED BY <2>5, <3>1 DEF ResetBegin
  <2>6. CASE DeleteLock(r)
    <3>1. Free([req[r] EXCEPT !.pc = "delete_cascade"])
      BY <1>1 DEF Handler
    <3> QED BY <2>1, <2>6, <3>1 DEF DeleteLock, Goto, Return
  <2>7. CASE StoreToken(r) \/ RefreshRotate(r) \/ ReuseApply(r) \/ RevokeApply(r)
             \/ ResetCommit(r) \/ DeleteCascade(r)
    BY <2>1, <2>7
       DEF StoreToken, RefreshRotate, ReuseApply, RevokeApply, ResetCommit,
           DeleteCascade, Return
  <2> QED BY <2>2, <2>3, <2>4, <2>5, <2>6, <2>7 DEF Continue
<1> QED BY <1>1, <1>2 DEF Become

(* A step of one handler does not touch a row another one has locked. *)
LEMMA LockedRowStable ==
    ASSUME TypeOK, HandlersOK, LocksOK, NEW r \in Request, Continue(r),
           NEW s \in Request \ {r}, req[s].pc \in {"rotate", "reuse"}
    PROVE  token'[req[s].tok] = token[req[s].tok]
<1> DEFINE t == req[s].tok
<1>1. t \in Token /\ Present(t)
  BY DEF HandlersOK, HandlerOK, LocksOK, LockedRow, Present
<1>2. s \in RowHolders(t)
  BY DEF RowHolders
<1>3. CASE ReuseApply(r) \/ RevokeApply(r) \/ ResetCommit(r)
  <2>1. /\ req[r].pc \in {"reuse", "revoke", "reset_commit"}
        /\ WaitsFor(r) = {}
        /\ RevokeRows(req[r].snap)
    BY <1>3 DEF ReuseApply, RevokeApply, ResetCommit, At
  <2>2. WaitsFor(r) = (UNION {RowHolders(v) : v \in req[r].snap}) \ {r}
    BY <2>1 DEF WaitsFor
  <2>3. t \notin req[r].snap
    <3> SUFFICES ASSUME t \in req[r].snap PROVE FALSE
      OBVIOUS
    <3>1. RowHolders(t) \in {RowHolders(v) : v \in req[r].snap}
      OBVIOUS
    <3>2. s \in UNION {RowHolders(v) : v \in req[r].snap}
      BY <1>2, <3>1
    <3>3. s \in (UNION {RowHolders(v) : v \in req[r].snap}) \ {r}
      BY <3>2
    <3> QED BY <2>1, <2>2, <3>3
  <2> QED BY <1>1, <2>1, <2>3, RevokeRowsEffect
<1>4. CASE DeleteCascade(r)
  <2>1. WaitsFor(r) = UNION {RowHolders(v) : v \in TokensOf(req[r].user)}
    BY <1>4 DEF DeleteCascade, At, WaitsFor
  <2>2. t \notin TokensOf(req[r].user)
    BY <1>2, <1>4, <2>1 DEF DeleteCascade, At
  <2>3. Owner[t] # req[r].user
    BY <1>1, <2>2 DEF TokensOf
  <2> QED BY <1>1, <1>4, <2>3 DEF DeleteCascade
<1>5. CASE RefreshRotate(r)
  <2>1. req[r].tok # t
    BY <1>5 DEF RefreshRotate, At, LocksOK, LocksExclude
  <2> QED BY <1>1, <1>5, <2>1 DEF RefreshRotate, TypeOK, Present
<1>6. CASE StoreToken(r)
  BY <1>1, <1>6 DEF StoreToken, TypeOK, Present
<1>7. CASE UNCHANGED token
  BY <1>7
<1> QED
  BY <1>3, <1>4, <1>5, <1>6, <1>7
     DEF Continue, RegisterInsert, CreateInsert, ChangeUpdate, RevokeStart, ResetBegin,
         DeleteLock, database

LEMMA LocksMove ==
    ASSUME LocksOK, NEW r \in Request,
           req'[r].pc \notin {"rotate", "reuse"},
           \A s \in Request \ {r} : req'[s] = req[s],
           \A s \in Request \ {r} : req[s].pc \in {"rotate", "reuse"} =>
               token'[req[s].tok] = token[req[s].tok]
    PROVE  LocksOK'
BY DEF LocksOK, LocksExclude, LockedRow

LEMMA LocksTake ==
    ASSUME TypeOK, HandlersOK, LocksOK, NEW r \in Request, NEW t \in Token,
           RefreshLock(r, t) \/ RefreshReuse(r, t)
    PROVE  LocksOK'
<1>1. PICK h \in Handler :
        /\ HandlerOK(h) /\ Become(r, h)
        /\ h.pc \in {"rotate", "reuse"} /\ h.tok = t
        /\ h.pc = "rotate" => token[t] = "live"
        /\ h.pc = "reuse" => token[t] = "revoked"
  BY BusyWithToken, BusyWithSnapshot DEF RefreshLock, RefreshReuse
<1>2. req'[r] = h /\ \A s \in Request \ {r} : req'[s] = req[s]
  BY <1>1, BecomeOK
<1>3. \A s \in Request : req[s].pc \in {"rotate", "reuse"} => req[s].tok # t
  BY DEF RefreshLock, RefreshReuse, RowHolders
<1>4. token' = token
  BY DEF RefreshLock, RefreshReuse, database
<1> QED BY <1>1, <1>2, <1>3, <1>4 DEF LocksOK, LocksExclude, LockedRow

(* The other ways to start leave the handler without a row lock. *)
LEMMA StartMoves ==
    ASSUME TypeOK, HandlersOK, NEW r \in Request, Start(r)
    PROVE  /\ UNCHANGED database
           /\ \A s \in Request \ {r} : req'[s] = req[s]
           /\ \/ req'[r].pc \notin {"rotate", "reuse", "register_insert"}
              \/ \E t \in Token : /\ RefreshLock(r, t) \/ RefreshReuse(r, t)
                                  /\ req'[r].pc # "register_insert"
              \/ \E u \in User, p \in Password : /\ RegisterCheck(r, u, p)
                                                 /\ req'[r].pc = "register_insert"
<1> DEFINE Moves(h) == h \in Handler /\ HandlerOK(h) /\ Become(r, h)
<1>1. ASSUME NEW u \in User, NEW p \in Password, RegisterCheck(r, u, p)
      PROVE  \E h : Moves(h) /\ h.pc = "register_insert"
  <2> DEFINE h == [Busy("register_insert", u) EXCEPT !.pw = p]
  <2>1. h \in Handler /\ HandlerOK(h) /\ h.pc = "register_insert"
    BY BusyWithPassword
  <2> QED BY <1>1, <2>1 DEF RegisterCheck
<1>2. ASSUME NEW u \in User, NEW p \in Password,
             CreateUser(r, u, p) \/ ChangePassword(r, u, p)
      PROVE  \E h : Moves(h) /\ h.pc \in {"create_insert", "change_update"}
  <2>1. PICK pc \in {"create_insert", "change_update"} :
          Become(r, [Busy(pc, u) EXCEPT !.pw = p])
    BY <1>2 DEF CreateUser, ChangePassword
  <2> DEFINE h == [Busy(pc, u) EXCEPT !.pw = p]
  <2>2. h \in Handler /\ HandlerOK(h) /\ h.pc = pc
    BY BusyWithPassword
  <2> QED BY <2>1, <2>2
<1>3. ASSUME NEW u \in User, Login(r, u)
      PROVE  \E h : Moves(h) /\ h.pc = "store"
  <2>1. password[u] \in Password
    BY <1>3 DEF TypeOK, Login
  <2> DEFINE h == [Busy("store", u) EXCEPT !.pw = password[u]]
  <2>2. h \in Handler /\ HandlerOK(h) /\ h.pc = "store"
    BY <2>1, BusyWithPassword
  <2> QED BY <1>3, <2>2 DEF Login
<1>4. ASSUME NEW u \in User, Logout(r, u) \/ DeleteUser(r, u)
      PROVE  \E h : Moves(h) /\ h.pc \in {"revoke_start", "delete_lock"}
  <2>1. \A pc \in {"revoke_start", "delete_lock"} : Busy(pc, u).pc = pc
    BY DEF Busy, Idle
  <2> QED BY <1>4, <2>1, BusyOK DEF Logout, DeleteUser
<1>5. ASSUME NEW t \in Token, RefreshLock(r, t) \/ RefreshReuse(r, t)
      PROVE  \E h : Moves(h) /\ h.pc \in {"rotate", "reuse"}
  <2>1. CASE RefreshLock(r, t)
    <3> DEFINE h == [Busy("rotate", Owner[t]) EXCEPT !.tok = t]
    <3>1. h \in Handler /\ HandlerOK(h) /\ h.pc = "rotate"
      BY BusyWithToken
    <3> QED BY <2>1, <3>1 DEF RefreshLock
  <2>2. CASE RefreshReuse(r, t)
    <3> DEFINE h == [Busy("reuse", Owner[t]) EXCEPT !.tok = t,
                                                    !.snap = TokensOf(Owner[t])]
    <3>1. h \in Handler /\ HandlerOK(h) /\ h.pc = "reuse"
      BY BusyWithSnapshot
    <3> QED BY <2>2, <3>1 DEF RefreshReuse
  <2> QED BY <1>5, <2>1, <2>2
<1>6. ASSUME NEW x \in ResetToken, NEW p \in Password, ResetPassword(r, x, p)
      PROVE  \E h : Moves(h) /\ h.pc = "reset_begin"
  <2>1. reset[x].user \in User
    BY <1>6 DEF TypeOK, ResetRow, ResetPassword
  <2> DEFINE h == [Busy("reset_begin", reset[x].user) EXCEPT !.pw = p, !.rst = x]
  <2>2. h \in Handler /\ HandlerOK(h) /\ h.pc = "reset_begin"
    BY <2>1, BusyWithReset
  <2> QED BY <1>6, <2>2 DEF ResetPassword
<1>7. UNCHANGED database
  BY DEF Start, RegisterCheck, CreateUser, ChangePassword, Login, Logout, DeleteUser,
         RefreshLock, RefreshReuse, ResetPassword
<1>8. \A h : Moves(h) => req'[r] = h /\ \A s \in Request \ {r} : req'[s] = req[s]
  BY BecomeOK
<1> QED BY <1>1, <1>2, <1>3, <1>4, <1>5, <1>6, <1>7, <1>8 DEF Start

LEMMA LocksNext ==
    ASSUME TypeOK, HandlersOK, LocksOK, [Next]_vars
    PROVE  LocksOK'
<1>1. ASSUME NEW r \in Request, Continue(r)
      PROVE  LocksOK'
  BY <1>1, ContinueReleases, LockedRowStable, LocksMove
<1>2. ASSUME NEW r \in Request, Start(r)
      PROVE  LocksOK'
  BY <1>2, StartMoves, LocksTake, LocksMove DEF database
<1>3. ASSUME NEW r \in Request, DeadlockAbort(r) \/ Abandon(r)
      PROVE  LocksOK'
  <2>1. req'[r] = Idle /\ \A s \in Request \ {r} : req'[s] = req[s]
    BY <1>3 DEF DeadlockAbort, Abandon, Return, Become, TypeOK
  <2>2. token' = token /\ Idle.pc = "idle"
    BY <1>3 DEF DeadlockAbort, Abandon, database, Idle
  <2> QED BY <2>1, <2>2, LocksMove
<1>4. CASE UNCHANGED <<token, req>>
  BY <1>4 DEF LocksOK, LocksExclude, LockedRow
<1> QED BY <1>1, <1>2, <1>3, <1>4 DEF Next, Step, ForgotPassword, Tick, database, vars
(* A step that leaves accounts alone and takes no advisory lock. *)
LEMMA BootstrapMove ==
    ASSUME BootstrapOK, OneBootstrapAdmin, NEW r \in Request,
           \A u \in User : account'[u] = "admin" => account[u] = "admin",
           req'[r].pc # "register_insert",
           \A s \in Request \ {r} : req'[s] = req[s]
    PROVE  BootstrapOK' /\ OneBootstrapAdmin'
BY DEF BootstrapOK, OneBootstrapAdmin

LEMMA BootstrapNext ==
    ASSUME TypeOK, HandlersOK, BootstrapOK, OneBootstrapAdmin, [Next]_vars
    PROVE  BootstrapOK' /\ OneBootstrapAdmin'
<1>1. ASSUME NEW r \in Request, RegisterInsert(r)
      PROVE  BootstrapOK' /\ OneBootstrapAdmin'
  <2>1. /\ req'[r].pc # "register_insert"
        /\ \A s \in Request \ {r} : req'[s] = req[s]
    BY <1>1, ContinueReleases DEF Continue
  <2>2. /\ \A u \in User : account[u] # "admin"
        /\ \A s \in Request \ {r} : req[s].pc # "register_insert"
    BY <1>1 DEF RegisterInsert, At, BootstrapOK
  <2>3. PICK u \in User : \A v \in User \ {u} : account'[v] = account[v]
    <3>1. req[r].user \in User
      BY <1>1 DEF RegisterInsert, At, HandlersOK, HandlerOK
    <3> QED BY <1>1, <3>1 DEF RegisterInsert, Insert, TypeOK
  <2>4. \A s \in Request : req'[s].pc # "register_insert"
    BY <2>1, <2>2
  <2>5. BootstrapOK'
    BY <2>4 DEF BootstrapOK
  <2>6. OneBootstrapAdmin'
    BY <2>2, <2>3 DEF OneBootstrapAdmin
  <2> QED BY <2>5, <2>6
<1>2. ASSUME NEW r \in Request, CreateInsert(r) \/ DeleteCascade(r)
      PROVE  BootstrapOK' /\ OneBootstrapAdmin'
  <2>1. /\ req'[r].pc # "register_insert"
        /\ \A s \in Request \ {r} : req'[s] = req[s]
    BY <1>2, ContinueReleases DEF Continue
  <2>2. \A u \in User : account'[u] = "admin" => account[u] = "admin"
    BY <1>2 DEF CreateInsert, Insert, DeleteCascade, TypeOK
  <2> QED BY <2>1, <2>2, BootstrapMove
<1>3. ASSUME NEW r \in Request, Continue(r), UNCHANGED account
      PROVE  BootstrapOK' /\ OneBootstrapAdmin'
  BY <1>3, ContinueReleases, BootstrapMove
<1>4. ASSUME NEW r \in Request, Start(r)
      PROVE  BootstrapOK' /\ OneBootstrapAdmin'
  <2>1. account' = account /\ \A s \in Request \ {r} : req'[s] = req[s]
    BY <1>4, StartMoves DEF database
  <2>2. CASE req'[r].pc # "register_insert"
    BY <2>1, <2>2, BootstrapMove
  <2>3. ASSUME NEW u \in User, NEW p \in Password, RegisterCheck(r, u, p)
        PROVE  BootstrapOK' /\ OneBootstrapAdmin'
    <3>1. /\ \A s \in Request : req[s].pc # "register_insert"
          /\ \A v \in User : account[v] # "admin"
      BY <2>3 DEF RegisterCheck, Active
    <3> QED BY <2>1, <3>1 DEF BootstrapOK, OneBootstrapAdmin
  <2> QED BY <1>4, <2>2, <2>3, StartMoves
<1>5. ASSUME NEW r \in Request, DeadlockAbort(r) \/ Abandon(r)
      PROVE  BootstrapOK' /\ OneBootstrapAdmin'
  <2>1. req'[r] = Idle /\ \A s \in Request \ {r} : req'[s] = req[s]
    BY <1>5 DEF DeadlockAbort, Abandon, Return, Become, TypeOK
  <2>2. account' = account /\ Idle.pc = "idle"
    BY <1>5 DEF DeadlockAbort, Abandon, database, Idle
  <2> QED BY <2>1, <2>2, BootstrapMove
<1>6. CASE UNCHANGED <<account, req>>
  BY <1>6 DEF BootstrapOK, OneBootstrapAdmin
<1>7. \A r \in Request : Continue(r) =>
          RegisterInsert(r) \/ CreateInsert(r) \/ DeleteCascade(r) \/ UNCHANGED account
  BY DEF Continue, StoreToken, RefreshRotate, ReuseApply, ChangeUpdate, RevokeStart,
         RevokeApply, ResetBegin, ResetCommit, DeleteLock, database
<1> QED
  BY <1>1, <1>2, <1>3, <1>4, <1>5, <1>6, <1>7
     DEF Next, Step, ForgotPassword, Tick, database, vars

LEMMA InitInv == Init => IInv
<1> SUFFICES ASSUME Init PROVE IInv
  OBVIOUS
<1>1. \A r \in Request : req[r].pc = "idle"
  BY DEF Init, Idle
<1>2. \A u \in User : account[u] # "admin"
  BY DEF Init
<1> QED
  BY <1>1, <1>2, TypeInit
     DEF IInv, LocksOK, LocksExclude, LockedRow, BootstrapOK, OneBootstrapAdmin

LEMMA NextInv == IInv /\ [Next]_vars => IInv'
BY TypeNext, LocksNext, BootstrapNext DEF IInv

(* In every reachable state each handler remembers what still holds, the   *)
(* row locks exclude each other, and register lets one request past its    *)
(* check for administrators.                                               *)
THEOREM Inductive == Spec => []IInv
BY InitInv, NextInv, PTL DEF Spec

(* The advisory lock of register makes the bootstrap happen once. *)
THEOREM BootstrapOnce == Spec => []OneBootstrapAdmin
<1>1. IInv => OneBootstrapAdmin
  BY DEF IInv
<1> QED BY <1>1, Inductive, PTL

-----------------------------------------------------------------------------
(* The handlers implement the token store. *)

(* An UPDATE of refresh_tokens revokes rows of one user. *)
LEMMA RevokeRefines ==
    ASSUME TypeOK, HandlersOK, NEW r \in Request, RevokeRows(req[r].snap),
           UNCHANGED parent
    PROVE  Store!StoreNext
<1> DEFINE S == {t \in req[r].snap : Present(t)}
<1>1. S \subseteq {t \in Token : Store!Present(t)}
  BY DEF TypeOK, Handler, Present, Store!Present
<1>2. \A s, t \in S : Owner[s] = Owner[t]
  BY DEF HandlersOK, HandlerOK
<1>3. token' = [t \in Token |-> IF t \in S THEN "revoked" ELSE token[t]]
  BY DEF RevokeRows
<1>4. S \in SUBSET Token /\ Store!Revoke(S)
  BY <1>1, <1>2, <1>3 DEF Store!Revoke
<1> QED BY <1>4 DEF Store!StoreNext

LEMMA StepRefines ==
    ASSUME IInv, [Next]_vars
    PROVE  [Store!StoreNext]_(Store!storeVars)
<1> USE DEF IInv
<1>1. ASSUME NEW r \in Request, StoreToken(r)
      PROVE  Store!StoreNext \/ UNCHANGED <<token, parent>>
  <2> DEFINE t == <<req[r].user, now>>
  <2>1. t \in Token
    BY <1>1, TokenOfUser DEF StoreToken, At, HandlersOK, HandlerOK, TypeOK
  <2>2. Store!Issue(t) \/ UNCHANGED <<token, parent>>
    BY <1>1 DEF StoreToken, Store!Issue, Store!Present, Present
  <2> QED BY <2>1, <2>2 DEF Store!StoreNext
<1>2. ASSUME NEW r \in Request, RefreshRotate(r)
      PROVE  Store!StoreNext \/ UNCHANGED <<token, parent>>
  <2> DEFINE t == req[r].tok
             n == <<Owner[t], now>>
  <2>1. t \in Token /\ token[t] = "live"
    BY <1>2 DEF RefreshRotate, At, HandlersOK, HandlerOK, LocksOK, LockedRow
  <2>2. n \in Token /\ Owner[n] = Owner[t]
    BY <2>1, OwnerType, TokenOfUser DEF TypeOK
  <2>3. Store!Rotate(t, n) \/ UNCHANGED <<token, parent>>
    BY <1>2, <2>1, <2>2 DEF RefreshRotate, Store!Rotate, Store!Present, Present
  <2> QED BY <2>1, <2>2, <2>3 DEF Store!StoreNext
<1>3. ASSUME NEW r \in Request, ReuseApply(r) \/ RevokeApply(r) \/ ResetCommit(r)
      PROVE  Store!StoreNext
  BY <1>3, RevokeRefines DEF ReuseApply, RevokeApply, ResetCommit
<1>4. ASSUME NEW r \in Request, DeleteCascade(r)
      PROVE  Store!StoreNext
  <2> DEFINE u == req[r].user
             t == <<u, 0>>
  <2>1. u \in User
    BY <1>4 DEF DeleteCascade, At, HandlersOK, HandlerOK
  <2>2. t \in Token /\ Owner[t] = u
    BY <2>1, ClockAssumption, TokenOfUser
  <2>3. Store!Drop(Owner[t])
    BY <1>4, <2>2 DEF DeleteCascade, Store!Drop
  <2> QED BY <2>2, <2>3 DEF Store!StoreNext
<1>5. \A r \in Request : Continue(r) =>
          \/ StoreToken(r) \/ RefreshRotate(r) \/ DeleteCascade(r)
          \/ ReuseApply(r) \/ RevokeApply(r) \/ ResetCommit(r)
          \/ UNCHANGED <<token, parent>>
  BY DEF Continue, RegisterInsert, CreateInsert, ChangeUpdate, RevokeStart, ResetBegin,
         DeleteLock, database
<1>6. \A r \in Request : Start(r) => UNCHANGED <<token, parent>>
  BY StartMoves DEF database
<1>7. Store!StoreNext \/ UNCHANGED <<token, parent>>
  BY <1>1, <1>2, <1>3, <1>4, <1>5, <1>6
     DEF Next, Step, Abandon, DeadlockAbort, ForgotPassword, Tick, database, vars
<1> QED BY <1>7 DEF Store!storeVars

(* Refresh, logout, password changes, resets and deletions, in any         *)
(* interleaving, behave as the token store.                                *)
THEOREM ImplementsStore == Spec => StoreSpec
<1>1. Init => Store!StoreInit
  BY DEF Init, Store!StoreInit
<1> QED BY <1>1, StepRefines, Inductive, PTL DEF Spec, StoreSpec, Store!StoreSpec

(* The invariant of the token store itself. *)
LEMMA StoreInductive ==
    ASSUME Store!StoreInv, [Store!StoreNext]_(Store!storeVars)
    PROVE  Store!StoreInv'
<1> USE DEF Store!StoreInv, Store!StoreTypeOK, Store!SingleSuccessor,
            Store!ParentIsSpent, Store!Present
<1>1. ASSUME NEW t \in Token, Store!Issue(t)
      PROVE  Store!StoreInv'
  BY <1>1, NoneAssumption DEF Store!Issue
<1>2. ASSUME NEW p \in Token, NEW n \in Token, Store!Rotate(p, n)
      PROVE  Store!StoreInv'
  BY <1>2, NoneAssumption DEF Store!Rotate
<1>3. ASSUME NEW S \in SUBSET Token, Store!Revoke(S)
      PROVE  Store!StoreInv'
  BY <1>3 DEF Store!Revoke
<1>4. ASSUME NEW t \in Token, Store!Drop(Owner[t])
      PROVE  Store!StoreInv'
  BY <1>4, OwnerType DEF Store!Drop
<1>5. CASE UNCHANGED Store!storeVars
  BY <1>5 DEF Store!storeVars
<1> QED BY <1>1, <1>2, <1>3, <1>4, <1>5 DEF Store!StoreNext

(* Two concurrent refreshes of one token never both succeed. *)
THEOREM RotatedOnce == Spec => []SingleSuccessor
<1>1. Store!StoreInit => Store!StoreInv
  BY DEF Store!StoreInit, Store!StoreInv, Store!StoreTypeOK, Store!SingleSuccessor,
         Store!ParentIsSpent
<1>2. Store!StoreSpec => []Store!StoreInv
  BY <1>1, StoreInductive, PTL DEF Store!StoreSpec
<1>3. Store!StoreInv => SingleSuccessor
  BY DEF Store!StoreInv, SingleSuccessor
<1> QED BY <1>2, <1>3, ImplementsStore, PTL DEF StoreSpec

=============================================================================
