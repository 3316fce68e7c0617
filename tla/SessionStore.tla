---------------------------- MODULE SessionStore ----------------------------
(***************************************************************************)
(* What the refresh tokens of the CRM promise, whatever the handlers of    *)
(* auth.rs do to get there: a token is issued once, is exchanged at most   *)
(* once, in one indivisible step, for one successor of the same owner, and *)
(* is never live again after it was revoked.  AuthSessions implements it.  *)
(***************************************************************************)
CONSTANTS Token,      \* the refresh tokens that can ever exist
          Owner,      \* Owner[t]: the user a token is for
          NoToken     \* the parent of a token that a login issued: not in Token

VARIABLES token,      \* "absent", "live" or "revoked", for each token
          parent      \* the token each one was exchanged for, or NoToken

storeVars == <<token, parent>>

Present(t) == token[t] # "absent"

StoreTypeOK ==
    /\ token \in [Token -> {"absent", "live", "revoked"}]
    /\ parent \in [Token -> Token \cup {NoToken}]

StoreInit ==
    /\ token = [t \in Token |-> "absent"]
    /\ parent = [t \in Token |-> NoToken]

Issue(t) ==
    /\ ~Present(t)
    /\ token' = [token EXCEPT ![t] = "live"]
    /\ UNCHANGED parent

Rotate(p, n) ==
    /\ token[p] = "live"
    /\ ~Present(n)
    /\ Owner[p] = Owner[n]
    /\ token' = [token EXCEPT ![p] = "revoked", ![n] = "live"]
    /\ parent' = [parent EXCEPT ![n] = p]

(* Any set of tokens of one user may be revoked at once. *)
Revoke(S) ==
    /\ S \subseteq {t \in Token : Present(t)}
    /\ \A s, t \in S : Owner[s] = Owner[t]
    /\ token' = [t \in Token |-> IF t \in S THEN "revoked" ELSE token[t]]
    /\ UNCHANGED parent

(* The tokens of a deleted user disappear together. *)
Drop(u) ==
    /\ token'  = [t \in Token |-> IF Owner[t] = u THEN "absent" ELSE token[t]]
    /\ parent' = [t \in Token |-> IF Owner[t] = u THEN NoToken ELSE parent[t]]

StoreNext ==
    \/ \E t \in Token : Issue(t)
    \/ \E p, n \in Token : Rotate(p, n)
    \/ \E S \in SUBSET Token : Revoke(S)
    \/ \E t \in Token : Drop(Owner[t])

StoreSpec == StoreInit /\ [][StoreNext]_storeVars

-----------------------------------------------------------------------------
(* A token is exchanged at most once: no two tokens have the same parent. *)
SingleSuccessor ==
    \A s, t \in Token : parent[s] = parent[t] /\ parent[s] # NoToken => s = t

(* An exchanged token stays revoked, and it has the owner of its successor. *)
ParentIsSpent ==
    \A t \in Token : parent[t] # NoToken =>
        /\ token[parent[t]] = "revoked"
        /\ Owner[parent[t]] = Owner[t]
        /\ Present(t)

StoreInv == StoreTypeOK /\ SingleSuccessor /\ ParentIsSpent
=============================================================================
