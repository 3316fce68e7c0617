----------------------------- MODULE MCRecords -----------------------------
(***************************************************************************)
(* One run for the leads (LeadConversion) and for the contacts, companies, *)
(* deals and activities (EntityWrites): a behaviour is that of one part,   *)
(* while the other stays where it began.                                   *)
(***************************************************************************)
EXTENDS LeadConversion, EntityWrites, TLC

VARIABLE part

RecordsInit ==
    /\ Init /\ EntityInit
    /\ \/ part = "leads" /\ table = [e \in Entity |-> "contact"] /\ ~accepts
       \/ part = "entities" /\ pipeline = [p \in Pipeline |-> "person"]

RecordsNext ==
    \/ part = "leads" /\ Next /\ UNCHANGED entityvars
    \/ part = "entities" /\ EntityNext /\ UNCHANGED vars

RecordsSpec ==
    /\ RecordsInit
    /\ [][RecordsNext /\ UNCHANGED part]_<<part, vars, entityvars>>

Symmetry == Permutations(Request) \cup Permutations(Conversion)
            \cup Permutations(Caller) \cup Permutations(Entity)

\* Every variable has its type.
TypesOK == TypeOK /\ EntityTypeOK
=============================================================================
