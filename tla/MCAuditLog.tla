----------------------------- MODULE MCAuditLog -----------------------------
(* Small instances of the two halves of Server: part says which is at work. *)
EXTENDS Server

CONSTANTS root, sub, n1, n2

VARIABLE part

Ask(kind, at, of, field, val) == [kind |-> kind, at |-> at, of |-> of, field |-> field, val |-> val]

(* Root makes, initializes, renames and deletes a tenant, which renames      *)
(* itself.                                                                   *)
TenantOps ==
    {Ask("create", root, sub, "name", None), Ask("init", root, root, "name", None),
     Ask("init", sub, sub, "name", None), Ask("update", root, sub, "name", n1),
     Ask("update", sub, sub, "name", n2),
     Ask("delete", root, sub, "on", FALSE)}

MCStarts == {{}, {root}, {root, sub}}

MCInit == part \in {"log", "tenants"} /\ ServerInit

MCNext ==
    /\ UNCHANGED part
    /\ \/ part = "log" /\ Next /\ UNCHANGED registryVars
       \/ part = "tenants" /\ Registry!Next /\ UNCHANGED vars

mcVars == <<part, vars, registryVars>>

(* The fairness of both, for the part that is at work.                        *)
MCSpec ==
    /\ MCInit /\ [][MCNext]_mcVars
    /\ \A r \in Requests :
         WF_vars(part = "log" /\ (Insert(r) \/ Commit(r) \/ CommitRejection(r) \/ Notify(r)))
    /\ \A r \in TenantRequests : WF_registryVars(part = "tenants" /\ Registry!RequestStep(r))

(* A request that holds a lock that another waits for ends, on either side:  *)
(* the flush of its audit entries, and the wait of an owner for the database *)
(* of a tenant that waits for the registry (app_context, _record_change).    *)
EveryRequestEnds ==
    /\ FlushEnds
    /\ part = "tenants" => Registry!EveryRequestEnds
=============================================================================
