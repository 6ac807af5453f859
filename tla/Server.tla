------------------------------- MODULE Server -------------------------------
(***************************************************************************)
(* A server: the requests of one of its tenants and the log that they      *)
(* write (AuditLog), and the requests that make, initialize, change and    *)
(* delete tenants (Tenants).  Which of the two a request is, is known when *)
(* it arrives; the databases that they lock are not the same.              *)
(***************************************************************************)
EXTENDS AuditLog

CONSTANTS TenantIds, Root, TenantRequests, None, Ops, First, Starts, Backends,
          PoolSize, MaxFaults, MaxSplits

VARIABLES backend, server, registry, tenantRow, tables, founder, keys, told, req,
          faults, splits

Registry == INSTANCE Tenants WITH
    Tenants <- TenantIds, Requests <- TenantRequests, row <- tenantRow, log <- told

registryVars == <<backend, server, registry, tenantRow, tables, founder, keys, told, req,
                  faults, splits>>

(* Requests ask for what the API lets them ask for: a tenant is initialized  *)
(* by itself, and the uuid of a new one is new.  A server that has a tenant  *)
(* has the root tenant.                                                      *)
ASSUME ServerAssumption ==
    /\ Root \in TenantIds /\ Backends \subseteq {"file", "server"}
    /\ None \notin Ops /\ None \notin Registry!TenantRow /\ MaxSplits \in Nat
    /\ \A there \in Starts : there \subseteq TenantIds /\ (there # {} => Root \in there)
    /\ \A op \in Ops :
          /\ op.kind \in {"create", "init", "update", "delete"}
          /\ op.at \in TenantIds /\ op.of \in TenantIds /\ op.field \in {"name", "on"}
          /\ op.kind = "init" => op.at = op.of
          /\ op.kind = "update" /\ op.field = "on" => op.val \in BOOLEAN
    /\ \A a, b \in Ops : a.kind = "create" /\ b.kind = "create" /\ a.of = b.of => a = b

ServerInit == Init /\ Registry!Init

ServerNext ==
    \/ Next /\ UNCHANGED registryVars
    \/ Registry!Next /\ UNCHANGED vars

ServerSpec == ServerInit /\ [][ServerNext]_<<vars, registryVars>>

(* Of the requests at the tenants of a server: an initialized tenant has the *)
(* one founder it was initialized for, and the logs tell the changes that    *)
(* the registry has (initialize_endpoint, _record_change).                   *)
TenantsAndLogsAgree == Registry!TenantsAreWhole /\ Registry!LogsAgree
=============================================================================
