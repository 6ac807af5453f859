---------------------------- MODULE MCSSHGrants ----------------------------
(* Instances of SSHGrants: each entry names users, commands and            *)
(* capabilities; the code treats the commands and the capabilities of an   *)
(* entry apart, so each list of the one is tried with one of the other.    *)
(* And one of GrantEditing, which shares no state with it: part says which *)
(* of the two a behaviour is about, the other one rests.                   *)
EXTENDS SSHGrants, GrantEditing, TLC

CONSTANTS alice, root, mallory, ls, cat, shell, pty, ann, bob, i1, i2, ra, t1

VARIABLE part

UserLists == {None, {root}, {Self, mallory}}
Uses == {<<None, {shell}>>, <<{ls}, None>>, <<{ls, cat}, {pty}>>}
Entry(users, use, ttl) == [users |-> users, commands |-> use[1], capabilities |-> use[2], ttl |-> ttl]
AllEntries == {Entry(us, use, ttl) : us \in UserLists, use \in Uses, ttl \in {1, 2, Unbounded}}

(* ann works on the screen and has the role active, bob works with pfa and  *)
(* the boundary applies to him.  i2 is yet to be made; the tag has a blank   *)
(* in its name.                                                             *)
EditNames ==
    [o \in {i1, i2, ra, t1} |->
        CASE o \in {i1, ra} -> "one" [] o = i2 -> "unborn" [] o = t1 -> "two 2"]

EditLists ==
    [grants |-> {GrantFor("ssh", i1, {}, Null), GrantFor("role", ra, Null, {})},
     members |-> {i1},
     denied |-> {GrantFor("identity", Null, {"name"}, Null), GrantFor("tag", t1, {}, {})},
     ceiling |-> Null]

OnStdin == {GrantFor("ssh", "one", {}, Null)}

EditTools == [a \in Admins |-> IF a = ann THEN {"tui"} ELSE {"pfa"}]
OneAccount == [a \in Admins |-> i1]

MCInit ==
    /\ GrantsInit /\ EditInit
    /\ part \in {"checks", "editing"}

MCNext ==
    /\ UNCHANGED part
    /\ \/ part = "checks" /\ GrantsNext /\ UNCHANGED editVars
       \/ part = "editing" /\ EditNext /\ UNCHANGED grantVars

MCSpec == MCInit /\ [][MCNext]_<<part, grantVars, editVars>>
=============================================================================
