--------------------------- MODULE MCAdminObjects ---------------------------
(* Values for the small instance of AdminObjects. *)
EXTENDS AdminObjects, TLC

CONSTANTS t1, t2, root, i1, i2, hub, ra, rb, base, fence

Symmetry == Permutations(Requests)

(* The founder is bounded by base, i1 by base and fence.  i1 has one tag, the *)
(* bastion and the filters of the grants ask for it and for the other.        *)
Start ==
    <<"tag", t1>> :> There @@ <<"tag", t2>> :> There
        @@ <<"identity", root>> :> [boundaries |-> {base}] @@ <<"identity", i1>> :> [boundaries |-> {base, fence}]
        @@ <<"tagged", i1, t1>> :> There
        @@ <<"role", ra>> :> [grants |-> {OnIdentities(Null, {t1, t2}, Null), OnBastion(hub)}]
        @@ <<"member", ra, root>> :> There
        @@ <<"boundary", base>> :> [denied |-> {OnIdentities(Null, Null, {t2})}, ceiling |-> {}]
        @@ <<"boundary", fence>> :> [denied |-> {OnIdentities(Null, {t2}, Null), OnTag(t2)},
                                     ceiling |-> {{OnIdentities(i1, Null, Null)}}]
        @@ <<"bastion", hub>> :> [tags |-> {t1}]

SomeOps ==
    {Delete(<<"tag", t1>>), Delete(<<"tag", t2>>), Delete(<<"identity", i1>>), Delete(<<"bastion", hub>>),
     Delete(<<"role", ra>>), Delete(<<"boundary", fence>>),
     Create(<<"role", rb>>, [grants |-> {}]),
     NewIdentity(i2, {fence}, {t2}), NewIdentity(i2, {}, {t1}),
     SetGrants(ra, {OnIdentities(i1, {t2}, {t1})}), SetGrants(rb, {OnTag(t2), OnIdentities(Null, Null, Null)}),
     SetMembers(ra, {i1}), SetMembers(ra, {}),
     SetBoundary(fence, [denied |-> {}]), SetBoundary(fence, [ceiling |-> {}]),
     SetTags(i1, {t2}), SetTags(i1, {}),
     SetBastion(hub, {t1, t2})}
=============================================================================
