----------------------------- MODULE MCEnrolment -----------------------------
(* Values for the small instances of Enrolment. *)
EXTENDS Enrolment, TLC

CONSTANTS i1, v1, v2, k1, k2, s1, s2, s3, ra, rb, tok

(* Requests are told apart by what they ask for only. *)
Symmetry == Permutations(Requests)

(* An identity that has a session, and whose invitation is still out. *)
Start ==
    <<"identity", i1>> :> "row" @@ <<"invitation", v1>> :> [of |-> i1, by |-> None]
        @@ <<"session", s1>> :> [of |-> i1, role |-> None, out |-> FALSE]

(* Two keys accept the invitation and retry; two sessions are opened with one *)
(* id token; the role of a session is set twice, and it is logged out; the    *)
(* identity is invited again and deleted.                                     *)
SomeOps ==
    {Accept(v1, k1), Accept(v1, k2), Login(k1, s2), Delete(i1), Invite(i1, v2),
     SetRole(s1, ra), SetRole(s1, rb), Logout(s1),
     OidcLogin(i1, tok, s2), OidcLogin(i1, tok, s3)}
=============================================================================
