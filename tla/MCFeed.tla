------------------------------- MODULE MCFeed -------------------------------
(* Instances of Feed for TLC: who the browser is, one sign-in after another. *)
EXTENDS Feed

MemberThenPublic == <<"member", "public">>
=============================================================================
