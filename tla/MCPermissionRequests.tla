------------------------ MODULE MCPermissionRequests ------------------------
(* Finite instances of PermissionRequests and of PermissionCache. *)
EXTENDS PermissionRequests, TLC

CONSTANTS root, head, user, d1, r

MCUsers == {root, head, user}
Member(d) == [department |-> d, roles |-> {}, active |-> TRUE]

MCContexts == {[user |-> user, department |-> d, roles |-> {}] : d \in {d1, System}}
Allow(p) == [principal |-> p, resource |-> r, effect |-> "allow"]
Deny(p) == [principal |-> p, resource |-> r, effect |-> "deny"]
MCOffers == {Allow(<<"user", user>>), Deny(<<"department", d1>>)}

(* root administers everything, head department d1, which manages r; user   *)
(* may move to the system department and back, or be disabled.              *)
MCSeedProfile ==
  [u \in MCUsers |->
     IF u = root THEN [department |-> System, roles |-> {"admin"}, active |-> TRUE]
     ELSE IF u = head THEN [department |-> d1, roles |-> {"department_admin"}, active |-> TRUE]
     ELSE Member(d1)]
MCProfiles ==
  [u \in MCUsers |-> CASE u = root -> {}
                       [] u = head -> {}
                       [] u = user -> {Member(d1), Member(System), [Member(d1) EXCEPT !.active = FALSE]}]
MCSeedManageable == [d \in {d1, System} |-> IF d = d1 THEN {r} ELSE {}]
MCSymmetry == Permutations(Sessions)
MCNoGrants == {}
MCAllowed == {Allow(<<"user", user>>)}
=============================================================================
