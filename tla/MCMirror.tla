------------------------------ MODULE MCMirror ------------------------------
(* Two keys, two names, two groups: see MCMirror.cfg. *)
EXTENDS Mirror
CONSTANTS e1, e2, alice, bob
MCPerms == {{"read"}, {"read", "admin"}}
MCEndpoint == {e1, e2}
MCName == {alice, bob}
MCFirst == [endpoint |-> e1, name |-> alice, perms |-> {"read", "admin"}]
=============================================================================
