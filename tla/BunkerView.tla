----------------------------- MODULE BunkerView -----------------------------
(***************************************************************************)
(* Bunker implements Upstream: what one endpoint that runs a replica sees  *)
(* of the authoritative node changes only by the mutations Replication     *)
(* assumes, and the event channel is told of each of them.                 *)
(*                                                                         *)
(* Two history variables supply what Bunker leaves out: the nonce a put    *)
(* draws, fresh for every encryption, and the count of mutations.          *)
(***************************************************************************)
EXTENDS Bunker

CONSTANTS Replica,   \* the endpoint whose view this is
          None,
          MaxClock   \* bound: mutations of the view

ASSUME ReplicaAssumption == Replica \in Endpoint /\ MaxClock \in Nat

\* "no such secret" is not a secret
ASSUME NoneAssumption == None \notin [version : Nat, dek : Nat, nonce : Nat]

VARIABLES clock, nonce

viewVars == <<vars, clock, nonce>>

\* acl_entries_full: name, endpoint and permissions of every row
AclView(g) ==
  [e \in Endpoint |-> IF acl[g][e] = {} THEN None ELSE <<identity[e], acl[g][e]>>]

AclValue == [Endpoint -> {None} \cup ((Name \cup {NoName}) \X SUBSET Perm)]

\* secret_current and secret_entries: only the current version is synced
CurrentView(g, s) ==
  IF secrets[g][s] = <<>> THEN None
  ELSE [version |-> Len(secrets[g][s]),
        dek     |-> secrets[g][s][Len(secrets[g][s])],
        nonce   |-> nonce[g][s]]

\* the variables of Upstream
RegisteredView == Replica \in Registered
ReadsView == GroupsWithRead(Replica)
DekView == [g \in Group |-> IF Exists(g) THEN dek[g] ELSE 1]
SecretView == [g \in Group |-> [s \in Secret |-> CurrentView(g, s)]]
AclsView == [g \in Group |-> AclView(g)]

Node == INSTANCE Upstream WITH
  Acl        <- AclValue,
  registered <- RegisteredView,
  reads      <- ReadsView,
  dek        <- DekView,
  secret     <- SecretView,
  acl        <- AclsView

TheView == <<RegisteredView, ReadsView, secrets, DekView, AclsView>>

ViewInit ==
  /\ Init
  /\ clock = 0
  /\ nonce = [g \in Group |-> [s \in Secret |-> 0]]

ViewNext ==
  /\ Next
  /\ IF TheView' = TheView THEN UNCHANGED <<clock, nonce>>
     ELSE /\ clock < MaxClock
          /\ clock' = clock + 1
          /\ nonce' = [g \in Group |-> [s \in Secret |->
                         IF Len(secrets'[g][s]) > Len(secrets[g][s])
                         THEN clock + 1 ELSE nonce[g][s]]]

ViewSpec == ViewInit /\ [][ViewNext]_viewVars

-----------------------------------------------------------------------------

\* Every request, restart and offline command changes the replica's view by a
\* mutation of Upstream or not at all, and while the node serves, the groups that
\* mutation is allowed to touch are all published in the same step.
ImplementsUpstream ==
  [][\E G \in SUBSET Group :
       /\ Node!Mutation(G)
       /\ phase = "serving" => G \subseteq published']_<<Node!upstreamVars>>

=============================================================================
