-------------------------- MODULE ManagedIdentity --------------------------
(***************************************************************************)
(* resolve_managed_identity (operator/src/identity.rs): operator pods that *)
(* start at the same time get or create one Kubernetes Secret that holds   *)
(* the key they all run under.  A key is named after the pod that drew it. *)
(* The API server may fail a call before or after carrying it out.         *)
(***************************************************************************)
CONSTANTS Pod, NoKey

ASSUME IdentityConstants == NoKey \notin Pod /\ NoKey # "garbage" /\ "garbage" \notin Pod

VARIABLES stored,   \* the Secret: NoKey when absent, "garbage", or a key
          at,       \* where each pod is
          key,      \* the key it runs under
          tampered  \* history: somebody deleted or edited the Secret

identity == <<stored, at, key, tampered>>

IdentityTypeOK ==
  /\ stored \in Pod \cup {NoKey, "garbage"}
  /\ at \in [Pod -> {"get", "create", "reget", "ready", "failed"}]
  /\ key \in [Pod -> Pod \cup {NoKey}]
  /\ tampered \in BOOLEAN

IdentityInit ==
  /\ stored \in {NoKey, "garbage"}
  /\ at = [p \in Pod |-> "get"]
  /\ key = [p \in Pod |-> NoKey]
  /\ tampered = FALSE

Move(p, where, k) ==
  /\ at' = [at EXCEPT ![p] = where]
  /\ key' = [key EXCEPT ![p] = k]
  /\ UNCHANGED tampered

\* parse_identity_secret: garbage is an error, never a reason to write
Load(p) ==
  /\ IF stored = "garbage" THEN Move(p, "failed", NoKey)
     ELSE Move(p, "ready", stored)
  /\ UNCHANGED stored

GetIdentity(p) ==
  /\ at[p] = "get"
  /\ IF stored = NoKey THEN Move(p, "create", NoKey) /\ UNCHANGED stored
     ELSE Load(p)

\* mutant: a conflict is not told from success
CreateIgnoringConflict(p) ==
  /\ at[p] = "create"
  /\ Move(p, "ready", p)
  /\ stored' = IF stored = NoKey THEN p ELSE stored

\* the answer may get lost after the Secret was created; a conflict means
\* that somebody else's key is there
CreateIdentity(p) ==
  /\ at[p] = "create"
  /\ IF stored = NoKey
     THEN stored' = p /\ (Move(p, "ready", p) \/ Move(p, "failed", NoKey))
     ELSE UNCHANGED stored /\ Move(p, "reget", NoKey)

GetAfterConflict(p) ==
  /\ at[p] = "reget"
  /\ IF stored = NoKey THEN Move(p, "failed", NoKey) /\ UNCHANGED stored
     ELSE Load(p)

IdentityCallFails(p) ==
  /\ at[p] \in {"get", "create", "reget"}
  /\ Move(p, "failed", NoKey)
  /\ UNCHANGED stored

ResolveStep(p) == GetIdentity(p) \/ CreateIdentity(p) \/ GetAfterConflict(p)
                  \/ IdentityCallFails(p)

\* a pod dies, or exits with the error, and is started again
RestartPod(p) ==
  /\ at[p] # "get"
  /\ Move(p, "get", NoKey)
  /\ UNCHANGED stored

\* somebody deletes or edits the Secret
Tamper ==
  /\ stored # NoKey
  /\ stored' \in {NoKey, "garbage"} \ {stored}
  /\ tampered' = TRUE
  /\ UNCHANGED <<at, key>>

-----------------------------------------------------------------------------

\* However the pods' starts, conflicts, lost answers and restarts interleave,
\* a pod that runs uses the stored key, as long as nobody touched the Secret
\* ("the stored key wins").
StoredKeyWins ==
  ~tampered => \A p \in Pod : at[p] = "ready" => key[p] = stored

=============================================================================
