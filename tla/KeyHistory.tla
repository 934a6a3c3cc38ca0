----------------------------- MODULE KeyHistory -----------------------------
(***************************************************************************)
(* Bunker with a history variable: the DEK versions each endpoint was ever *)
(* able to open with a wrap of its own.  An endpoint may have synced a     *)
(* wrap at any moment it was stored and keeps what it unwrapped, so what   *)
(* it held once it holds for ever (remove_identity: "keeps whatever DEK    *)
(* copies it already unwrapped").                                          *)
(***************************************************************************)
EXTENDS Bunker

VARIABLE held   \* held[e][g]: the DEK versions of g endpoint e ever held

historyVars == <<vars, held>>

HeldType == held \in [Endpoint -> [Group -> SUBSET DekVersion]]

\* the versions of g whose wrap set w names e
Opens(w, e) == {v \in DekVersion : e \in w[v]}

HistoryInit ==
  /\ Init
  /\ held = [e \in Endpoint |-> [g \in Group |-> Opens(wraps[g], e)]]

HistoryNext ==
  /\ Next
  /\ held' = [e \in Endpoint |-> [g \in Group |->
                held[e][g] \cup Opens(wraps'[g], e)]]

HistorySpec == HistoryInit /\ [][HistoryNext]_historyVars

-----------------------------------------------------------------------------

\* An endpoint without the explicit read bit on a group never held the DEK
\* version new secrets of that group are encrypted under, whatever it held
\* before it was revoked, removed or never granted.
CurrentDekUnheldByOutsiders ==
  \A g \in Group, e \in Endpoint :
    Exists(g) /\ e \notin Readers(g) => dek[g] \notin held[e][g]

\* crypto-design.md: nothing written after a revocation is encrypted under a key
\* the revoked identity ever held.  Every version put appends is under a DEK
\* that nobody but the group's explicit readers has ever held.
WritesUnderUnheldKeys ==
  [][\A g \in Group, s \in Secret, e \in Endpoint :
       Len(secrets'[g][s]) > Len(secrets[g][s]) /\ e \notin Readers(g) =>
         secrets'[g][s][Len(secrets'[g][s])] \notin held[e][g]]_historyVars

=============================================================================
