--------------------------- MODULE MCEventBridge ---------------------------
(* Instances of EventBridge for TLC. *)
EXTENDS EventBridge

CONSTANTS g1, g2, v1, v2, o1

MCObject == o1 :> ("a" :> v1)
MCKeyOrder == <<"?", "a", "b">>

MCContent == {<<>>, "b" :> Locked, "a" :> o1 @@ "b" :> v2}
MCStartMirror == {[g \in Group |-> c] : c \in {None, "a" :> o1 @@ "b" :> v2}}

AllOf(g, rules) == [type |-> "group", group |-> g, rewrite |-> rules]
Extracted(g, n) == [type |-> "extract", group |-> g, name |-> n]
Mapped(k, g, n, p) ==
  [type |-> "data", key |-> k, group |-> g, name |-> n, property |-> p]
From(entries, data) == [dataFrom |-> entries, data |-> data]
Rule(s, t) == [source |-> s, target |-> t]

MCCrSpec == {
  From(<<AllOf(g1, <<Rule("b", "a"), Rule("b", "?")>>)>>, <<Mapped("b", g2, "a", "a")>>),
  From(<<AllOf(g2, <<>>), Extracted(g1, "a")>>, <<>>),
  From(<<AllOf(g2, <<>>), AllOf(g1, <<Rule("a", "b")>>)>>, <<>>)}
=============================================================================
