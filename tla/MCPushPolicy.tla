---------------------------- MODULE MCPushPolicy ----------------------------
(***************************************************************************)
(* An instance of PushPolicy: two names one of which a pattern takes for   *)
(* the other, rules that overlap, a commit with a deploying pipeline and   *)
(* one whose pipeline does not parse.                                      *)
(***************************************************************************)
EXTENDS PushPolicy

MCCode == [c \in {Star, "/", "a", "b"} |->
             CASE c = Star -> 42 [] c = "/" -> 47 [] c = "a" -> 97 [] c = "b" -> 98]

A  == <<"a">>
AB == <<"a", "b">>
MCNames == {A, AB}

U(kind, name, old, new) == [kind |-> kind, name |-> name, old |-> old, new |-> new]

\* Single creations, moves and deletions, some from refs that are not there,
\* and pairs that create both kinds, or replace one kind by the other.
MCPushes ==
  {{U(k, A, Zero, "c1")} : k \in Kinds}
    \cup {{U("branch", AB, Zero, "c2")}, {U("branch", A, "c1", "c2")},
          {U("branch", A, "c2", "c1")}, {U("tag", A, "c1", "c2")},
          {U("branch", AB, Zero, "c1"), U("tag", AB, Zero, "c1")},
          {U("branch", A, "c1", Zero), U("tag", A, Zero, "c2")},
          {U("branch", A, "c1", Zero), U("branch", AB, Zero, "c1")}}

Rule(kind, pattern, push, people, allows) ==
  [kind |-> kind, pattern |-> pattern, push |-> push, people |-> people,
   allows |-> allows]

Everywhere == Rule("branch", <<"*">>, "everyone", {},
                   {"run", "docker", "deploy", "force", "delete"})
Alice == Rule("branch", <<"a", "*">>, "people", {"alice"}, {"run"})
Tags  == Rule("tag", <<"*">>, "people", {"root"}, {"run", "deploy"})

Ends   == Rule("branch", <<"*", "a">>, "everyone", {}, {"run", "docker"})
Both   == Rule("branch", <<"a", "*", "a">>, "admins", {}, {})
Admin  == Rule("branch", <<"a", "*">>, "admins", {},
               {"run", "docker", "deploy", "delete"})

MCRules == {Everywhere, Alice, Admin, Both,
            Rule("branch", <<"a", "b">>, "people", {}, {"run"})}

MCFirstRules == {{}, {Everywhere, Alice}, {Ends, Both, Tags}}

MCFirstRefs == [r \in Kinds \X MCNames |-> IF r = <<"branch", A>> THEN "c1" ELSE Zero]

MCReaderSets == {{}, {"alice"}}

MCPolicies == {[push |-> "admins", people |-> {}],
               [push |-> "people", people |-> {"alice"}],
               [push |-> "everyone", people |-> {"alice"}]}

Step(name, type, when) == [name |-> name, type |-> type, when |-> when]

\* c1 deploys to a target; c2 asks to deploy on every branch, which Parse
\* refuses.
MCPipelineOf ==
  [c1 |-> [docker |-> TRUE, image |-> "go", requires |-> <<>>,
           images |-> <<[repo |-> "app", keep |-> 1]>>,
           targets |-> <<[name |-> "test", kind |-> "branch", pattern |-> <<"*">>],
                         [name |-> "live", kind |-> "branch", pattern |-> <<"a", "*">>]>>,
           steps |-> <<Step("build", "run", "always"), Step("ship", "deploy", "live")>>],
   c2 |-> [docker |-> FALSE, image |-> "go", requires |-> <<>>, images |-> <<>>,
           targets |-> <<[name |-> "live", kind |-> "tag", pattern |-> <<"*">>]>>,
           steps |-> <<Step("build", "run", "tag"), Step("ship", "deploy", "branch")>>]]

MCDescends == {<<"c1", "c2">>}
=============================================================================
