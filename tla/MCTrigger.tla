----------------------------- MODULE MCTrigger ------------------------------
(***************************************************************************)
(* A repository on GitHub with a fork and one on GitLab.  The addresses in *)
(* the pipelines have the spellings of README.md and of webhook_test.go.   *)
(***************************************************************************)
EXTENDS Trigger

Hub  == <<"hub", "app">>
Fork == <<"hub", "Fork">>
Lab  == <<"lab", "app">>

MCName == {"hub", "Hub", "lab", "Lab", "app", "App", "Fork", "fork"}
MCSmall ==
  [Hub |-> "hub", Lab |-> "lab", App |-> "app", Fork |-> "fork", PR |-> "pr", Push |-> "push"]
MCRepo == {Hub, Fork, Lab}

Chain == <<[name |-> "build", deps |-> {}], [name |-> "test", deps |-> {"build"}]>>
Fork2 == <<[name |-> "lint", deps |-> {}], [name |-> "test", deps |-> {}],
           [name |-> "build", deps |-> {"lint", "test"}]>>
Own   == <<[name |-> "clone", deps |-> {}]>>

Def(repo, events, branches, stages) ==
  [repo |-> repo, events |-> events, branches |-> branches, stages |-> stages]

MCDefinition == {Def(<<"git", "@", "hub", ":", "app", ".git">>, {}, {}, Own)}

MCKnown ==
  {[p |-> Def(url, {"Push"}, {}, Chain)] : url \in Spellings("Hub", "app")}
  \cup {[p |-> Def(<<"ssh", "://", "git", "@", "hub", "/", "app", ".git">>, {"PR"}, {"main"}, Fork2),
         q |-> Def(<<"hub", "/", "fork">>, {}, {}, Chain)],
        [p |-> Def(<<"https", "://", "Lab", "/", "App">>, {"push", "mr"}, {"main"}, Fork2),
         q |-> Def(<<>>, {}, {}, Chain),
         r |-> Def(<<"lab", "/", "app", ".git", "/">>, {}, {}, Chain)]}

MCRequest ==
  {[repo |-> <<>>, branch |-> "", commit |-> None],
   [repo |-> CloneURL(Hub), branch |-> "", commit |-> 1],
   [repo |-> CloneURL(Fork), branch |-> "topic", commit |-> None]}
=============================================================================
