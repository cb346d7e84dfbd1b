---------------------------- MODULE MCRouterGen ----------------------------
(* RouterGen for TLC: two files in two directories, one below the other.   *)
EXTENDS RouterGen

Func(fn, words, ok) == [fn |-> fn, words |-> words, ok |-> ok]
Source(funcs) == [parses |-> TRUE, funcs |-> funcs]
Torn == [parses |-> FALSE, funcs |-> <<>>]

SomeTexts ==
    <<{Source(<<Func("list", <<"5">>, TRUE), Func("login", <<"1", "2", "slow">>, TRUE)>>), Torn},
      {Source(<<Func("reset", <<"3", "4", "slow">>, TRUE), Func("info", <<>>, TRUE)>>),
       Source(<<Func("reset", <<"3", "4", "slow">>, FALSE)>>), Torn}>>

SomeDirs ==
    <<[package |-> <<"app", "app/user">>, relative |-> <<".", "user">>,
       output |-> TRUE, below |-> {{1, 2} \cup Runs, {2}}],
      [package |-> (2 :> "app/user"), relative |-> (2 :> "."),
       output |-> FALSE, below |-> {{2}}]>>

\* The runs differ in nothing; of the temporary files, a listing has at most one.
Alike == Permutations(Runs)
=============================================================================
