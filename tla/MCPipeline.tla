----------------------------- MODULE MCPipeline -----------------------------
(* Pipeline for TLC: one route of each kind of handler.                    *)
EXTENDS Pipeline

Reflect(args, outs, under) ==
    [style |-> "reflect", args |-> args, outs |-> outs, under |-> under]
Generic(args, under) ==
    [style |-> "generic", args |-> args, outs |-> 2, under |-> under]

SomeRoutes ==
    [download |-> Reflect(<<"context">>, 0, TRUE),
     update   |-> Reflect(<<"struct", "token", "map">>, 1, TRUE),
     whoami   |-> Reflect(<<"token", "string">>, 2, FALSE),
     mistaken |-> Reflect(<<"context", "other">>, 1, FALSE),
     list     |-> Generic(<<"context", "struct">>, TRUE),
     mine     |-> Generic(<<"context", "struct", "token">>, FALSE)]
=============================================================================
