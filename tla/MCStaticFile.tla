---------------------------- MODULE MCStaticFile ----------------------------
(* StaticFile for TLC.                                                     *)
EXTENDS StaticFile

From(a)    == [kind |-> "from", a |-> a, b |-> 0]
Span(a, b) == [kind |-> "span", a |-> a, b |-> b]
Suffix(n)  == [kind |-> "suffix", a |-> n, b |-> 0]

\* One range, two, past the end, more than the file, and no range at all.
SomeHeaders ==
    {<<Span(1, 5)>>, <<Span(0, 0), From(7), Suffix(1)>>, <<From(7)>>,
     <<Suffix(2), From(0)>>, <<Span(1, 0)>>}
=============================================================================
