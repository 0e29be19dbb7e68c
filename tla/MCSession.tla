----------------------------- MODULE MCSession -----------------------------
(* Session with one connector object and every kind of argument list.      *)
EXTENDS Session

MCArgLists == {<<"sent">>, <<"skipped", "sent">>, <<"sent", "stops">>}

\* For the runs that look at one disagreement each.
MCOneArg     == {<<"sent">>}
MCSkippedArg == {<<"sent">>, <<"sent", "skipped">>}

=============================================================================
