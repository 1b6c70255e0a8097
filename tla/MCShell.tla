------------------------------ MODULE MCShell -------------------------------
(***************************************************************************)
(* Lines of up to four commands that come to an end by themselves.        *)
(***************************************************************************)
EXTENDS Shell

MCLines ==
  { <<>>, <<"missing">>, <<"filter", "filter">>,
    <<"source", "filter", "filter">>, <<"source", "", "filter">>,
    <<"missing", "source", "filter">>, <<"missing", "filter", "filter">>,
    <<"endless", "head">>, <<"endless", "filter", "head">>,
    <<"endless", "filter", "missing">>, <<"source", "head", "filter">>,
    <<"source", "filter", "filter", "filter">>, <<"endless", "filter", "filter", "head">> }
=============================================================================
