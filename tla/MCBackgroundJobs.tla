--------------------------- MODULE MCBackgroundJobs ---------------------------
(***************************************************************************)
(* Jobs for TLC to run: silent, short, chatty on one pipe or on both.      *)
(***************************************************************************)
EXTENDS BackgroundJobs

MCScripts ==
  {<<>>, <<"out">>, <<"out", "err", "out">>, <<"err", "err", "err">>,
   <<"out", "out", "out", "out", "out">>}
=============================================================================
