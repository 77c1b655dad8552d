----------------------------- MODULE MCLinkPool -----------------------------
(***************************************************************************)
(* LinkPool with values for TLC.  With four links and two workers, a       *)
(* worker takes several links and fails twice in a row, both workers fail  *)
(* at the same time, and a list may be shorter than the pool.              *)
(***************************************************************************)
EXTENDS LinkPool

MCMaxLinks == 4
MCDefaultWorkerCount == 2
=============================================================================
