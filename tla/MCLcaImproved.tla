--------------------------- MODULE MCLcaImproved ----------------------------
(***************************************************************************)
(* Every graph of four papers, cyclic ones included, with a few lists of   *)
(* years: one that prefers a paper with a larger number, one of equal      *)
(* years, and one without two of the papers.                               *)
(***************************************************************************)
EXTENDS LcaImproved, TLC

MCVertex == 0 .. 3
MCCites == SUBSET {e \in MCVertex \X MCVertex : e[1] # e[2]}
MCPapers == {<<2, 2, 2>> @@ (0 :> 2), <<2, 1, 2>> @@ (0 :> 2), 1 :> 2 @@ 3 :> 1}
=============================================================================
