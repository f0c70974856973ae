----------------------------- MODULE MCExtraction -----------------------------
(***************************************************************************)
(* Three episodes in one scope: one before, one during and one after a run *)
(* of either worker.                                                       *)
(***************************************************************************)
EXTENDS Extraction

MCEpisodes == {"reminder", "note", "other"}
MCScopeOf == [e \in MCEpisodes |-> "mr"]
=============================================================================
