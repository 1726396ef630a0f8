-------------------------- MODULE MCCampaignEngine --------------------------
(* Instances of CampaignEngine for TLC.  Engines has one state object per   *)
(* possible claim (one per request, one for the boot), so NewEngine always  *)
(* finds one.                                                              *)
EXTENDS CampaignButtons, TLC

\* Request slots are interchangeable; used by the runs of safety properties.
Symmetry == Permutations(Requests)

ASSUME EnginesSuffice == Cardinality(Engines) > MaxRequests
=============================================================================
