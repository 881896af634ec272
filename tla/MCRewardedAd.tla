---------------------------- MODULE MCRewardedAd ----------------------------
(* An instance of RewardedAd for TLC: two ads, so that the events of the   *)
(* second run the handlers of the first, and four buttons.                 *)
EXTENDS RewardedAd
=============================================================================
