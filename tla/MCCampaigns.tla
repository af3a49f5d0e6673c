------------------------------ MODULE MCCampaigns ------------------------------
(* Campaigns for TLC: guests and requests are interchangeable. *)
EXTENDS Campaigns, TLC

Symmetry ==
    Permutations(Guests) \cup Permutations(Calls) \cup Permutations(Invites)
================================================================================
