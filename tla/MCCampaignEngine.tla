---------------------------- MODULE MCCampaignEngine ----------------------------
(* CampaignEngine on small sets of campaigns, contacts and calls. *)
EXTENDS CampaignEngine, TLC

Symmetry == Permutations(Contacts) \union Permutations(Requests)
                \union Permutations(Workers) \union Permutations(Campaigns)
================================================================================
