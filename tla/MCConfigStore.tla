--------------------------- MODULE MCConfigStore ---------------------------
(***************************************************************************)
(* Instance of ConfigStore: two subscriptions at one host.                 *)
(***************************************************************************)
EXTENDS ConfigStore

CONSTANTS u1, u2, T, H, r1, r2

MCUrls == {u1, u2}
MCHost == [u \in MCUrls |-> H]
MCRuleIds == {r1, r2}
MCPreset == <<r1, r2>>
=============================================================================
