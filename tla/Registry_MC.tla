----------------------------- MODULE Registry_MC -----------------------------
(***************************************************************************)
(* Three mods, two of which register under the same name, and a menu.      *)
(***************************************************************************)
EXTENDS RegistryLinks

CONSTANTS PerkyPals, DynamicPals, PerkyPalsCopy

MC_Mods == {PerkyPals, DynamicPals, PerkyPalsCopy}
MC_TwoMods == {PerkyPals, DynamicPals}
MC_NameOf ==
    [m \in Mods |-> IF m = DynamicPals THEN "DynamicPals" ELSE "PerkyPals"]
===============================================================================
