----------------------------- MODULE MCManifest -----------------------------
(***************************************************************************)
(* An instance of Manifest for TLC: the weapon, its damage type and its    *)
(* slot have the same hash.                                                *)
(***************************************************************************)
EXTENDS Manifest

CONSTANT gun

MCDamageOf == gun :> gun
MCSlotOf == gun :> gun
MCExists == {<<"item", gun>>, <<"damage", gun>>, <<"slot", gun>>}
=============================================================================
