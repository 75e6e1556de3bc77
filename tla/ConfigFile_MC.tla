---------------------------- MODULE ConfigFile_MC ----------------------------
(***************************************************************************)
(* Small instances of ConfigFile: three settings, of which "wild" is out   *)
(* of range and loads as "low", one key the schema does not claim, and a   *)
(* handful of texts.                                                       *)
(***************************************************************************)
EXTENDS ConfigFileProps, TLC

MC_Values == {"default", "low", "wild"}
MC_Norm   == [v \in MC_Values |-> IF v = "wild" THEN "low" ELSE v]
MC_Extras == {"note"}

EditedBy(value, kept) ==
    [kind |-> "doc", value |-> value, kept |-> kept, form |-> "edited"]

\* A hand edit with an unknown key, bytes the mod itself may render, a typo, a
\* file an editor has truncated and not yet filled, and a number out of range.
MC_EditTexts ==
    { EditedBy("wild", {"note"}), Render("low", {}), Broken, Empty, Overflow }

\* For the runs where the number of texts is what costs most; the two documents
\* load differently.
MC_TwoDocs   == { EditedBy("wild", {"note"}), Render("default", {}) }
MC_DocOrTypo == { EditedBy("wild", {"note"}), Broken }
MC_Overflow  == { Overflow }

MC_MenuTexts   == { Render("low", {}), Broken, Overflow }
MC_OneMenuText == { Render("low", {}) }
MC_NoTexts      == {}

MC_Symmetry == Permutations(Marks)
==============================================================================
