SPECIFICATION Spec

CONSTANTS
    PerkyPals = PerkyPals
    DynamicPals = DynamicPals
    PerkyPalsCopy = PerkyPalsCopy
    Mods <- MC_TwoMods
    NameOf <- MC_NameOf
    Nobody = Nobody
    Menu = Menu
    ReloadThrows = FALSE

INVARIANTS
    CommitReachesShownMod
