SPECIFICATION FairSpec

CONSTANTS
    PerkyPals = PerkyPals
    DynamicPals = DynamicPals
    PerkyPalsCopy = PerkyPalsCopy
    Mods <- MC_Mods
    NameOf <- MC_NameOf
    Nobody = Nobody
    Menu = Menu
    ReloadThrows = TRUE

INVARIANTS
    TypeOK
    NamesUnique
    NoDanglingEntry
    MutexHeld
    CallbackOnLiveMod
    LibraryRefs

PROPERTIES
    UnloadCompletes
    ImplementsRoster
