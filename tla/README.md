# A TLA+ model of PalCfg

PalCfg is a header-mostly C++20 library that game mods use for their settings: a
schema declared at compile time, a tolerant JSONC loader, a writer that keeps
what it does not know, a config file that reloads itself, and an optional DLL in
which mods register so that a menu can edit their settings. This directory holds
TLA+ models of it, the TLC runs that check them, and proofs checked by TLAPS.

Paths below are relative to the repository; `ConfigFile.hpp` stands for
`include/PalCfg/ConfigFile.hpp`, `File.cpp` for `src/core/File.cpp`, and so on.

## Inventory

| Component | State | Operations | Talks to | What makes it correct |
|---|---|---|---|---|
| **ConfigFile** (`ConfigFile.hpp`) | live settings, last text, last stamp, time of the last poll, callback, sink | `Load`, `LoadOrCreate`, `Tick`, `Save`, `ApplyDocument`, `Document`, `Get` | Load, Generate, File; its callback; the registry calls `Document` and `ApplyDocument` | live settings, last text, stamp and disk agree between calls; edits go live; its own writes are no edits |
| **File** (`File.cpp`) | the file, `<path>.tmp`, `<path>.bak` | `ReadFileText`, `StatFile`, `WriteFileIfChanged` | the file system, shared with editors | a whole old or new file; the old bytes survive in the backup |
| **Generate** (`Generate.hpp`) | none | `GenerateFile`, `GenerateMain` | Document, Write, File | a file that does not parse is not overwritten; unknown keys are kept |
| **Document** (`JsonBackend.cpp`) | parsed tree, error, sanitise report | `Parse`, views of values | Jsonc, vendored nlohmann/json | every bad text ends in an error, not an exception |
| **Load, Keys** (`Load.hpp`, `Keys.hpp`) | none | `LoadFields`, `LoadFromText`, path resolution, unknown keys | Coerce, Traits | absent keys give defaults, the primary key wins over aliases, pairs are in order |
| **Write** (`Write.hpp`, `Write.cpp`) | the text being built | `RenderDocument`, `Level`, `Carry` | Load's key rules | what is rendered loads back; nothing unclaimed is lost |
| **Coerce, Traits** (`Coerce.cpp`, `Traits.hpp`) | none | conversions, clamps | Document's views | no value outside type or range, no silent change |
| **Jsonc** (`Jsonc.cpp`) | none | BOM and trailing comma removal | Document | comments and strings untouched, offsets kept |
| **Utf** (`Utf.cpp`) | none | UTF-8 to and from wide strings | Traits, Paths | well-formed output for any bytes; well-formed text comes back |
| **Registry** (`registry/Registry.cpp`) | vector of entries, one mutex | `Register`, `Unregister`, `Count`, `Name`, `Schema`, `GetDocument`, `SetDocument`, `Free` | calls into mods with the mutex held | names unique; no entry of a mod that has gone; never inside a mod that has gone |
| **RegistryLink** (`Registry.hpp`, `src/win32/Registry.cpp`) | library reference, registration | probe, `Attach`, destructor, thunks | registry DLL, ConfigFile | unregister exactly if registered; references balance |
| Schema, Field; SchemaJson; Diagnostics, LogSink; Paths, Module | static tables, a log file | | | |

What is hard here: the config file is shared with programs that take no part in
any protocol, so an edit can fall between any two file operations; an operation
can fail half-way and the process can be killed between any two; three members
(`m_live`, `m_lastText`, `m_stamp`) summarise the disk and decide what `Tick`
skips; and the registry holds a mutex across a call into a DLL that may be
unloading. `PROJECT.json` lists these hazards line by line.

## Modules

| Module | Models | |
|---|---|---|
| `ConfigTexts` | what distinguishes one config text from another | data, no variables |
| `ConfigFile` | `ConfigFile.hpp`, `GenerateFile`, `File.cpp` | the state machine |
| `ConfigFileProps` | | its properties and inductive invariants |
| `ConfigFile_MC` | | small instances |
| `ConfigFileProof` | | theorems and proofs; that `ConfigFile` implements `SettingsStore` |
| `SettingsStore` | what a ConfigFile promises, without files, stamps and steps | abstract specification |
| `Registry` | the table of `registry/Registry.cpp` | operations on one entry |
| `RegistryLinks` | the mods' links, the library's reference count, a menu | composes `Registry` with its clients; properties at the end |
| `Registry_MC` | | small instances |
| `RegistryProof` | | theorems and proofs; that `RegistryLinks` implements `Roster` |
| `Roster` | what the registry promises, without table, indices and threads | abstract specification |
| `Documents` | `Load.hpp`, `Keys.hpp`, `Write.hpp`, with the parts of `Traits.hpp` and `Schema.hpp` they need | operators, no variables |
| `Versions` | versions of a mod, a menu and a person at one file | composes the operators into a machine; properties at the end |
| `Versions_MC` | | two schemas |
| `VersionsProof` | | theorems and proofs |
| `Numbers` | the arithmetic of `Coerce.cpp`, `JsonBackend.cpp`, `Diagnostics.cpp`, and `ValueTraits` for integers, `float` and `double` | operators, no variables |
| `Settings` | the other `ValueTraits`, and one setting that is loaded, set and saved | a small machine; its properties at the end |
| `Jsonc` | `Jsonc.cpp`, strings and comments of `Write.cpp`, the JSON library's lexer | operators and properties of a text |
| `Utf` | `Utf.cpp` | operators and properties of a text |
| `Conversions` | | composes the three: a behaviour has a setting or a growing text as its subject |
| `Conversions_MC` | | small instance |
| `Recursion` | | that functions defined step by step, forwards or backwards, exist; induction as a fact about sets |
| `NumbersProof`, `TextsProof`, `JsoncProof`, `ConversionsProof` | | theorems and proofs |

### ConfigTexts and ConfigFile

A text is a *document* (the settings it spells, the keys the schema does not
claim, and whether PalCfg rendered it or a person edited it), or it is empty,
broken, or an *overflow*: a text such as `{"x": 1e999}` on which the JSON library
throws `out_of_range`, which `Document::Parse` does not catch. Loading is a
function `Norm` from settings spelled to settings loaded; it need not be the
identity, nor idempotent, because clamps, coercions and swaps change values. A
stamp is an opaque mark that stands for a size and a modification time.

| Model | Code |
|---|---|
| `target`, `tmp`, `bak` | the file at `m_path`, `<path>.tmp`, `<path>.bak` |
| `live`, `lastText`, `stamp` | `m_live`, `m_lastText`, `m_stamp` |
| `due` | `now - m_lastPoll >= m_interval` |
| `pc`, `job` | the running call and its locals |
| `result` | how the last call ended: it returned, reported, or threw |
| `own`, `told` | history: whether the bytes at the path are this process's; the text last reported while the file keeps it |
| `Load`, `LoadOrCreate`, `LoadRead`, `LoadMiss` | `Load`, `LoadOrCreate` |
| `TickStat`, `TickRead` | `Tick` up to `Apply` |
| `ApplyLoads`, `ApplyRejects`, `ApplyThrows` | `Apply` |
| `Save`, `ApplyDocument`, `GenerateRead` | `Save`, `ApplyDocument`, `GenerateFile` |
| `Compare`, `WriteTmp[Fails]`, `RenameBak[Fails]`, `RenameTmp[Fails]` | `WriteFileIfChanged` |
| `Adopt`, `SaveStat` | the end of `Save` |
| `Notify`, `NotifyThrows` | the callback, and the end of a `Tick` that loaded or of `ApplyDocument` |
| `Edit`, `Delete`, `RestoreBackup`, `TimePasses`, `Crash` | the environment |

A call is cut where it touches the file system and where it calls the reload
callback; what lies between two such points is one step. `Faults` selects what the
environment does: edits in the middle of a call, edits that leave the stamp as it
was, failing reads, writes and renames, a lost flush, a callback that throws, and a
kill after which a new object is constructed on the same disk.

`SettingsStore` is what a mod and a person see of it: a text, what is left of the
one before it on a shelf, the live settings, and whether the mod is inside a call.
`StoredText` and `StoredLive` in `ConfigFileProps` are the refinement mapping: while
the file is moved aside the store still holds the text the save found, and the
rename of the temporary is the one step in which the text and the live settings
change together. The store does not promise that a failing replacement leaves the
text in place (`FallShort`), because the code does not: that is the finding of
`configfile_error`.

### Registry and RegistryLinks

`Registry` has the table, the mutex, and the work that `Register`, `Unregister`
and an index lookup do. `RegistryLinks` adds the life of each mod (`phase`), the
library's reference count (`refs`) and a menu (`menu`) that turns to an index,
asks for its name and document and commits. Each exported call is two or three
steps: take the mutex, look up, and for the two document calls a third in which
the mod's thunk runs with the mutex held and then returns. The menu is not in the
repository: its actions come from the exported functions and are marked external.

`Roster` is what a client can tell of it: a set of members of different names, the
mods that were refused, and the member that is answering the menu. Joining,
refusal, leaving and answering are one step each, whatever the order in which
threads take the mutex.

### Documents and Versions

`ConfigFile` is about when a file is read and written and takes loading and
rendering as given. `Documents` is about what they do. A document is a function
from paths to nodes, so that the recursive walks of the code become conditions on
paths: a path is unknown if every container above it is searched and nobody claims
it; a path is carried if it lies at or under an unclaimed member of a level that is
rendered. Spelling is kept (`LowerCase`), and so are keys that a person typed with
a dot in them, because loading and saving treat both differently.

| Model | Code |
|---|---|
| `FindChild`, `ResolvePath`, `IsUnderPath`, `KeysEqual` | `Keys.hpp` |
| `Source`, `Parsed`, `Clamp` | the loop over fields in `LoadFields`, an integral `Read`, `Detail::Clamp` |
| `SwapIfInverted` | the second loop, over pairs |
| `CollectUnknownKeys`, `ClaimedOnLoad`, `HasDescendant` | `CollectUnknownKeys` |
| `Levels`, `Claimed`, `Carry`, `RenderDocument` | `Renderer` |
| `Save`, `Commit`, `Reload`, `Start` in `Versions` | `Save`, `ApplyDocument` with a menu before it, `Tick`, `Load` in a new process |

`Versions` lets an old and a new version of a mod take turns at one file. The old
one matches keys exactly; the new one ignores case, has renamed a setting and kept
the old name as an alias, has dropped one setting of a nested object and added
others to it. Operations are whole: their overlap is the subject of `ConfigFile`.

### Numbers, Settings, Jsonc, Utf and Conversions

In `Documents` a value is a small number. Here it is everything a field can hold.
`Numbers` scales the widths down and keeps their order: a narrow integer fits a
double, a wide one does not, a float has fewer bits than a double, and literals
exist beyond each. It counts in halves, so that there are fractions, and rounds to
a significand as IEEE does (`Nearest`, with the powers of two of `Pow2`). The
decimal that a double is written as is nearest to that double, so the number itself
stands for it. The decimal of a float is the shortest that tells it from every other
float, generally another number, and it is read back as a double: `FloatDecimal` is a
constant that gives any decimal of which the float is the nearest one
(`DecimalsAssumption`). An
operation that returns `false` in the code returns the empty set; a cast the
language leaves undefined returns both ends of the type. `Numerals` and `Nodes` are
what the library can hold: a double is rounded already, an integer is within 64 bits.

| Model | Code |
|---|---|
| `ParseLiteral`, `AsInt64`, `AsDouble`, `Wrap` | a number in the JSON library, and the views of `JsonBackend.cpp` |
| `CoerceInt64`, `CoerceDouble`, `CoerceBool`, `CoerceUtf8`, `ParseNumber` | `Coerce.cpp` |
| `Clamp`, `Clamped`, `ReadInteger`, `ReadNumber`, `WriteNumber`, `AppendJsonNumber`, `AppendJsonFloat` | `Detail::Clamp`, the `ValueTraits` of the arithmetic types, the two overloads of `AppendJsonNumber` |
| `ReadEnum`, `WriteEnum`, `ReadElements`, `ReadList`, `Read`, `Write` | the other `ValueTraits` |
| `Load`, `Save`, `Set` in `Settings` | one field of `LoadFields` into a fresh struct; one field of `GenerateFile`; the mod or its menu |
| `TrailingCommas`, `NextSignificant`, `SkipComment`, `SkipString`, `StripBom` | `Jsonc.cpp` |
| `Escaped`, `AppendJsonString`, `AppendComment` | `Write.cpp` |
| `DecodeUtf8`, `AppendWide`, `AppendUtf8`, `Utf8ToWide`, `WideToUtf8` | `Utf.cpp` |

A text in a setting is a sequence of tokens, each a word or a number, so that one
token alone can be read as a scalar and several are a separated list. A text of a
file is a sequence of characters for `Jsonc`, and of bytes or wide units for `Utf`.
The JSON library enters as its lexer (`Lex`), written as a machine that takes one
character at a time, unlike the scanner, which looks ahead: that the two agree on
every text is the property. `WellFormedSequences` is the table by which the library
accepts bytes in a string; no decoder is involved in it.

## Runs

| Run | Checks | Shows |
|---|---|---|
| `configfile_safety` | `TypeOK`, `StampMatchesText`, `LiveMatchesText`, `Coherent`, `SaveOnCourse`, `NeverTorn`, `NothingLost`, `SaveKeepsKeys`, `SavedIsOnDisk`, `ImplementsStore` | with failing writes and renames, throwing callbacks and a kill anywhere, saves lose nothing, the shortcuts of `Tick` are sound, and the whole is a `SettingsStore` |
| `configfile_shared` | `SaveIsNoEdit`, `FailsOnce` | what still holds with edits in the middle of a call, edits that keep the stamp and throwing callbacks |
| `configfile_live` | `EditsGoLive`, `ErrorWritesNothing`, `NothingLost` | edits between calls go live, whatever the callback throws; a commit that fails at the first rename writes nothing; the old bytes survive a save that loses its last ones on close |
| `configfile_race` | `RewritesGoLive` | *violated*: an edit between the read of a file that is there and the stat after it is not loaded |
| `configfile_error` | `ErrorWritesNothing` | *violated*: a failing second rename leaves no file |
| `configfile_overflow` | `FailsOnce` | *violated*: an uncaught exception makes every poll fail again |
| `registry_safety` | `TypeOK`, `NamesUnique`, `NoDanglingEntry`, `MutexHeld`, `CallbackOnLiveMod`, `LibraryRefs`, `UnloadCompletes`, `ImplementsRoster` | three mods, two of one name, and a menu, in every order; a client sees a `Roster` |
| `registry_index` | `CommitReachesShownMod` | *violated*: an index outlives an unregistration and names another mod |
| `versions_safety` | `TypeOK`, `SavedReadsBack`, `UnknownKept`, `OtherVersionsKeepTheirs`, `LoadedIsInOrder` | what a version saves reads back, and what it does not know comes through its saves |
| `versions_case` | `UnknownKept` | *violated*: an unknown key in an object spelled in capitals is lost |
| `conversions_safety` | `TypeOK`, `TrailingCommasMatch`, `RenderedTextSurvives`, `WideTextSurvives`, `WrittenReadsBack`, `NoSilentChange` | what is saved loads as it was, what loads without a warning is what the file says, and no text breaks the file it is written to, up to the exceptions named below |
| `conversions_integers` | `TooLargeKeepsDefault` | *violated*: a literal above the signed 64 bits wraps into an `int` |

The violated runs are disagreements between the code and what the repository says
of it; `PROJECT.json` quotes both sides under "findings".

### Exceptions that the properties name

`WrittenReadsBack` holds but for the values of `Unspelled`, each of which is a thing
the code does: a `uint64_t` is never read back (`Traits.hpp:79` casts its limit to
-1); a 64-bit integer that is no double is written as the nearest one; an infinite
`float` is written as `inf.0`, which is no JSON; a `float` of `RoundedTwice` is read
back as its neighbour; an enum value without a name is refused; a number out of the
field's range is clamped, if the file's double of it is out of the range too; an
empty list and an unset optional are no answer to a load.

`RoundedTwice` is the `float` whose shortest decimal, rounded to a double, falls
exactly between two floats: `0x15AE43FD` is written as `7.038531e-26`, of which the
nearest double is such a midpoint, and the tie goes to the even `0x15AE43FE`
(`Write.cpp:87-90`, `Traits.hpp:98-103`).

`NoSilentChange` names three numbers that a load alters without a Warning. `Wraps`: an
unsigned literal above the signed 64 bits, which `conversions_integers` is about.
`ThroughDouble`: an `int64_t` that is no double, or is 2^63, and is then one of the
outcomes of casting its nearest double, and nothing else. `BeyondFloat`: a number
beyond the largest `float`, which becomes an infinity. Every other number is the one in
the file, cut to a whole one for an integer, rounded to a double, or rounded to a
double and then to a finite `float`. TLC finds each of these exceptions needed: without
any one of them the property is violated.

`CommasMatch` and `RenderedSurvives` except a carriage return without a line feed,
which ends a comment for the library only.

### Disagreements without a run

These take one step to see, or an assumption no run makes:

- Between the two renames of a save there is no file at the path (`File.cpp:74-84`);
  `File.hpp:44-45` says that a reader sees the whole old or the whole new file.
- A reload callback that throws turns a commit that was saved into an Error
  (`Registry.hpp:148`), which the registry's design document reads as not applied.
- `README.md:179` lists every integral; `uint64_t` is the exception (`Uint64Unread`).
- `Write.hpp:38` has the shortest form that reads back as the same value. For a `float`
  it reads back as the same value as a `float`; the loader reads it as a double first,
  and the floats of `RoundedTwice` change.
- `Diagnostics.hpp:31-33` has a Warning for what was altered: a number beyond the largest
  `float` becomes an infinity without one (`InfinityLoadsSilently`), and the next save
  writes a file that does not parse.
- The same lines have a Warning for what was discarded: a bad entry of a list and the
  fraction of a number read as an integer go without one.
- `Traits.hpp:345` says that null reads back as unset: it gives the declared default.
  `Traits.hpp:396-397` says that an enum value without a name still reads back.
- `README.md:280-281` has one U+FFFD for each maximal subpart; for an overlong or
  surrogate sequence of three bytes the code gives one, where Unicode gives three.
- A `std::string` that is not UTF-8 is written as it is, and the file does not parse.

### Bounds

- Three settings, one of which ("wild") loads as another: enough for a saved value
  that differs from the default, from the edited one and from its own
  normalisation. One unclaimed key: kept or lost.
- The texts of `ConfigFile_MC`: a hand edit with an unknown key, a text the mod
  might have rendered itself, a broken one, an empty one, an overflow. The runs with
  liveness have the two documents of `MC_TwoDocs`, which give different settings.
- Four or five marks. At most five files or recorded stamps need distinct ones at
  once (target, temporary, backup, `m_stamp`, the stamp of a running `Tick`); a
  mark in none of these places may be used again, which no member can notice, as
  it compares with recorded stamps only. Marks are a symmetry set in the runs
  without liveness.
- Three mods, two with one name, and every index up to their number: a table that
  loses an entry in the middle and an index past the end both happen.
- `Versions_MC`: keys of up to two segments, two spellings of each, one alias;
  numbers below, in and above a range; one edit by the person (`EditBound`, two in
  `versions_case`) on top of a first file that is empty or has a capital spelling
  beside an alias, a dotted key and an unknown member of a nested object. The only
  counter capped in the project is `edits`; saves, commits, reloads and changes of
  version are unbounded, as is everything in the other machines.
- `Conversions_MC`: a narrow integer is one of -4..3 or 0..7 and a wide one of -32..31
  or 0..63; a double has four significant bits and a float two. These are the
  least for which every edge of the code is a value of its own: a wide integer that
  is no double, an upper limit that rounds up, a double that is no float, a double
  exactly between two floats that is not the decimal it was read from, a literal for
  each representation in the library and one beyond. `MC_FloatDecimal` gives four
  floats a decimal that is another number: one comes back although its double is a
  midpoint, one does not, and two are read as a double beside them. The literals stand on both
  sides of each edge, as whole numbers, fractions and text.
- Texts grow symbol by symbol up to `Bound`: six characters of a file (a string with
  an escape, or a comma, a comment and a bracket), four in a setting (rendered
  twice, so about twenty in the file), four bytes (the longest sequence, damaged
  anywhere) and three or four wide units (two pairs). The alphabets hold one symbol
  on each side of every edge of the encodings.

### Fairness

`ConfigFile`: a call that has begun goes on (`WF(CallStep)`: the steps are
straight-line code), time passes, and the game loop calls `Tick` again and again
whatever other calls it makes (`SF(TickStat)`: `Tick` is enabled only between
calls, and README.md has the mod call it from its update hook). Nothing is assumed
of editors, saves, faults or menus. `Versions` and `Conversions` have safety
properties only.

`RegistryLinks`: a thunk that was called returns, a destructor that has begun goes
on, and a thread waiting for the mutex is not passed over for ever. `std::mutex`
does not promise the last; it is the assumption under which `UnloadCompletes` can
be asked at all, and is stated as strong fairness of `UnregisterLocks` alone.

## Proofs

All theorems hold for every value of the constants, under the named assumptions
of the modules and those stated here. *Undisturbed* means: no edits in the middle
of a call, no edit that keeps the stamp, no failing read of an existing file.
*WholeWrites* means that no flush is lost. Writes and renames may fail, callbacks may
throw, and the process may be killed at any step.

| Theorem | Assumes | By |
|---|---|---|
| `TypeCorrect` | | inductive as it stands |
| `CoherentInv`, and from it `StampMatchesTextAlways`, `LiveMatchesTextAlways` | Undisturbed | `Coherent` |
| `SaveOnCourseAlways`, and from it `NothingLostAlways` | Undisturbed | `SaveOnCourse` |
| `NeverTornAlways`, `SaveKeepsKeysAlways`, `SavedIsOnDiskAlways` | Undisturbed, WholeWrites | `SaveOnCourse` |
| `ErrorWritesNothingAlways` | Undisturbed, and the second rename does not fail | `SaveOnCourse`, `CallOnCourse` |
| `SaveIsNoEditAlways` | no failing read | `OwnSeen` |
| `FailsOnceAlways` | no failing read, no text that throws | `ToldIsRead`, `NothingThrows` |
| `StoreImplemented` (`ImplementsStore`) | Undisturbed, WholeWrites | `Coherent`, `SaveOnCourse` |
| `NamesUniqueAlways`, `NoDanglingEntryAlways`, `CallbackOnLiveModAlways`, `MutexHeldAlways` | finitely many mods | `RegistryInv` |
| `LibraryRefsAlways`, `RegistryTypeCorrect` | finitely many mods | `RegistryInv`, `RefsCounted` |
| `RosterImplemented` (`ImplementsRoster`) | finitely many mods | `RegistryInv` |
| `VersionsTypeCorrect`, `LoadedIsInOrderAlways` | | inductive as it stands; `SwappedInRange` |
| `UnknownKeptAlways`, `OtherVersionsKeepTheirsAlways` | objects spelled as declared, or exact keys; every object has a field that is written | `FileAsDeclared`; `ShortestUnowned`, `RootKept`, `PreferredFound` |
| `SavedReadsBackAlways` | one spelling of each object in a schema, or exact keys; a field that is not written has no alias | `OneSpellingSaved`, `ParsedBack` |
| `NearestIdempotent`, `NearestOrdered`, `NearestMonotone`, `FloatHolds` | | multiples of the unit in the last place |
| `DoubleRounding` | the double is the number itself, or not exactly between two floats | `RoundsBetween`, `BetweenUnits`: the two floats around a number are around its double too |
| `Uint64Unread`, `IntegersFit` | the widths are in order | remainders modulo the width |
| `NumbersHold`, `ReadHolds`, and from them `ConversionsTypeCorrect` | | inductive as it stands |
| `NumbersUnchanged` (`NoSilentChange`) | | `IntegerUnchanged`, `FloatingUnchanged` |
| `InfinityLoadsSilently` | a float without a range | `Float` has no other outcome |
| `ReadsBack`, and from it `SavesReadBack` (`WrittenReadsBack`) | `DecimalsAssumption` | `Saved`; `NumberReadBack`, `FloatReread`, `ElementsReadBack` |
| `Decoded`, `Encoded` | bytes are below 256 | one lemma per length of an encoding |
| `BytesSurviveAlways`, `UnitsSurviveAlways`, and from them `WideTextSurvivesAlways` (`WideTextSurvives`) | what a `char` and a `wchar_t` hold | induction on the length, a code point at a time |
| `SameCommas`, and from it `TrailingCommasMatchAlways` (`TrailingCommasMatch`) | | backwards induction over the positions, with `Adds` |
| `StringRead`, `CommentRead`, and from them `RenderedTextSurvivesAlways` (`RenderedTextSurvives`) | | `SameCommas`; induction over the pieces, with `Stands` |

The two shortcuts of `Tick` are facts about the moments between calls, and not
inductive: while a call runs, what it has read and written so far must match the
disk. `Coherent` adds that (`CallAgrees`), that the backup cannot bring back a
stamp under which other bytes were read (`StampAgrees`, `MarksDiffer`), and that
from the rename to the last stat of a save the recorded stamp lags behind.

`SaveOnCourse` follows one save: until the file is moved aside it is the one the
save found; the text to write spells the value and carries the keys of that file;
the temporary is that text; what stands at the path after the second rename is
that text. The properties of saves each read one of its lines at one step.

`FailsOnce` rests on one fact: the text a `Tick` has failed on stays the last text
read for as long as the target keeps it (`ToldIsRead`), so that the next `Tick`
returns at the comparison. A callback that throws does so after the text was
recorded, so it is called once on it. A text that makes the parse throw is never
recorded, which is the finding of `configfile_overflow` and why the theorem excludes
it.

`RegistryInv` ties the four things that must move together: names in the table,
the table against the phases of the links, the mutex against who is inside a
call, and the entry being called. `UnregisterFacts` is the step that matters, the
one that takes an entry out of the middle. `LibraryRefs` is a count: `HoldersMove`
says how a step of one mod moves the number of holders.

The two refinement theorems take the same invariants one step further: for every
action of the detailed module one step says which action of the abstract one it is,
or that nothing the abstract one shows has changed. In `StoreImplemented` most steps of a
call are stutters; `RenameTmp` is the commit, and needs `SaveOnCourse` for the
backup to hold what is being replaced. In `RosterImplemented` the mutex is what makes the
lookup and the change one step: an entry that is being served is in the table
because its unregistration waits.

`VersionsProof` is about any schemas and documents, with keys and paths of up to three
names as `Documents` has them, and each version may have its own rule for keys. A
property here is about what one load or one save does to a document, so types are
nearly all that must be invariant. The argument for what a save keeps: a key is
*owned* if some field lives at or below it. Of the prefixes of a key that is not owned
take the shortest that is not owned either. What it stands in is an object the
rendering opens (`ShortestUnowned`), so `Carry` finds it there, unclaimed
(`OutsideIsUnclaimed`), and takes it with all below it; and nothing else is written
there (`RootKept`). Unknown keys, and keys of other versions, are neither owned nor at
or below a field (`UnknownIsOutside`, `ElsewhereIsOutside`). What another version finds
under a key is the preferred of its spellings (`PreferredFound`), and the spellings in
the file are the same before and after.

Both assumptions are needed. A version that ignores case claims an object in any
spelling and opens it in its own: `ObjectsAsDeclared` says that the schemas, the first
file and the person spell objects alike, as far as a version ignores case, and then the
file goes on doing so (`FileAsDeclared`, an invariant). The names of fields may be
spelled in any way. `versions_safety` satisfies it; `versions_case` does not, and is the
counterexample. The second assumption came out of the proof: an object whose every
field is of a type without `Write` is claimed but not opened, and the unknown keys in
it are lost.

`SavedReadsBackAlways` asks nothing of the file or the person: whatever they spelled
otherwise, nothing but a field's own path follows its key in a file just saved
(`OneSpellingSaved`). What was rendered is spelled by the schema, and what was carried
stands beside it under a name that no field claims in any case. The schema must not
spell one object in two ways, for then two objects are rendered and a load looks into
only one.

A value of a setting goes through a chain of conversions, each of which may round,
cut, wrap or clamp, at widths that are constants. The proofs about it rest on three
facts about rounding, for any number of significant bits: what was rounded stays as
it is (`NearestIdempotent`), and rounding does not carry a number past one that is
exactly held (`NearestOrdered`), nor past the rounding of another
(`NearestMonotone`). From the second the limits of a type may be compared
as doubles although they round; from the first a double that was written reads back. A float takes one more: its
decimal is rounded to a double, and that to a float. `DoubleRounding` says that this is
the same as rounding the decimal to a float, which gives the float it was written for,
unless the double is a midpoint and the decimal is not; and the third keeps a range
between the float and its decimal from moving it (`FloatReread`).
`IntegersFit` says that no integer leaves its type, although the limits are compared
after a wrap and the cast from double may be undefined; `Uint64Unread` is the same
comparison at the one type whose limit does not survive the wrap. `NumbersUnchanged`
and `SavesReadBack` then follow the chain in either direction, and each exception that
`NoSilentChange` and `Unspelled` name is a case in which a step of the proof fails.
A list is read by recursion on its length. `ElementsReadBack` needs induction on it,
which is done with a set in place of a predicate (`Recursion`): the elements read so
far are the elements written so far is a set of lengths, closed under the next one.

What `Utf` does to a text is proved a code point at a time. `Decoded` and `Encoded`
say of one sequence, at any place of any text, that decoding and encoding invert each
other and that the decoder goes on where the sequence ends; they rest on shifts and
masks written as quotients and remainders. Each of the four recursive functions (`Utf8ToWide`,
`WideToUtf8`, `WellFormedUtf8`, `Ascii`) skips ahead by an amount it reads from the text, so that
each is first shown to exist (`BackwardExists` in `Recursion`) and then to be the
concatenation of what it gives for the first code point and for the rest (`ToWideHead`,
`ToUtf8Head`, `WellFormedHead`, `WellFormedTail`, `AsciiConcat`). `BytesSurviveStep` and
`UnitsSurviveStep` put these together, and the induction is on the length of the text.
The delicate step is a damaged sequence: that it consumes no plain character
(`DecodeFacts`), and that a text which is well-formed as a whole is cut by the decoder
where the table of well-formed sequences cuts it (`WellFormedTail`, `CutOnce`).

`Jsonc` has two readers of one text: the scanner jumps over strings, comments and what
follows a comma, and the lexer reads a character at a time and remembers. `SameCommas`
joins them by what is left to do: `Adds` says, for each mode of the lexer at a position,
which commas the rest of the text adds to those it knows of, in terms of the scan begun
there or at the end of the string or comment it is inside. That holds at the end of
the text, and before a character if it holds after it (`AddsBefore`). The one place where
the two readers differ is a carriage return without a line feed inside a line comment,
which is what `BareReturn` excludes. For what a save writes, `Stands` says how far the
lexer has come: its mode, the pending comma, no trailing comma, and the strings read. Each
string and each comment is put behind a text of which that is known, piece by piece
(`PieceRead`); the text of a help comment may end a line, and with it the comment, but
then the next piece begins another.

The theorems about `Conversions` use the assumptions on its constants: the widths are
in order (`NumbersAssumption`), -2^63 and the largest finite numbers are numbers their
types hold (`EndsAssumption`), a float is the nearest to its decimal (`DecimalsAssumption`),
the fields, what they default to and what the mod sets
them to are of their types, a file holds nodes at first, and "true" and "false" are
words of a text (`SettingsAssumption`), and the symbols of a text fit in a `char` or a
`wchar_t` (`AlphabetAssumption`). Lists of 64-bit integers, an element of
which may be read in two ways, are left out by the last. TLC evaluates them in both runs.

Only model-checked: liveness (`EditsGoLive`, `UnloadCompletes`), which is beyond the
prover. Every invariant and every action property of the passing runs is the subject of
a theorem.

## Not modelled, and why

- Member order, indentation, and `WriteHelp`, which decides whether help texts are
  written at all. Trimming and the case of letters in scalars read from text.
- Lists in lists and optionals in lists: elements are scalars in `Fields`.
- Schemas with a field at or under the key of another, or with two spellings of one
  key: nothing in the code rules them out, and `WellFormed` does.
- `Get()` from other threads: one atomic load of a shared pointer.
- A reload callback that calls back into the ConfigFile before it returns, or into the
  registry (the comment at `Registry.cpp:49-52` excludes the latter).
- Directory creation in `WriteFileIfChanged`: its error code is dropped, so it
  shows only as a temporary that cannot be opened, which is modelled.
- `GenerateMain`, the sinks and `FormatDiagnostic`: an exit code, one comparison and a
  line of text around operations that are modelled.
- Schema tables, SchemaJson, Paths, Module lookup: static data, formatting and
  Win32 calls without a protocol. The vendored JSON library, of which `Lex`,
  `ParseLiteral` and the kinds of text are all that is used, and the build files.

## Plan

What a continuation would take up, in this order:

1. A `Settings` with the menu's clamp in between, composed with `ConfigFile` in place
   of the opaque `Norm`.
2. Keys and paths of more than three names in `Documents`, with `Dotted` as a fold.
