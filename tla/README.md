# TLA+ models of the OpenSprinkler plugin

This directory models `src/OpenSprinkler.py` in TLA+, the single source file of the
Indigo OpenSprinkler plugin. The models are checked with TLC, and part of what they
say is proved with TLAPS. Every definition is translated from the Python source.
`PROJECT.json` maps each definition to the lines it models, and lists the runs, the
mutants, the findings and the hazards.

## The system

The module has four classes and a demo script.

| Part | Lines | What it does |
|---|---|---|
| `OpenSprinklerController` | 38-333 | It is built from one `/ja` JSON snapshot. The constructor (47-166) works in four steps. First it builds a 73-entry property table and resolves each entry against the snapshot. Then it sets `controller_enabled`. Then it decodes stations from four flag bytes and two arrays. Finally it decodes programs from `programs.pd`, all inside one `try`/bare `except`. It also has getters, `getProperty` and `setProperty`. |
| `OpenSprinklerStation` | 336-451 | A record: a name, a status, an index and four flags. `refresh` and `turnOn` are stubs. |
| `OpenSprinklerProgram` | 454-667 | The constructor runs a chain of setters inside one `try`. The setters cover the flags, the weekday or interval schedule, the fixed or repeating start times and the durations. |
| `OpenSprinkler` | 670-826 | The device. `executeCommand` sends one HTTP request. `getController` fetches `/ja` and constructs a controller. `getStations`, `getPrograms`, `startProgram` and `startStation` go through the `controller` attribute. |
| exception classes | 831-911 | `OS_Exception` and its subclasses. |

How the parts interact:
- The device calls `executeCommand`, then the controller constructor.
- The constructor calls the station and program constructors.
- `controller_stations` and `controller_programs` are class attributes of the controller, and the constructor appends to them. Every controller instance therefore shares one station list and one program list. This is the main piece of state that lives longer than a single call.
- The code is single-threaded and synchronous. It has no locks, no callbacks and no retries. The only external interaction is one blocking HTTP request.

## Modules

| Module | Models | State / actions |
|---|---|---|
| `BitMasks` | Python `x & 2**k` and truthiness | `Mask(x, m) = x % 2m - x % m` is the code's mask. `BitSet` is an independent reference used only by the properties. |
| `PropertyRegistry` | the property table, its resolution loop (124-130), `getProperty`, `setProperty` | Pure operators. The table keeps 7 of its 73 entries, in source order. It keeps the first entry because `getProperty` only ever looks at that one. It keeps the entries the constructor reads, `location` and one derived entry. The other entries resolve exactly like `location`. The names the remaining getters ask for (`hardware_version`, `firmware_version`, `wunderground_api_key` and others) are left out. `getProperty` raises for every name but the first entry's, whether the name is listed or not. |
| `StationDecoder` | the station reads and loop (133-150), `OpenSprinklerStation.__init__` | `StationCount(s)` is the number of loop iterations that complete: up to `nstations`, stopping at the first index missing from `snames` or `sn`. The count is 0 when a header read raises. `NewStation` stores the integer flags `byte & 2**idx`. |
| `ProgramDecoder` | `OpenSprinklerProgram` | Variables: `program`, the last object built, and the ghost `call`, which holds its arguments. Action: `Construct(a)`. `NewProgram` follows the setter chain. It includes the `NameError` that `setFixedStartTimes` raises, after which `setDurations` never runs. `UsedStartTimes` is the `for sTime in sTimes: if sTime > 0` loop, written as a recursive function over the loop index. The properties check it against an independent reference, `ListsNonZeroSlots`: a strictly increasing numbering of exactly the non-zero slots, as spec 4.3 words it. Start times are naturals (`ProgramInputsAssumption`), because the firmware packs each one into an unsigned 16-bit word. So the code's `> 0` and the spec's non-zero coincide. |
| `SnapshotAssembler` | the controller constructor and `setProperty` | Variables: the shared `controller_stations` and `controller_programs`, the newest `controller` (its table and `enabled`), and the ghosts `constructed` (snapshots, oldest first) and `written` (property names set since then). Actions: `Construct(s)`, which is the whole constructor as one step, and `SetProperty(n, v)`. `PD` instantiates `ProgramDecoder` for the program loop. |
| `PropertyStore` | what the property table promises (spec 3, 4.1) | The abstract specification: one value per registered name in `store`. `Load(s)` resolves every name against snapshot `s`, and `Write(n, v)` overwrites one registered name. `SnapshotAssembler` implements it under the mapping `StoreOf`. |
| `Device` | `OpenSprinkler` | Variables: `device_controller` (the class object, or an index into `constructed`), `outcome` (what the last call returned or raised), the ghost `lastCall` and `inflight` (the response of a `getController` request still blocked in `getresponse()`). Actions: `SendGetController(r)` opens the request and `ReturnGetController` completes it for each transport result `r`. The other actions are `GetStations`, `GetPrograms`, `StartProgram(ref)` and `StartStation(ref)`. The assembler's own `Next` is also allowed while no request is blocked: a client may construct controllers or set properties directly. A `hang` response never returns. |
| `ControllerQueries` | the getters (201-292) | Variable: `reply`, what the last getter returned or raised. There is one action per getter. Each one runs on the newest controller and changes none of its attributes. `getWxStatus`, `getFirmwareVersion` and the getters built on `getProperty` raise `NameError` where the code reaches an undefined name. |
| `SnapshotAssemblerProofs`, `ProgramDecoderProofs`, `DeviceProofs`, `ControllerQueriesProofs` | — | The TLAPS proofs, one module per component. |
| `MC*` | — | The instances TLC checks. |

How the models abstract the program:
- Logging, printing and the wording of messages are left out.
- An exception is modelled by where it interrupts the control flow and by its name as an outcome label.
- Python's int/str distinction matters at line 732, so values there carry a type tag (`PyEq`).
- One construction is one TLA+ step. This is exact, because nothing else can run while the constructor runs.

## Runs

| Run | Config | Expect | Shows |
|---|---|---|---|
| program_decoding | `MCProgramDecoder.cfg` | pass | All 128 flag bytes, two `days0` masks and two start-time vectors decode as the spec's bit table says: the flags and weekday mask (`FlagsDecodedAsSpecified`) and the repeating start times (`StartTimesDecodedAsSpecified`). `StartTimesDecodedAsSpecified` says that the list has one entry per non-zero slot, in slot order, and that each entry decodes from its own slot. The vectors are `<<10270, 0, 4106, 360>>` and `<<12318, 0, 2093, 0>>`. They cover Sunset+plus, Sunrise+minus, Midnight+minus, Sunset+minus (both basis bits), Midnight+plus and skipped zeros. 513 states. |
| program_interval | `MCProgramDecoder_interval.cfg` | violation | An Interval program has interval = days0 and delay = days1, the reverse of the spec (F4). |
| program_fixed | `MCProgramDecoder_fixed.cfg` | violation | A Fixed program loses its start times and its durations (F5). |
| assembler_safety | `MCSnapshotAssembler.cfg` | pass | `TypeOK`, `StationsAreHistory` and `EnabledMirrorsProperty` hold over up to 3 constructions interleaved with writes to known and unknown property names. 4645 states. |
| assembler_refinement | `MCSnapshotAssembler_refinement.cfg` | pass | `PropertiesRefineStore`: the table implements `PropertyStore`. Every construction is a `Load` of its snapshot, every `setProperty` on a registered name is a `Write`, and every other step is a stutter. |
| assembler_station_ids | `..._StationIdsUnique.cfg` | violation | Two constructions put station 0 twice into the shared list (F2). |
| assembler_atomic | `..._ConstructionAtomic.cfg` | violation | A short `snames` still yields a controller, and the two stations read before the `IndexError` stay on the shared list (F3). The run uses `MCShortSnapshots` (`Full` and `Short`), so the trace is this case. The snapshots with no stations section fail the same way, at the header read. |
| assembler_programs | `..._ProgramsDecoded.cfg` | violation | A complete snapshot with a well-formed program yields no programs (F1). |
| device | `MCDevice.cfg` | pass | `DeviceTypeOK` holds under every call and every transport outcome, with direct constructions interleaved. 18925 states. |
| device_hang | `MCDevice_hang.cfg` | violation | With a device that accepts the connection and never answers, `getController` never returns (F7). |
| queries | `MCControllerQueries.cfg` | pass | `GettersReadStore`: a getter that returns normally returns the controller's current value (`StoreOf`) of what it reads. This holds between any constructions and writes. 21781 states. |
| device_fetch | `MCDevice_fetch.cfg` | violation | A 200 answer with valid JSON still leaves the device holding the controller class (F6). |

The snapshots in `MCSnapshotAssembler` are chosen so that every branch of the constructor is taken:
- `Full`: 2 stations and 1 program, with flag bytes 5, 2, 1 and 0.
- `Short`: `nstations` 3 but only 2 names, so the loop raises at index 2.
- `Nine`: 9 stations, so indices past the one-byte ceiling are reached.
- `NoEn`: `settings.en` is missing, so the first read of the `try` raises and `enabled` keeps its default.
- `NoStns`: no flag arrays.
- `Empty`: no sections at all.

Why the bounds are enough:
- Three constructions suffice to show accumulation across instances, and a property write can land between any two of them.
- The property names include `enabled`, a plain property and an unknown name, which covers all three paths of `setProperty`.
- The device run covers a refused connection, an unparsable body, 200 and 401.
- The station references are in range (0), past the end (3), negative (-1) and a name. The program references are a number and a name.

Fairness: `FairDeviceSpec` assumes weak fairness of `ReturnGetController` only, and only the `device_hang` run uses it. It is written `WF_inflight`, because every return step empties `inflight`. The code justifies this. Once the device has sent its answer, `getresponse()` returns, and the caller does nothing else while it waits. No fairness is assumed for the other actions, because they are calls a client may or may not make.

The liveness property `GetControllerReturns` (every request sent returns) is checked only where it can fail. For a device that answers, it follows from the fairness assumption alone, so no passing run checks it. For a device that never answers, the return step is never enabled, and fairness does not help. The `device_hang` run shows that the property then fails. There is no timeout at line 716, so the caller blocks forever.

### Mutants

Each property of a passing run is broken by a plausible bug in the definition it depends on:

| Property | Mutated definition | Mutant |
|---|---|---|
| `TypeOK` of `ProgramDecoder` | `Restriction` | The final `else` is missing, so the restriction keeps the class default `''`. |
| `FlagsDecodedAsSpecified` | `Restriction` | The Even test comes before the Odd test. |
| `StartTimesDecodedAsSpecified` | `setRepeatingStartTimes` | The unused zero slots are decoded too. |
| `TypeOK` of the assembler | `setProperty` | An unknown name is appended to the table. |
| `StationsAreHistory` | `NewStation` | The masks use 1-based indices. |
| `PropertiesRefineStore` | `Construct` | The table carries over from the previous instance. |
| `EnabledMirrorsProperty` | `ControllerEnabled` | `enabled` is set whenever the key exists, whatever its value. |
| `DeviceTypeOK` | `ReturnGetController` | The failure path resets the attribute to `None`. |
| `GettersReadStore` | `GetProperties` | `getProperties` reads the class-level template, not the instance's table. |

## Findings

| # | Line | Finding |
|---|---|---|
| F1 | 201-209 | `getProperty` raises for every name except the first entry's, and the name it raises (`UnknownPropertyError`) is itself undefined. As a result no program is ever decoded. |
| F2 | 43, 149 | Stations go into a class-level list shared by all controllers. |
| F3 | 165 | A bare `except` turns a short array into a partial controller. The spec says the error propagates and assembly is all-or-nothing. |
| F4 | 594 | The interval arguments are swapped. |
| F5 | 633 | `setFixedStartTimes` iterates the undefined name `sTimes`. |
| F6 | 732 | An int is compared with the str `'200'`, so every fetch fails and `getController` returns `None`. |
| F7 | 716 | `HTTPConnection` is opened with no timeout. A device that accepts the connection and never answers therefore blocks `getController`, and the single-threaded caller, forever. |

Other divergences the model reproduces without a run:
- The comments at lines 647 and 649 name bit `0x2000` sunrise and bit `0x1000` sunset, while the code decodes them to Sunset and Sunrise (10270 is Sunset plus 30). Spec 4.3 keeps the code's output mapping and leaves the naming an open question, to be settled against the firmware. `StartTimesDecodedAsSpecified` and its theorem fix the spec's mapping, so passing does not settle the question.
- Station flags are the integers `2**idx` or 0, where the spec has booleans.
- The one-byte ceiling: stations from index 8 on get zero flags. The spec asks for this.
- `startProgram` always fails. It raises `NameError` for a name (`string` is not imported), and either `TypeError` or `NameError` for a number.
- `startStation` never sends a command.

## Proofs

`SnapshotAssemblerProofs` proves four theorems. They hold for every set of snapshots that satisfies `SnapshotsAssumption` (`nstations` an Int, `snames` a sequence of strings and `sn` a sequence of ints, where present) and every `MaxConstructs \in Nat`. `tlapm` checks every obligation.

- **`TypeCorrect`: `Spec => []TypeOK`.** `TypeOK` is inductive once `StationRecs` is the set of every station any snapshot can produce. The step lemma `TypeOKStep` rests on the following lemmas:
  - `StationCountNat` and `DecodeStationsType`: the decoded stations lie in `Seq(StationRecs)`.
  - `ResolveShape`, `SetPropertyShape` and `RegistryFacts`: resolution and `setProperty` keep the table's domain and names.
- **`EnabledMirrored`: `Spec => []EnabledMirrorsProperty`.** The inductive invariant is `TypeOK /\ EnabledMirrorsProperty`. `TypeOK` is needed so that the table still has `enabled` at index 2 after any write. The proof has one step per action:
  - `Construct` makes both sides come from `settings.en` (`ResolveEnabled`, `EnabledEntry`).
  - `SetProperty` either adds `enabled` to `written`, or leaves entry 2 and `enabled` unchanged.
- **`ProgramsNeverDecoded`: the shared program list is always empty.** This is F1, proved for every input: `getProperty(_, "num_programs")` raises on every resolved table.
- **`StoreRefinement`: `Spec => PropertiesRefineStore`.** The assembler implements the abstract `PropertyStore`. `StoreOf` maps the newest controller's table to a dictionary, and maps to the declared defaults before any construction. The invariant `IInvRefine` is `TypeOK`, plus two facts: no construction means no controller, and every entry of the controller's table has a `val`. `IInvRefine` is needed because the mapping reads `controller.properties` once something was built. The proof has one step per action:
  - `Construct(s)` maps to `Load(s)`. This uses `ResolveVal` and `ValueOfIndex`. The registry's names are distinct, so `ValueOf` (the first entry with the name) finds the entry at the name's own index.
  - `SetProperty(n, v)` maps to `Write(n, v)` when `n` is registered, and to a stutter otherwise (`SetPropertyVal`).
  - `InstanceFacts` equates the instantiated `PS!Names` and `PS!Idx` with the module's own.

`ProgramDecoderProofs` proves three theorems for every set of pd records satisfying `ProgramInputsAssumption` (flags and the two day bytes are Ints, the start times a sequence of naturals, the durations a sequence of Ints):
- **`TypeCorrect`: `Spec => []TypeOK`.** `TypeOK` is inductive as it stands, because each construction rebuilds the whole object from its own record.
- **`FlagsDecoded`: `Spec => []FlagsDecodedAsSpecified`.** The code's mask tests agree with the spec's bit table for every integer, negative ones included. The argument is one arithmetic lemma, `MaskBit`: for a positive m, `x % 2m - x % m` is `m` times bit `(x \div m) % 2`, so it is nonzero exactly when that bit is set. `ModUnique` (the remainder of any division is `x % n`) carries it. `FlagBits` and `WeekdayBits` apply it to the literal masks 1 ... 64, 2048, 4096 and 8192, and to the weekday masks `2^(i-1)`.
- **`StartTimesDecoded`: `Spec => []StartTimesDecodedAsSpecified`.** A Repeating program holds one entry per non-zero slot of its start array, in slot order. Each entry's basis, sign and offset decode from its own slot as spec 4.3's table says. The theorem fixes the spec's basis mapping (bit 13 Sunset), which the comments at 647/649 contradict (see the divergences above). The slot numbering is the spec's (`ListsNonZeroSlots`), not the code's loop. The argument has three lemmas:
  - `RepeatingStartTimeLayout`: one start time decodes as the table says, for every integer.
  - `KeepPositiveSlots`: one iteration of the loop keeps the invariant `KeptSlots`. What the loop has kept after `n` iterations is numbered by a strictly increasing `f` whose range is the non-zero slots among the first `n`. A positive slot is appended, and `f` is extended by its index. A zero slot changes nothing.
  - `UsedStartTimesSlots`: the whole loop satisfies `KeptSlots`. `FiniteNatInductiveDef` unfolds the loop's recursive function. The library's `NatInduction` takes an operator parameter that the installed provers cannot instantiate. So the lemma is proved by a least counterexample instead: `LeastNat` (from `WFMin`) picks the first iteration that breaks `KeptSlots`, and `KeepPositiveSlots` applied to its predecessor gives a contradiction.

`DeviceProofs` proves three theorems for every set of transport responses and every `MaxConstructs`:
- **`DeviceNeverHoldsInstance`: `DeviceSpec => []HoldsClass`.** This is F6 for every response: `executeCommand('ja')` raises or returns `None` (`ExecuteCommandNone`), so a completed `getController` never reaches the constructor.
- **`DeviceTypeCorrect`: `DeviceSpec => []DeviceTypeOK`.** The inductive invariant is `DeviceTypeOK /\ HoldsClass`. Without `HoldsClass`, an attribute holding an index would have to be shown to stay inside `constructed`. The assembler's interleaved steps reuse `TypeOKStep`.
- **`DeviceRefinesStore`: `DeviceSpec => PropertiesRefineStore`.** Every device step leaves the assembler alone (`DeviceKeepsVars`), so it is a stutter of `PropertyStore`. The assembler's steps reuse `StoreRefinementInit` and `StoreRefinementStep`.

`ControllerQueriesProofs` proves two theorems for every snapshot set:
- **`GettersReadStoreHolds`: `QSpec => GettersReadStore`.** This is an action property. `IInvRefine` is the invariant it rests on. `ReadTable` shows that, with a controller present, entry `k` of the table has the registry's name and holds `StoreOf[name]`. `GetPropertyReadsStore` and `GetPropertiesReadsStore` follow from it. `GetterReply` shows that every other getter raises, or returns a value it read.
- **`QueriesRefineStore`: `QSpec => PropertiesRefineStore`.** A getter changes nothing and is a stutter.

Only TLC checks the following:
- `StationsAreHistory`. Station `idx`'s flags are `Mask(byte, 2^idx)` in the code and `2^idx` or 0 in the reference. There is no bound on `idx`, because a snapshot may have any number of stations. Equating the two needs facts about `2^idx` for a variable exponent, and the installed SMT backend knows none: it cannot prove even `2^(k+1) = 2 * 2^k`. The fold over the construction history would also need the history's prefix to be stable under `Append`.
- `ConstructionAtomic`, `StationIdsUnique`, `ProgramsDecoded` and the other `violation` runs' properties. The code violates them.
- The liveness property `GetControllerReturns`, which `device_hang` shows violated. TLAPS cannot reason about `ENABLED` and fairness.

## Not modelled

- `print` and `list` write only to stdout. The formatting of `getFirmwareVersion`'s string is left out.
- The station stubs and the exception classes. They change no state that the properties distinguish.
- `OpenSprinkler.__init__`: password hashing and storing the host.
- The URI template, and `executeCommand`'s overwriting of its argument string (line 707). Only the argument-free `ja` command is ever issued.
- The demo script.
- The 66 property-table entries that behave like `location`.

## Plan for later sittings

1. Write an abstract controller specification in which each controller owns its own list and is built atomically or not at all. Then show which parts of `SnapshotAssembler` refine it and which do not.
2. Prove the refinement of the abstract controller specification from item 1, where it holds.
