# MexIFace in TLA+

MexIFace wraps C++ classes as Matlab objects. A Matlab handle class
(`MexIFaceMixin.m`) holds a number; the number is the address of a C++ block
(`Handle<T>`); the block owns a C++ object; and every method call goes through the
one `mexFunction` of a MEX module, which finds the object again from the number.
This directory holds a model of that system, the TLC runs that check it and the
TLAPS proofs about it.

## 1. Inventory

Paths are relative to the repository.

### Handles: `include/MexIFace/Handle.h`
State: the C++ heap (blocks and the objects they own), Matlab's `mexLock` count per
module. Operations: `makeHandle` (lock, allocate, fill), `getHandle` (class,
signature and name checks), `getObject`, `destroyObject` (delete block and object,
unlock). Hard: the handle is a raw address, addresses are reused, and the lock is
taken before two allocations that can fail. Correct when every handle held by
Matlab is alive and exclusive, and the lock count equals the number of objects.

### Command dispatch: `src/MexIFace.cpp`, `include/MexIFace/MexIFaceHandler.h`
State: the global `iface` of a module with its argument arrays, cursors and `obj`, all
overwritten by each command. Operations: `@new`, `@delete`, `@static`, named methods.
Hard: `obj` is shared by all objects of the module and never reset; only
`callMethod` has a try block. Correct when a method runs on its caller's object and
a failure changes nobody else's.

### The Matlab class: `matlab/+MexIFace/MexIFaceMixin.m`
State: `ifaceHandle`, `objectHandle`. Operations: constructor, `openIFace`,
`closeIface`, `delete`, `call`, `callstatic`, `convertStatsToStructs`. Hard: several
statements per operation with an error possible in between; deletion by the
reference counts. Correct when nothing leaks and no handle is used after `@delete`.

### Argument marshaling: `include/MexIFace/MexIFace.h`
State: `rhs`, `nrhs`, `rhs_idx`, `lhs`, `nlhs`, `lhs_idx`. Operations: the argument
count checks, the shape checks, `get*`, `toMXArray`, `output`. Hard: the cursors are not
checked against the counts; sizes at their boundaries (empty, 1x1, sparse). Correct
when a method reads the user's inputs in order, stays inside both arrays, and returns
every output that was asked for.

### Numeric conversions: `getAs*` in `MexIFace.h`
Pure functions between the eight integer and two float classes. Hard: comparisons
of mixed signedness, limits that are not representable in a float. Correct when a value
arrives unchanged or is refused, and is refused only when it would change.

### Test interfaces: `test/TestArmadillo.cpp`, `test/VMC_IFace.cpp`
Method tables and per-method argument counts; `objAdd` of VMC changes its object in
three steps of which the later ones can throw. Correct when every path returns complete
outputs and a failure leaves a prefix of the change.

### Hypercube: `include/MexIFace/Hypercube/Hypercube.h`
Cubes as views into one buffer, with bounds checks. Correct when two slices never
overlap and together are the buffer.

### explore, MexUtils: `src/explore.cpp`, `src/MexUtils.cpp`
No state: `exploreMexArgs` prints the arguments of an unknown method in a debug build. Hard:
subscripts are computed from offsets, and two data pointers move together. Correct
when each element is printed under its own subscript. The rest of `MexUtils` is constant tables.

### Linker stub: `scripts/create-matlab-linker-stub.py`
A worklist that closes a set of libraries under "depends on". Correct when it ends, on
cycles too, with exactly the libraries that can be reached.

### FixupDependencies: `cmake/UncommonCMakeModules/`
A script that runs at the end of each install, once per target. State: the files in the
install tree; `FIXUP_COMPLETE_TARGETS` while it runs. Operation: look for each
dependency in one place after another, leave it, descend into it, or copy it and descend
into the copy; a dependency that is nowhere ends the install. Hard: cyclic dependencies, and an
install that fails half way and is repeated on its own leftovers. Correct when it ends and
what it copied or visited has its dependencies where programs find them.

### startupPackage: `cmake/Templates/startupPackage.m.in`
Adds a package and, recursively, its dependencies to Matlab's path. Correct when no entry
that was there is lost and cyclic packages do not recurse for ever.

### Root selection: `cmake/Modules/MexIFace-configure-matlab.cmake`
Finds Matlab installations, sorts and filters them by version. Correct when each version
asked for gets a root of that version.

### How they interact
Matlab code calls a method of a mixin class; the mixin calls the MEX module with a command,
the handle and the inputs; `mexFunction` pops them one by one and runs a method, which
reads inputs, works on `obj` and writes outputs through the cursors. All of it happens on
Matlab's one thread, so there is one command at a time; what interleaves are the commands
of different objects, the destructor calls that the reference counts make, `clear mex`, and
the points at which a statement can fail. The build scripts run on their own.

## 2. Plan

| Order | Modules | Composition | State |
|---|---|---|---|
| 1 | `Handle`, `MexIFace`, `MexIFaceMixin` | each EXTENDS the one before: heap, module, Matlab class | done |
| 2 | `ObjectService`, `MixinRefinement` | the abstract service, and the mixin as its implementation | done |
| 3 | `MixinInvariant`, `MixinProofs`, `MixinRefinementProofs` | inductive invariant, safety, refinement | done |
| 4 | `MexCall`, `TestIfaces`, `MexCallProofs` | argument arrays; the tables of the two test interfaces; what holds for any tables | done |
| 5 | `NumericClass`, `NumericConversion`, `Recursion`, `NumericProofs` | C++ arithmetic; the getAs methods on top of it; induction and recursive functions, for the proofs of 5 and 7 | done |
| 6 | `MxArray`, `Views`, `Explore`, `Stats`, `Marshal` | Matlab's arrays; checks and views of them; printing; dictionaries; one method's arguments there and back, EXTENDS the four | done |
| 7 | `ArrayProofs`, `MarshalProofs` | offsets and extents of arrays of any rank; every property of `Marshal` | done |
| 8 | `Fixup`, `FixupProofs` | the install script on its own | done |

`MexCall` decides how many arguments a method may take, `Marshal` what becomes of each; they
are separate models of the same commands, at two levels of detail, and `Marshal` takes from
`MexCall` that a method gets as many arguments as it was passed (`NoWildAccess`,
`InputsAreUsed`). Left for later: an abstract command that either answers or refuses, with
`MexCall` as its implementation, and saved and loaded objects in `MexIFaceMixin`.

## 3. The models

### Handle, MexIFace, MexIFaceMixin
| State | Code |
|---|---|
| `object`, `handle` | objects made with `new`, `Handle<T>` blocks; NULL is free memory. A block has a name and an object; its signature is that the block is there |
| `lock`, `loaded` | Matlab's `mexLock` count and whether the file is loaded |
| `ifaceObj` | `MexIFaceHandler::obj`, one per module |
| `pc`, `cur`, `ret`, `outcome` | the command that is running, whose it is, what an unfinished `@new` carries, how the last one ended |
| `mstate`, `objectHandle` | the Matlab object and its property |

An action is one stretch of code at whose end something else can become visible or
an error can occur: `@new` is `OpenIFace`, `ObjConstruct`, `OutputHandle`, `OpenReturn`;
closing is `CloseIface` (or `Delete`), `ObjDestroy`, `CloseReturn`; a method is `Call`, any
number of `MethodStep`s, `MethodEnd`. `ForeignCall` passes a module the handle of another
class or a value of another type. A free address may be used again at once. In `ObjDestroy`, `getHandle`
may throw as it may in `ForeignCall`, and Matlab then drops an object under deletion with its handle; `DestroyValid` in
`MixinProofs` proves that a handle which closeIface passes is always valid, so this branch of the code is
never taken. A method that ends the Matlab process (see `MexCall` below) ends the session, and the model is of one session.

### ObjectService, MixinRefinement
`ObjectService` is what the README of the repository promises: objects with a private
persistent state. The mapping calls an object open while its handle is alive, and takes its
state from the C++ object behind the handle.

### MexCall, TestIfaces
`MexCall` has the members of `MexIFace` (`nlhs`, `nrhs`, `rhs_idx`, `lhs_idx`; `popped` is
how far `rhs` was advanced) and interprets a method as the list of its checks, gets,
computations and outputs. They are never reset between commands but by `SetArguments`.
Arrays are their least rank, and "cellstr" stands for every class that is not double; a 1 x n x k array, which
`getCube` takes and `getMat` refuses, goes as a cube, which it is for every method here. An exception in the parallel region of
`solveOMP` has no way out of it: the process ends (outcome "terminated", `Parallel`), and the user's next step is
`Restart`, which gives the module its first state again. `slots`,
`used` and `changed` record what a command wrote, read and changed; a read or write outside
Matlab's arrays ends in the outcome "wild". `TestIfaces` holds the tables of
`VMC_IFace.cpp` and `TestArmadillo.cpp`, with the setters bound to the getters as the code binds them.

### NumericClass, NumericConversion
`NumericClass` is the part of C++ the conversions rely on: promotion, the class in which two
operands are compared, wrap-around, rounding to nearest even, infinities and NaN.
`NumericConversion` is the four `checked...Conversion` templates and the switches of
`getAsInt`, `getAsFloat`, `getAsBool`. A float converted to an integer that cannot hold it is
undefined: any value of the type may result. The sign of a zero is not kept.

### MxArray, Views, Explore, Stats, Marshal
`MxArray` is what the `mx` functions show: class, dimensions, the elements in Matlab's
order, the imaginary parts, the index arrays of sparse ones, the field names of structs.
`Views` has the checks of `MexIFace.h` and what each `to` method lays over Matlab's memory: a
start and a size, from which an element is found as armadillo finds it. A `Hypercube` is a
row of such views.

| State of `Marshal` | Code |
|---|---|
| `rhs`, `rhs_idx` | the members of `MexIFace` |
| `gets` | the getters that the method has called; a method is any sequence of them, one for each argument |
| `box` | the container that a Dict or Array getter is looping over, what it has got so far |
| `values`, `lhs` | what the getters returned and what `output` made of it |
| `computed`, `stats` | a sparse matrix or dictionary that the method made; what `convertStatsToStructs` made of the latter |
| `printed` | what a debug build printed for an unknown method |

`GetArg` is a getter from its `rhs[rhs_idx++]` to its return or throw, but for getters of
containers, which `OpenBox` begins, `GetElement` continues once for each element, and
`CloseBox` ends. An element that was never set is NULL, and NULL makes the element getter take
`rhs[rhs_idx++]` as if it were called without an argument. A read outside Matlab's memory ends in the outcome
"wild". Whether a getAs method accepts a value is left open here: `NumericConversion` says.
In a debug build a method that is not mapped prints its arguments (`UnknownMethod`); that `mxGetString` fails
(explore.cpp:125-127), on a buffer made one longer than the string, is left out. A char array with
rows and pages but no columns makes `explore.cpp` divide by zero (`DividesByZero`), and such a call ends in
"wild" too.

What the constants of `Marshal` may be is stated beside them: what Matlab guarantees of an array
(`IsArray`: as many elements as its dimensions span, field by field in a struct, field names that differ), what
armadillo guarantees of a sparse matrix (`IsSpMat`), which kinds a getter has (`GettersAssumption`), and
that names in their order are distinct and are what their parts, joined by dots, give
(`StatsAssumption`).

### Fixup
| State | Code |
|---|---|
| `site` | the project and the machine: what each library needs, its rpath, where files are at first; it does not change |
| `present` | the files, as pairs of a directory and a library |
| `turn` | the target whose script runs, 0 between installs |
| `complete` | `FIXUP_COMPLETE_TARGETS` |
| `stack` | the calls of `fixup_unix_target` or `fixup_win32_target` under way: file, next dependency, `_rpath` |
| `runs`, `last`, `cut` | how many installs there were, how the last ended, and the files whose dependencies failed ones left undone; `cut` is history and no guard reads it |

The order of the `find_file` calls is a list of places (`unix_search`, `win32_search`), each with
what is done with a library found there; the first place that has it decides. `Fatal` is a dependency that is
nowhere, or a copy that did not succeed, of which the script learns only when it cannot
read the copy. `RUNPATH` is read into a variable that is then misspelled (line 208), so an object that has one has neither
path; the model does the same. Of the parent's rpath only the first directory reaches the
script's first call (line 572).

That a repeated install copies nothing (`SecondInstallIsQuiet`) is so only where what a target needs is
looked for with the target's rpath (`RpathIsInherited`): no library has an rpath of its own, or a RUNPATH
that takes the target's away. Where one has, the first install may leave a dependency where that rpath
found it; the next install finds the library that has the rpath in its place and does not read it again,
comes to the dependency from another library, and copies what it needs. `OwnRpath` in `MCFixup` is such a project.

## 4. Runs

| Run | Bounds | Shows |
|---|---|---|
| `mixin` | 3 objects (2 of one module, 1 of another), 3 addresses, 2 states; handle allocation may fail | ownership, no lost handle, lock counts, safe unloading, the right object for each method, only the caller changes, implements `ObjectService`; `IInv` before its proof |
| `mixin_memory` | 2 addresses, 1 state, allocation does not fail | no C++ object outlives its Matlab object |
| `call` | 2 interfaces, inputs of every kind up to 3 and one list of 4, up to 4 outputs | cursors in bounds, inputs in order and all used, outputs complete, partial changes are prefixes |
| `numeric` | all values of ten classes of widths 2, 4, 8, 12 and mantissas 5, 9 | where values change and where they are wrongly refused |
| `marshal` | up to 2 arguments from 32 arrays of up to 5 dimensions, 20 getters; 5 sparse matrices; all dictionaries over 12 names; no cells in cells | the cursor counts the getters, values are their arguments, reads stay inside but where listed, outputs are the inputs, sparse matrices and dictionaries arrive, printing shows each element |
| `fixup` | 2 targets, 3 libraries, 12 dependency graphs, 5 placements, 4 settings of rpath, a library with one of its own, and rpaths of a target or a library into a build directory, Unix, cross compiling and Windows; 2 installs, 1 library added in between | dependencies are missing only below what a failed install left undone or where an rpath led into the build, a repeated install copies nothing unless a library has an rpath of its own, every install ends |

Why they are enough: two objects of one module share `obj` and the name, the third has
another name; three addresses leave one free to be reused while two are held. Objects of a
module, addresses and states are interchangeable, so `mixin` uses symmetry. No
method takes more than three inputs or outputs, so four is one too many. The conversions
depend on the order of the widths and mantissas, which the scaled ones have (an ASSUME
states it), and on the limits of each type, all of which are tried. Two
arguments show a first that takes the place of the second; the shapes are those that
the checks and the to methods tell apart (empty, scalar, row, column, and each rank from two to one more
than a hypercube). The graphs of `fixup` have a library that two others need, and cycles of two and of three, and
the places cover every entry of the lists of both systems; two installs are the one that
fails and the one that follows it. The theorems of section 6 have no bounds.

Only `fixup` assumes fairness, and only of the script's own steps (weak): cmake goes on by itself until the script
returns or fails, and `Interrupt`, which the user does, is not among them. That a command of Matlab comes to its end
is not a property here: its steps follow one another without a loop, and `call` and the mixin runs check
that none of them gets stuck (deadlock). The conversions
stop after one call, and no install is started after `MaxRuns`, so these runs do not check for deadlock.

## 5. Where the code and its documents differ

| Run | What it shows |
|---|---|
| `mixin_escape` | only `callMethod` translates exceptions: one thrown by `getHandle`, an argument check of the dispatcher or a constructor leaves `mexFunction` |
| `mixin_static` | `obj` is not null in a static method, it is what the last method left |
| `mixin_reopen` | `call` on a closed object stops at `openIface`, a method that does not exist |
| `mixin_leak` | when the handle itself cannot be allocated, its object and a lock remain |
| `numeric_integers` | a negative integer asked for as a wide unsigned one becomes a large number |
| `fixup_retry` | a library at the copy destination is "assumed already fixed-up", but a failed install may have left it there; the next install succeeds without its dependencies |

`GapsAreLeftByFailures` names one more that needs no failure: the libraries of `SEARCH_LIB_DIRS` "will be copied into
COPY_DESTINATION" (`FixupDependencies.cmake:48`), but one that an rpath finds there, or in another directory of the
build, is followed and not copied (line 270 of the script), and the install succeeds without it.

`LossIsConfined` and `RefusalIsConfined` list every other case the conversions have: fractions
cut off, integers rounded up to two bits beyond the mantissa, large negative doubles that
become infinite, zero refused as a single, and uint32 and uint64 always refused for a signed type no
wider. `WildIsConfined`, `SparseIsKept`, `PrintedIsShown` and `StatsAreKept` list in the same way what
`MexIFace.h`, `explore.cpp` and `convertStatsToStructs` do that is not as one would wish: an empty array read as a scalar, a
sparse one read as full, the pointers of a sparse output cut at the number of rows, the real parts of a
complex uint8 array, and a dictionary whose names clash: a name that is not
`group.key` takes the place of what its group was, of two names that give one index (`g.1`, `g.01`) the later stays, an index
after a key drops the keys, a key after an index is an error. That the setters of VMC cannot be
called and that `svd` demands an input it never reads is in its table; no document
says otherwise.

## 6. Proofs

Nothing in this section has a bound: the theorems are about any number of Matlab objects and MEX modules,
any finite set of addresses, any interface, any width and precision of the numeric classes, arrays of any rank and
size, any dictionary, and any project to install. The assumptions are the ones the modules
name, and TLC evaluates them on every run: the addresses are finitely many and the null pointer is none of them
(`AddrAssumption`), nor a module, a block or a Matlab object (`ModulesAssumption`,
`BlockAssumption`, `ObjectsAssumption`), each object's class belongs to one module
(`ObjectsAssumption`), and a value that is no uint64 is no address (`NotUint64Assumption`).
For a call, `InputsAssumption`: inputs are finite sequences of known kinds, of bounded length. For
`NumericProofs` and `MarshalProofs`, see there.

- `MixinProofs`: `IInv` is inductive (`Inductive`), and gives `TypeCorrect`, `Ownership`,
  `LocksBalance`, `UnloadSafety`, `MethodsStayHome`, `HandlesHaveHolders`, `NothingLeaks`. Why the properties alone
  are not inductive: that an object is alone behind its handle needs to know what an
  unfinished `@new` carries (`InFlightOK`), that no handle is held by an object that
  is gone (`FrameOK`), and that no two handles own one object (`HeapOK`). `lock - 1 \in Nat`
  holds only because the count is the number of objects, so even the type invariant
  needs `LockCountsObjects`. There is one lemma per action, and the counting lemmas use the
  library's facts on cardinality.
- `MixinRefinementProofs`: each step is a step of `ObjectService` or changes nothing of it
  (`Refinement`); `CallersOnly` follows from the same case split.
- `MexCallProofs`: for every interface and every list of programs, `CallTypes` and
  `InputsReadInOrder`. `CursorOK` says how many words have been popped at each point,
  which the order of inputs does not say by itself.
  - `NoWildAccesses`, for every interface for which `InterfaceIsChecked` holds: each get and each
    output of a program stands under a condition, or after a check, that leaves it an argument. This is
    what the code asks of an interface's author, who calls `checkNumArgs` first because no getter does.
    Inductive (`AccessOK`) is that the rest of a method's body is the tail of one of the interface's
    programs, that both cursors are at most the gets and outputs passed, and that the checks passed hold of the counts.
  - `InputsAllUsed`, `OutputsAllAssigned`, `ChangesInOrder`, for every interface for which
    `InterfaceIsComplete` holds: for all counts that pass a program's checks, its gets under their conditions are as many
    as the inputs, its outputs at least as many as Matlab asks for, and what it has changed after each operation is a
    prefix of vector, matrix, cube. Inductive (`UseOK`) is that the method is before some k-th operation
    of its program, that each cursor is the number of operations before it whose condition held, and that
    `slots` and `changed` are what those wrote.
  - TLC evaluates both conditions for both test interfaces (`TestIfacesAssumption` and
    `TestIfacesComplete` in `MCCall`).
- `Recursion`: induction over the naturals for a set instead of an operator, and that a recursive function
  over the naturals has the values its equation gives. Every proof about powers, extents, offsets, the lists
  of `explore.cpp` and the loops over names unfolds its function through these.
- `NumericProofs`: `AnswersAreTyped`, `LossesAreConfined`, `RefusalsAreConfined`, `FloatsAreTruncated`, for
  classes of any widths, precisions and exponents in the order that `WidthAssumption` and
  `FloatAssumption` state. The real ones are in it: with 1 written as 2^1074, the least exponents are 0
  for a double and 925 for a single, the greatest 2045 and 1178. Invariant (`Inv`) is that the outcome is among those the
  conversion of this argument can have; the rest is about one conversion: every number of a float class
  is a multiple of a power of two (`Fitting`), rounding passes no number of the class and ends in it, two integers
  compare as they should in the class C++ brings them to when that class has both, and each limit a float is compared
  with is a number of its class or rounds up to the next power.
- `ArrayProofs`: what some dimensions span is the product of what their parts span; an offset is below the
  number of elements, and the subscript that `display_subscript`
  computes of an offset is the one it came from; the element at a subscript of a vector, matrix, cube or
  hypercube laid over an array is the array's element there; and what `toMXArray` makes of such an object has
  its elements and dimensions. The assumption on arrays is `ArraysAssumption`.
- `MarshalProofs`: every property of `Marshal`, for any arrays (`ArraysAssumption`), getters
  (`GettersAssumption`) and numbers of arguments.
  - `CursorIsRight` (for arguments without unpopulated elements, `AllPopulated`; no getter tests for them).
    Inductive beside the types: no more getters were called than there are arguments, and the container being read
    is the argument taken last (`BoxIsLast`; without it `GetElement` could move the cursor). `TypeCorrect` adds that a getter returns one value at
    most, at once or when its container has been read (`Counted`).
  - `WildIsRight`, `ValuesAreRight`, `EchoIsRight` rest on `Reading`: every value is what its getter makes
    of its own argument, what has been read of a container is its elements so far, and the outcome "wild" has one of
    the listed causes.
  - `PrintedIsRight`: what was printed is what `exploreMexArgs` makes of the arguments (`Explored`), and
    each element is in it under its subscript, characters in the line of their row, fields under their names.
  - `SparseIsRight`: the output is made of the computed matrix (`SparseIsOutput`). By induction over the
    columns, the lines read back are the nonzeros of the columns so far, in their order; past the pointers that were
    copied each column ends at zero, so nothing is added (`SpMatsAssumption`).
  - `StatsAreRight`: the struct is made of the computed dictionary (`StatsIsOutput`). By induction over its
    names in their order, `Tracked` says of each group what the struct holds of it: arrays that are not empty for groups
    with an index, each index's number where no other name of the group has that index, the numbers of all keys where
    the group has nothing but keys, and that no key came after an index. `Blamed` is the other half: if all
    groups are of one kind and the conversion has failed, an index was below 1. It assumes of names what
    `StatsAssumption` and `StatDictsAssumption` say: two names with the same parts are the same name.
- `FixupProofs`: for any libraries, dependencies, directories and numbers of installs, and rpaths into any
  directory, those of the build included, `TypeCorrect` and `GapsAreConfined`. What the latter leaves out besides files a
  failed install cut short is a dependency that lies in a build-only directory which a target's rpath, or the rpath
  of a library that needs it through others, names (`LeftInBuild`): this is what the code does at line 270. Inductive beside the types: a call on the stack has
  settled the dependencies it is past (`PastIsSettled`), and nothing is on the stack between installs
  (`Idle`). `GapsAreLeftByFailures` is then an invariant because it speaks of the dependencies
  still pending on the stack. That a search has a first hit is the well-foundedness of the
  natural numbers.
  - `RepeatIsQuiet` compares an install with all that the one before it did. Its inductive invariant is `Quiet`:
    a file that the script of a target has visited finds each of its dependencies without copying, but for those
    still pending, and one that is found through the rpath has been visited too (`WalkedAreAtHand`); for each target that is done, and each
    target after an install that succeeded, there are such libraries with the target among them and nothing pending
    (`DoneAreCovered`); a repeated install visits none but those (`RepeatIsCovered`). What is copied for one target may not change
    what another finds: the lists of places put the destination before every place that is copied from
    (`UnixOrder`, `WindowsOrder`). Without `RpathIsInherited` the property is false, as section 3 says.

Only model-checked: that every install comes to its end (`InstallsEnd`), which takes fairness and `ENABLED` and is
out of the prover's reach.

## 7. Not modelled

- A stored handle that was copied by saving and loading its object, and an interrupt
  between `@delete` and the reset of `objectHandle`: both make `getHandle` read freed memory, which is
  undefined, and the code takes no measure against either.
- Handles that are numbers made up by a user: reading their address is undefined, and the
  code says so nowhere.
- That inputs share Matlab's memory: no method of the repository writes to one.
- Getters and outputs that no method can instantiate: `getVecArray`, `getMatArray`, `getCubeArray`,
  `getHypercubeArray` (an `Array<ElemT>` is returned as an `Array<Vec<ElemT>>`),
  `getHypercubeDict`, `toMXArray` of a `Hypercube` and `Hypercube::zeros` (they copy what cannot be copied);
  and the size checks that nothing calls. `toMXArray` of a `std::list` could be instantiated, but nothing in the
  repository outputs a list.
- `get_characteristics` and complex sparse arrays of `explore.cpp`, and the tables of `MexUtils`.
- `FixupDependencies.cmake`, which fills in the script's settings, and the script for build trees.
- `create-matlab-linker-stub.py`, a script that a developer runs by hand; `startupPackage`, which puts
  Matlab's path together once and keeps no state; the selection of Matlab roots, a search of a fixed list.
- The find modules, toolchains, CI scripts and documentation: declarative, no state.
- Profiling and debug output other than `exploreMexArgs`.
