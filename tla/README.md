# A verification project for PHP Nano

PHP Nano is the PHP runtime without its compiler and virtual machine: programs
are compiled to native code ahead of time and linked with a reduced Zend Engine
and a static set of extensions. What stays at run time, and what this project is
about, is the life of that runtime: how extensions start and stop, how a request
is opened and torn down, how resources, objects and cycles are released, how
output passes its handlers, how directives change and return, and how arrays are
walked, all while program code (destructors, stream and output handlers,
callbacks) runs in the middle of it.

The project consists of TLA+ modules translated from the C and C++ sources, TLC
configurations that model-check them on small instances, and TLAPS proofs of the
properties that matter most for every value of the constants. `PROJECT.json`
maps every definition to the source lines it stands for. Paths below are
relative to the root of the repository (`src/` in `PROJECT.json`).

To check a run: `tlc -config lifecycle_tables.cfg MCNanoLifecycle`. To check a
proof: `tlapm NanoLifecycleProofs.tla`.

## 1. Inventory

| Component | Source | State it keeps | Operations |
|---|---|---|---|
| extension registry | `src/extension.cpp`, `Zend/zend_API.c` (module part) | the started list, the count of extensions in the request, `module_started` of each entry, `module_registry` | startup, shutdown, find; per entry MINIT, RINIT, RSHUTDOWN, MSHUTDOWN |
| core and request life cycle | `src/core.cpp` | `core_started`, `core_active`, the subsystems, the interned-string handler | startup, activate, deactivate, shutdown of the core |
| resource list | `Zend/zend_list.c`, positions of `Zend/zend_hash.c` | `EG(regular_list)`, type of each resource, references | insert, close, free, close loop, destroy |
| object store | `Zend/zend_objects_API.c/.h`, `Zend/zend_objects.c` | bucket array, free list, object flags and counts | new, put, del, release, call_destructors, mark_destructed, free_object_storage |
| executor start and end | `Zend/zend_execute_API.c` | `EG(active)`, the symbol table, class and function tables | `init_executor`, `shutdown_destructors`, `shutdown_executor` |
| cycle collector | `Zend/zend_gc.c` | root buffer and threshold, colours and addresses in the headers | possible root, remove, grow, compact, collect (mark, scan, collect white, destructors, free), enable |
| hash tables | `Zend/zend_hash.c` | elements in order, `EG(ht_iterators)` and the counts of iterators | add, delete, grow, rehash, duplicate, destroy, iterate |
| output layer | `main/output.c` | handler stack, flags, active and running handler | start, write, flush, clean, end, discard |
| memory manager | `Zend/zend_alloc.c` | chunks, page maps, free slots, huge list, limit | alloc, free, realloc, shutdown |
| interned strings | `Zend/zend_string.c` | permanent and request tables | intern, switch storage |
| INI registry | `Zend/zend_ini.c` | directives, modified directives | register, alter, restore, deactivate, unregister |
| weak references | `Zend/zend_weakrefs.c` | map from objects to referrers | create, notify |
| stream core | `main/streams/*.c` | streams, filters, wrappers | open, read, write, free with options |
| sorting, linked lists, stacks | `Zend/zend_sort.c`, `zend_llist.c`, `zend_stack.c` | their elements | pure algorithms |
| adapters and stubs | `src/*.cpp` other than the two above | none or little | time, random, network fallback, compiler stubs |
| extensions and vendored libraries | `ext/*` | per function | libraries of functions |

### How the parts interact

The host calls two functions, `php_nano_startup_extensions` and
`php_nano_shutdown_extensions`. The first starts the core if need be, validates
the table of module entries, starts the entries in dependency order, activates
the one request of the process and runs RINIT in the same order. The second
does the opposite: RSHUTDOWN in reverse, `php_nano_deactivate_core` (user
destructors, executor, resource list), MSHUTDOWN in reverse, core shutdown. The
first calls the second on every failure after the core is up.

Deactivation is where the engine calls back. `shutdown_destructors` releases
symbols and calls the destructor of every object; `zend_close_rsrc_list` closes
every resource, and a resource may be a stream implemented by the program; then
`EG(active)` is cleared, the values that are left are released, the storage of
objects is freed and the resource list destroyed. Every callback runs the
program, which creates, copies and releases objects and resources in the table
being walked. A fatal error in a callback is a `longjmp` to the innermost
`zend_try`.

The same shape recurs while the request runs. Dropping a reference may start a
collection, which runs destructors between tracing the garbage and freeing it. A
write may run a user output handler, which may write or call the output layer
again. A change of a directive calls the module that owns it, which may refuse.
`array_walk` calls the program between two elements of an array the program may
change, copy or replace meanwhile.

### What is hard here

* Failure in the middle: the k-th extension fails to start or to enter the
  request; `php_output_activate` fails after the executor is up.
* Sequences of calls: startup after shutdown, after a failed startup, twice.
* Re-entrancy: loops over tables which the loop's own callbacks change.
* `longjmp` out of nested releases, into functions with automatic variables.
* Compaction and copy-on-write of a hash table, which move elements under a
  loop's index.
* Buffers and counters at their limits: root buffer, bucket array, byte counts.
* Counts that are tested before a callback and used after it.

There are no threads: the build is non-ZTS, and the concurrency is that of
callbacks. `PROJECT.json` lists the hazards at their lines, with the properties
that would catch them.

### What makes each component correct

* Registry: a legal table starts, an illegal one is refused; hooks are balanced;
  a dependency is up whenever its dependents are; every call returns.
* Core: between calls everything is up or everything is down; hooks and
  destructors find the subsystems they use.
* Resources: each destructor runs once; references do not dangle; the close
  loop closes all and ends; nothing leaks.
* Objects: counts equal references; handles identify objects and the free list
  is sound; destructors run at most once and on whole objects; no object is
  missed by the destructor loop or keeps its contents.
* Collector: only garbage is freed, whatever destructors do to it; counts taken
  off for the trial are put back exactly; what the program lost stays in reach of
  the root buffer until it is collected; the buffer agrees with the headers; a
  collection ends.
* Output: what is written comes out once and in order, unless it was discarded on
  purpose; the stack of handlers is sound between calls; no freed handler is used;
  the end of the request finalizes every handler.
* INI: nothing a request changes is seen by the next; a value the host fixed
  holds against `ini_set` and `ini_restore` (`error_reporting()` asks nobody and
  can change that of its own directive); the table of modified entries names no
  freed entry and forgets none; a module's copy agrees with the registry.
* Hash tables: an iterator follows its element through deletion, compaction and
  copies; none is left on a freed table or left behind; a walk visits an element
  at most once and misses none.

## 2. Modules

| Module | Models | Kind |
|---|---|---|
| `NanoLifecycle` | extension registry, core, request | component |
| `ModuleContract` | what the registry promises to modules | abstract specification |
| `MCNanoLifecycle` | a set of entries and the tables of each run | instance for TLC |
| `NanoLifecycleProofs` | hooks, request, core, the contract; which tables are accepted | theorems |
| `ZendResources` | resource list, its table and its shutdown | component |
| `MCZendResources` | | instance for TLC |
| `ZendObjectsStore` | object store, object life, executor's end | component |
| `MCZendObjectsStore` | three objects, symmetry | instance for TLC |
| `ZendObjectsStoreProofs` | counts, handles, destructors, shutdown | theorems |
| `ZendGC` | cycle collector, with the counting that feeds it | component |
| `MCZendGC` | two to three nodes | instance for TLC |
| `ZendGCInvariant` | the invariant of the collector; root buffer, counting, the steps outside of the traversals; marking, scanning and gathering | lemmas |
| `ZendGCProofs` | from the garbage found to its destruction, the invariant as a whole, the second invariant, what follows from them | theorems |
| `OutputLayer` | output layer, user handlers, end of the request | component |
| `MCOutputLayer` | two handlers | instance for TLC |
| `OutputLayerProofs` | handlers, the stack and the flow of data | theorems |
| `ZendIni` | INI registry | component |
| `MCZendIni` | the core and two modules, four directives | instance for TLC |
| `RegistryProofs` | resources: destructors, references, the close loop, the end; directives: registration, requests, fixed values, copies | theorems |
| `ZendHash` | hash tables that change while they are walked, `array_walk` | component |
| `MCZendHash` | two tables, symmetry | instance for TLC |
| `ZendHashProofs` | tables, iterators and rings of copies | theorems |
| `SequenceFacts` | sequences used as stacks; sizes of intervals; least and greatest elements; induction over an interval; solutions of recursions | lemmas |

A definition whose comment starts with "Variant:" is a faulty version of the
definition after it. No specification uses one; they are what the properties
were tested against (section 4).

### NanoLifecycle

`pc` names the loop the process is in, `idx` the position in it; each loop of
the code is a label, each iteration a step.

| Label | Code |
|---|---|
| `core` | `php_nano_startup_core`, one subsystem per step in the order of `StartupSteps` |
| `check` | the test of `started_extensions()` |
| `validate` | layout, ABI and duplicate names, and the reset of `module_started` |
| `scan` | the repeated scan: `dependency_state`, `start_extension`, `zend_register_module_ex`, `zend_startup_module_ex` |
| `activate`, `undo` | `php_nano_activate_core` and its failure path |
| `rinit` | the RINIT loop |
| `rshutdown` | `php_nano_shutdown_extensions`, the RSHUTDOWN loop |
| `deactivate` | `php_nano_deactivate_core`, with the user destructors as a step |
| `mshutdown` | the MSHUTDOWN loop |
| `coredown` | `php_nano_shutdown_core`, in the order of `ShutdownSteps` |
| `aborted` | MINIT returned FAILURE: `zend_error_noreturn` aborts |

`started`, `reqcount` and `mstarted` are the code's own books; `minit` and
`rinit` are history variables that record which hooks really ran, so that the
books can be compared with the truth. `storage` says whether
`zend_new_interned_string` writes to the permanent or to the request table.
Module names are spelled and lower-cased (`Name`, `Lower`, `Key`), because the
code compares them exactly in one place and in lower case in another. Failures
of allocation, of registration, of the output layer and of RINIT and MINIT are
actions of their own, at most `MaxFaults` of them.

### ModuleContract

Four actions (load, unload, serve, retire) over two sets. A module is loaded or
serves only if what it requires does, and nothing is loaded or unloaded while a
request is served. `ContractSpec` in `NanoLifecycle` maps `loaded` to `minit`
and `serving` to `rinit`: every step of the runtime is a step of the contract or
leaves both sets alone.

### ZendResources

`slots` is the array of the table; position p of the code is `slots[p + 1]`, and
`Undef` a hole. `zend_hash_index_add_new` has a disjunct for each path of the
code: into the packed array, after growing it, after converting it to a hash
(which closes holes), appended to a hash, appended after a rehash or a resize.
`zend_hash_index_del` leaves a hole or shrinks `nNumUsed`.

Destructor calls in progress form `stack`. While it is not empty the program
runs: it inserts, closes and frees. `CloseStep` is one iteration of
`zend_close_rsrc_list`, `HandlerReturn` what follows the return of a destructor,
`Bailout` the `longjmp`. `i` and `num` are automatic, not volatile, and changed
between `setjmp` and `longjmp`, so after a bailout they have either their
current values or those of the last `setjmp`; both outcomes are explored.
A bailout outside the close loop finds no `zend_try` and ends the process.

### ZendObjectsStore

Buckets have a kind (unused, valid, invalid, free) and a link; objects have a
handle, a count, the two flags `IS_OBJ_DESTRUCTOR_CALLED` and
`IS_OBJ_FREE_CALLED` (`destructed`, `freed`), and one property that may refer to
an object. `held` counts the references of variables. The stack holds
`zend_objects_store_del` waiting for a destructor (`del`), the destructor loop
waiting for one (`loop`), and `free_obj` called from `del` (`free`) or from the
storage loop (`storage`). Phases follow `shutdown_destructors`,
`zend_close_rsrc_list`, `zend_shutdown_executor_values` and
`zend_objects_store_free_object_storage`; whether the shutdown is a fast one is
chosen when the executor is deactivated. Resource handlers of the phase
`resources` are program code and may create objects; these get no destructor
from the loop, which has ended, nor later, since the executor is inactive.

### ZendGC

A node is an object or an array, with a header (count, colour, address in the
root buffer, flags) and a set `out` of nodes it refers to. `gc` is
`zend_gc_globals`, `col` the locals of `zend_gc_collect_cycles`. Calls in
progress form `stack`: destructors, what resumes after them, `free_obj`, a
collection, and the release that started one from a full buffer.

| Definition | Code |
|---|---|
| `Slot`, `Enter`, `gc_remove_from_roots`, `gc_compact` | the buffer: unused list, end, growth, compaction |
| `gc_compress`, `gc_decompress` | indexes that no longer fit the header are stored modulo `MaxUncompressed` |
| `Release`, `gc_possible_root`, `WhenFullResumes` | a decrement, and the collection it may start |
| `MarkRoot`, `gc_mark_grey`; `ScanRoot`, `gc_scan`, `gc_scan_black`; `CollectRoot`, `gc_collect_white` | the three passes; pending nodes are a set, so every order of traversal is explored |
| `DtorPrepare`, `NestedRoot`, `gc_remove_nested_data_from_buffer`, `DtorStep`, `CollectorResumes` | destructors, and the data they can reach, which leave the garbage before |
| `DestroyStep`, `FreeGarbage`, `Finish` | freeing, the second round, the end |

`Installed` says whether the pointer `gc_collect_cycles` was set; it is `FALSE`
only in `gc_unset`, as in Nano's startup, and `TRUE` elsewhere, so that the
collector itself can be checked.

### OutputLayer

Every write is one numbered token, so that loss, repetition and reordering can
be told. C functions in progress are frames of `calls` with the handler they
hold; a user handler is the state in which the innermost frame waits for its
callback. `bad` is set when a frame uses a handler that was freed or a slot of
the stack that is gone. `Fatal` says whether E_ERROR returns: in Nano it does
(`nano_error_callback`), so it is `FALSE`. `Reenter`, `ErrorHandler` and `Bails`
say what user code does besides writing.

### ZendIni

An entry has an owner, a value, an access mode and the saved originals; `table`
is `EG(modified_ini_directives)`; `cached` are the module globals that
`on_modify` handlers set. A handler accepts, refuses or bails out at any call.
`Reporting` is the directive `error_reporting`: `EG(error_reporting)` is its
`cached`, and the function `error_reporting()` writes both, past access mode and
handler. The host's own changes before the first request are those of the core's
directives, which exist as soon as `php_nano_startup_core` has returned.
`pin` and `skewed` are history: values the host fixed at activation, and handlers
that refused a value stored by force (at registration and at the end of a
request, which do not look at the result).

### ZendHash

`tab` gives the table at each address: its kind (uninitialised, packed, hash),
the elements in order with holes, size, next free key and the count of
iterators. `iters` is `EG(ht_iterators)`; `next` links an iterator to its copies.
The program has the array it walks and a second variable that may share its
table; addresses of freed tables are used again. Each walk records what it has
seen, so that `NoRevisit` and `WalkComplete` compare the past of a walk with the
positions ahead of it. `Moves` is the loop of `zend_hash_rehash` and
`zend_array_dup_elements` that carries iterators along while holes are closed.

## 3. Runs

| Run | Checks | Bounds | Shows |
|---|---|---|---|
| `lifecycle_tables` | `RefusesIllegal`, `AcceptsLegal`, `DependenciesOutlive`, `HooksBalanced`, `AllOrNothing`, `DestructorContext`, `CallsReturn`, `HookContext`, `ContractSpec` | all tables of one to three entries out of twelve in a first call; five tables in four calls with two failures | the registry accepts exactly the legal tables; no sequence of calls and failures unbalances the hooks or leaves the runtime half up; calls return |
| `resources_shutdown` | `DestructedOnce`, `NoDangling`, `PackedClosed`, `AllFreed`, `ShutdownEnds` | four resources, one bailout, table sizes 2, 4 and 8 | destructors run once, references do not dangle, a packed table is closed completely, relooping ends |
| `objects_shutdown` | `RefcountSound`, `NoDangling`, `StoreSound`, `DestructorSafe`, `NothingSkipped` | two objects with destructors, one without, three handles, one variable per object | a whole request and its fast or slow shutdown |
| `gc_graph` | `RefcountSound`, `OnlyGarbageFreed`, `NothingLost`, `CollectsAll`, `DestructorFirst` | an object with a destructor, one without, an array; three references between them | every graph, changed at any time by program and destructors |
| `gc_full` | `SafeAtLimits`, `BufferSound`, `CollectionEnds` | two objects with destructors, buffer 2 growing to 3, indexes compressed from 1 | full buffers, growth, bailouts, enabling and disabling; collections end |
| `output_stack` | `HandlerAlive`, `StackSound`, `OutputExact`, `RequestEnds` | two handlers, two writes, chunk size 2 or none | nothing is lost or reordered; requests end, also after a bailout |
| `ini_requests` | `TableExact`, `RequestIsolated`, `PinnedHolds`, `CacheAgrees`, `AllOrNone` | the core and two modules, four directives, two values | requests are isolated, fixed values hold against `ini_set` and `ini_restore`, the table never names a freed entry |
| `hash_walk` | `TablesSound`, `IteratorsOwned`, `NoRevisit`, `WalkCompleteUnskewed` | two nested walks, three elements, table size 2, two assignments between the variables | iterators follow every change of the array |
| `lifecycle_spelling` | `AcceptsLegal` | one call | violated, see section 6 |
| `resources_missed` | `ClosedBeforeInactive` | four resources, table size 4 | violated, see section 6 |
| `gc_unset` | `CollectorInstalled` | as `gc_graph`, with the pointer not set | violated, see section 6 |
| `output_fatal` | `HandlerAlive` | callbacks that call the layer | violated, see section 6 |

Every module has a type invariant `TypeOK` (`IniTypeOK` in `ZendIni`). In
`NanoLifecycle` and `ZendIni` it is a theorem of its own; in the other modules it is
the first part of a structural invariant that is a theorem: `NoDangling` of
resources, `StoreSound`, `StackSound` and `BufferSound`. `SafeAtLimits` is the
conjunction of the collector's safety properties, `OutputExact` that of loss and
order of output.

### Why the bounds are enough

* Three entries are what a dependency chain with something between its ends
  needs, a two-cycle with a bystander, and a conflict that comes before, between
  or after. `MCNext` lets only the five tables of `Restarted` be passed again or
  around failures; the longest has two independent chains interleaved against
  their order. Four calls allow start, stop, start, stop and every failed
  variant; two failures allow one in startup and one in a restart. Entries of
  `lifecycle_tables` spell dependencies as their modules do, and no table is
  empty: section 6 says why.
* Four resources with table size 2 reach every path of insertion, conversion,
  resizing and compaction included. With size 8, the code's, they stay packed.
  `PackedClosed` speaks of tables that are still packed, because
  `resources_missed` shows that it fails for others.
* Three objects suffice for a cycle with something hanging from it, a destructor
  that stores its own object in another, and the reuse of a handle while a third
  object is being destructed. The initial size of the store is 1, so that it
  grows twice. `MaxHeld = 2` was checked too (2.2 million states) and adds
  nothing but time.
* Three nodes with three references between them give every shape a traversal
  tells apart: self-reference, two-cycle with a tail, three-cycle, shared child, a
  node below two roots. Two references out of each node (six in all) were checked
  too: 3.5 million states, nothing new, but too slow to keep. In
  `gc_graph` the buffer holds them all; `gc_full` has fewer nodes and a buffer
  that two of them fill, so that growth, compaction and compressed indexes
  happen in almost every behaviour. In neither does the buffer overflow; section 6
  says what happens then.
* Two handlers are a handler with one above and one below it; two writes suffice
  for an order and, with chunk size 2, for a chunk that is full by the second.
* Directives: `error_reporting` of the core; of modules, one without a handler, one
  with a handler that only the host may change and that two modules register, and
  one with a handler that the program may change, so that fixing it means
  something. Requests are not bounded.
* Two walks give two iterators on one table and one below the other; three
  elements and size 2 give a full table, a hole, growth and compaction; two
  assignments give a copy and its return. Runs with four elements (1.8 million
  states) and with size 4 and five elements were made too and agree.
  `MaxCount` is 255 and is not reached; section 6 says what happens there.
* Deadlock is not checked: after the bounded number of calls, and at the end of
  a request, the modelled system stops.

### Fairness

`NanoLifecycle` assumes weak fairness of `Run`, all steps of a call in progress:
the process is single-threaded and waits for nothing, so a call that can go on
does. Hooks are assumed to return. `ZendResources` assumes weak fairness of
`Runtime`: destructors return and the shutdown functions run on. The program's
own steps are not fair. The number of resources is bounded by `MaxRes`, so
`ShutdownEnds` says that the loop ends if destructors open finitely many
resources; the code cannot promise more. `ZendObjectsStore` states no fairness
and no liveness: destructors are program code and may loop.

`ZendGC` assumes weak fairness of `Freeing` and `Collecting`, the C code in
progress, and for each depth of nesting strong fairness of the return of a
destructor: a destructor returns in the end even if it makes and drops objects
between, and deeper destructors run, but a program whose destructors never
return has no ending collection to speak of. `OutputLayer` assumes weak fairness
of `Layer`, its C functions, and of `UserHandler`: callbacks return, and write at
most `MaxWrites` times. `ZendIni` and `ZendHash` state safety only.

## 4. What the properties were tested against

For each property of a passing run, `PROJECT.json` names a variant of a
definition that makes TLC find it violated: a dropped test of a flag, a loop in
the wrong direction or with the wrong bound, a missing reset, an order swapped.
A property which no such variant breaks would say nothing about the code.

## 5. Proofs

Each theorem holds for every value of the constants that satisfies the named
assumptions of the component's module: any set of entries, dependency lists,
tables and bounds; any number of resources, table sizes and bailouts; any objects,
handles and classes; any finite set of handlers, chunk sizes and number of
writes; any modules, directives and values; any tables, elements, nested walks and
copies; any finite set of nodes, graph between them, buffer sizes, thresholds and
stride of compressed addresses. Three theorems of the life cycle, those of the
output layer and of the hash tables and most of the collector's have a hypothesis
besides, named where it is used. TLC evaluates the
assumptions in the runs, and each inductive invariant was checked by TLC on the
bounds of section 3 before it was proved.

| Theorem | States | Hypothesis |
|---|---|---|
| `NanoLifecycleProofs!TypeCorrect` | `Spec => []TypeOK` | |
| `HooksAreBalanced` | `Spec => []HooksBalanced` | |
| `DependenciesAreUp` | `Spec => []DependenciesOutlive` | |
| `RuntimeAllOrNothing` | `Spec => []AllOrNothing` | |
| `DestructorsRunInContext` | `Spec => []DestructorContext` | |
| `HooksRunInContext` | `Spec => HookContext`, an action property | no table is empty |
| `RegistryKeepsContract` | `Spec => ContractSpec`, the refinement of `ModuleContract` | |
| `IllegalIsRefused` | `Spec => []RefusesIllegal` | `SpelledAlike` |
| `LegalIsAccepted` | `Spec => []AcceptsLegal` | `SpelledAlike` |
| `RegistryProofs!DestructorsRunOnce` | `Spec => []DestructedOnce` | |
| `OpenStaysAllocated` | `Spec => []OpenAllocated` | |
| `ReferencesLeadToResources` | `Spec => []NoDangling` | |
| `EveryStructureFreed` | `Spec => []AllFreed` | |
| `PackedListIsClosed` | `Spec => []PackedClosed` | |
| `ZendObjectsStoreProofs!CountsAreReferences` | `Spec => []RefcountSound` | |
| `ReferencesStayValid` | `Spec => []NoDangling` | |
| `HandlesIdentifyObjects` | `Spec => []StoreSound` | |
| `DestructorsRunOnce` | `Spec => []DestructorSafe` | |
| `ShutdownSkipsNothing` | `Spec => []NothingSkipped` | |
| `ZendGCProofs!CountsAreSound` | `Spec => [](gc.full \/ RefcountSound)` | no overflow so far |
| `LiveNodesStay` | `Spec => [](gc.full \/ OnlyGarbageFreed)` | no overflow so far |
| `DestructorsComeFirst` | `Spec => [](gc.full \/ DestructorFirst)` | no overflow so far |
| `BufferIsSound` | `Spec => [](gc.full \/ BufferSound)` | no overflow so far |
| `NothingIsLost` | `Spec => []NothingLost` | |
| `CollectionIsComplete` | `Spec => []CollectsAll` | |
| `LimitsAreSafe` | `Spec => [](gc.full \/ SafeAtLimits)` | no overflow so far |
| `OverflowIsForGood` | `Spec => [][gc.full => gc'.full]_vars`, an action property | |
| `OutputLayerProofs!HandlersStayAlive` | `Spec => []HandlerAlive` | `WritesOnly` |
| `StackStaysSound` | `Spec => []StackSound` | `WritesOnly` |
| `OutputStaysExact` | `Spec => []OutputExact` | `WritesOnly` |
| `RegistryProofs!TypeCorrect` | `IniSpec => []IniTypeOK` | |
| `TableIsExact` | `IniSpec => []TableExact` | |
| `RequestsAreIsolated` | `IniSpec => []RequestIsolated` | |
| `PinsHold` | `IniSpec => []PinnedHolds` | |
| `CachesAgree` | `IniSpec => []CacheAgrees` | |
| `RegistrationIsAllOrNone` | `IniSpec => []AllOrNone` | |
| `ZendHashProofs!TablesStaySound` | `Spec => []TablesSound` | `NoOverflow` |
| `IteratorsStayOwned` | `Spec => []IteratorsOwned` | `NoOverflow` |

Where an argument would be an induction over a length or an order, the proofs
take a least counterexample instead: the set of lengths, positions or ranks at
which the claim fails is a set of naturals, and if it is not empty it has a least
element (`SequenceFacts!LeastElement`), at which the claim is proved after all.
For sets this is `IntervalInduction`. That a recursive function of the model has
the value its equation gives is `RecursionExists`, which constructs a solution.

### Life cycle (`NanoLifecycleProofs`)

* `reqcount \in 0..Len(started)` is not inductive: the MSHUTDOWN loop shortens
  `started`, and nothing in the type says that the RSHUTDOWN loop has emptied the
  request before. `CounterInv` adds the labels at which `reqcount = 0`, that RINIT
  is counted at its own position, and that nothing is started while the core is
  down.
* "Every module of `minit` finds its requirements in `minit`" does not survive the
  removal of a module; `OrderInv` says instead that each entry of `started` finds
  them at or before its own position, or in the core, and both shutdown loops
  remove from the end. Entries in the request are a prefix of `started`, so the
  same fact serves RINIT and RSHUTDOWN. `CoreInv` says when the core's own MINIT
  has run. With `HooksBalanced` they form `HookInv`.
* `AllOrNothing` and `DestructorContext` speak of a few labels only. `RequestInv`
  says at every label which subsystems of the request are up and where strings go,
  step by step through activation, its undoing and deactivation; `ProcessInv` does
  the same for the core, and `TableInv` for the table the call is about. The five
  parts are `LifecycleInv`.
* `HookContext` needs `ActiveInv` besides: no request is active while extensions
  are started. With an empty table that is false (section 6).
* The refinement maps the initial state to the initial state and every step to a
  load, unload, serve or retire step, or to a stutter. That a load finds the
  requirements loaded is `OrderInv` of the next state.

### Tables (`NanoLifecycleProofs`)

`SpelledAlike`: a dependency that an entry of the same table resolves in lower case
spells that entry's name as the entry does. `lifecycle_spelling` shows that the
theorems fail without it, and every table of `lifecycle_tables` satisfies it.

* What is accepted is legal: `ValidInv` (what the validation loop has seen),
  `PlacedInv` (each started entry follows what it depends on, and conflicts with
  nothing in the whole table, entries that start later included) and `RegistryInv`
  (the Zend registry holds the core and the started entries, under different
  keys). The order of `started` is the rank that `Legal` asks for.
* What is legal is accepted: `ScanInv` says that a pass without progress has left
  only entries that wait for another unstarted entry of the table. In a legal
  table the entry of least rank that is not started waits for none, so the pass
  makes progress.

### Resources (`RegistryProofs`)

* `OnceInv`: open resources are allocated and below `nextfree`, so that a new
  handle has not run, and every destructor call in progress is that of a closed
  resource. Nothing about positions is needed.
* `ResInv`: every allocated structure is in the list, or its removal is a call in
  progress, or a bailout cut that removal short, and never two of these. This is
  what makes one `efree` enough and a second one impossible. Positions are followed
  through `zend_hash_index_add_new`: compaction keeps the elements, in order,
  since it puts the element with n used positions below it at position n (`Below`,
  `Nth`).
* `LoopInv`: in a packed table resource h is at position h, so one that is open
  lies below `i`, or above `num` because it was opened since the loop last read
  `nNumUsed`, and then the loop looks again. Both pairs of values that a `longjmp`
  may leave in `i` and `num` satisfy this. In a hash it is false (section 6).

### Objects (`ZendObjectsStoreProofs`)

* `StoreInv`: the two directions of the handle relation, and the free list with a
  rank, the distance of a bucket from its end. `StoreSound` alone is not inductive:
  taking the head needs that the head has the greatest rank.
* `ObjectsInv`: who may refer to what (`RefInv`, with the exact counts), what each
  call in progress holds (`FrameInv`: every call works on an object of its own),
  which contents are gone (`FreedInv`), which destructors have run (`FlagInv`), and
  what lies behind the variable of a shutdown loop (`ShutdownInv`). `del` and the
  destructor loop own two of the counts while the destructor runs, `free_obj` one.
* Its parts take counts, calls, variables and properties as parameters, since
  `zend_object_release` passes through a state in which the reference is gone and
  the object not yet deleted; the same parts describe that state.
* Counts are cardinalities of sets of calls and of properties; `RunningAppend`,
  `RunningPop` and `PointingChange` say how they change.

### Collector (`ZendGCInvariant`, `ZendGCProofs`)

`gc.full` is `GC_G(gc_full)`: the root buffer was at `MaxBufSize` and another entry was
wanted. `gc_reset` clears it before a request, and nothing within one
(`OverflowIsForGood`), so these theorems speak of every state before an overflow, with
automatic and requested collections, releases that start one, nested destructors,
bailouts and the disabled collector included. After an overflow within a
collection `RefcountSound` fails (section 6).

* None of the properties is inductive: while a collection traces, the counts in the
  headers are not the numbers of references, and nothing in the properties says
  which nodes are garbage while destructors run. `GInv` therefore has a case for
  each traversal, and one for everything between them:

| Case | Where | What it says |
|---|---|---|
| `Steady` | outside of the traversals, destructors and destruction included | counts are exact; nothing but garbage leads into the garbage, and no variable or call but its own destruction knows it |
| `Marking` | `MarkRoot`, `gc_mark_grey` | counts lack what visited grey nodes took off; every grey node is reached from a root through grey ones |
| `Scanning` | `ScanRoot`, `gc_scan`, `gc_scan_black` | counts lack what grey, white and waiting black nodes took off; the count of a white node is not positive; grey nodes are still in reach of work to be done |
| `Gathering` | `CollectRoot`, `gc_collect_white` | white nodes and collected ones are isolated: references to them come from among themselves |
| `Preparing`, `Nesting` | `DtorPrepare`, `NestedRoot`, `gc_remove_nested_data_from_buffer` | the same of the entries; what leaves the garbage takes along, in the end, all it leads to |

* `RcOK` states the counts once for all cases: a header's count plus the references
  from nodes that a traversal has visited (`Taken`) is the number of references, or
  at least that after a bailout. Each traversal changes the set of visited nodes and
  the counts together. That the white nodes are isolated when `gc_scan` has no work
  left follows by adding up: the count of a white node is not positive, so every
  reference to it was taken off by a node that is now white too.
* What a destructor can reach is no garbage: `Nesting` ends with garbage that no
  entry with a destructor leads into, and it stays isolated while the destructors
  change the rest of the graph, since the program can only store a reference
  to what it can reach (`ApartOK`, `GarOK`). Destroying a node of the garbage then
  releases references to nodes that are garbage or have the count to lose.
* Where the model computes a closure (`ReachableFrom`, the unused list of
  `BufferSound`), the proofs use that it is the least closed set: sets that grow
  with every step end within as many steps as there are elements (`Grows`), and
  every closed set around the start contains them. `From` in the invariant, "all of
  S is in reach of B", is stated with closed sets from the start.
* The buffer: `BufOK` says that entries and addresses determine each other, through
  compressed addresses (`DecompressFacts`: at most one used entry of a stride
  belongs to the node) and through `gc_compact`, which moves the last entries into
  the first holes (`Finger`, `Compacted`), and that the unused entries form one list.
* The parts take heap, headers, buffer and calls as parameters, since a release,
  `rc_dtor_func` and a collection that resumes pass through states in the middle of
  an action. Each action has a lemma for each case it can occur in.
* `GInv` says what the collector may not do and not that it overlooks nothing.
  `NothingIsLost` and `CollectionIsComplete` rest on a second invariant, `Kept`, with
  `GInv` as hypothesis of each step: everything allocated is led to, along
  references, from an anchor, which is a variable, the node of a call in
  progress or a node with an entry (`Led`). That is not true in the middle of a
  traversal, since `gc_collect_roots` drops entries and a scan turns grey nodes
  white; there `Kept` says which nodes are led to without the entries: while
  marking, every node below a root is grey or waits; while scanning, the black
  nodes are led to from variables and calls; while collecting, all but the white
  ones are. A black node has a count above what the grey ones took off, so a
  reference from outside leads to it, and that is where the two invariants
  meet. If no destructor was met (`~rerun`), what was led to before the garbage
  is destroyed needs no entry, which is `CollectsAll`. `LInv` gives `Kept` up when the
  collector is protected; an overflow protects it (`FullProtects`), so both
  theorems hold without the hypothesis of the others.

### Output (`OutputLayerProofs`)

`WritesOnly`: callbacks only write, and no user error handler runs inside the
deprecation notice. `output_fatal` shows that the first theorem fails without it.
Bailouts out of callbacks, chunk sizes, disabled handlers, handlers that fail and
writes inside callbacks are all included.

* The calls in progress have a shape (`CallsOK`: who may have called whom, and
  inside a callback only writes), and each frame holds what it should
  (`AllFrames`, `Returned`): its handler is on the stack at its level, or a flush or a
  pop has taken it off and nobody else has it (`TableInv`).
* `DataInv` follows the data. At every moment what was written is out, in the
  buffers from the bottom handler up, discarded, or in flight: in the one piece
  that the innermost call carries, in a gap of the stack (above so many handlers).
  Read in that order, with the piece at its gap, the tokens increase. Every step
  moves a piece across one boundary. Between calls nothing is in flight and
  `OutputExact` is what is left.
* After a bailout the layer is in another mode (`AbortInv`): `OG(running)` is still
  set, so that the end of the request meets `php_output_lock_error` at the first
  handler that is not disabled; nothing is said of the data there, but no freed
  handler is used.
* `OutputExact` concatenates the buffers with `FlattenSeq`, a recursive function
  of the community modules. `FlattenUnfolds` shows, with least counterexamples, that it
  is the last of the partial concatenations.

### Directives (`RegistryProofs`)

* `IInv` is the conjunction of `IniTypeOK`, `TableExact`, `OldValueKept`,
  `PinnedHolds`, `CacheAgrees` and `PhaseFacts`. That requests are isolated needs
  `OldValueKept`, since the end of a request stores what was saved; that the
  table is exact needs `PhaseFacts`: before the first request and while modules
  are shut down only directives of the core are modified, so that a module which
  takes its entries back frees none the table names, and between requests none
  is. A fixed value holds because its access mode is then the host's alone, which
  `PinnedHolds` says itself; `error_reporting()` leaves the access mode alone
  (`ReportIInv`), so that its own directive stays out of the reach of the others.
* `AlterFacts` and `AlterOthers` are what every caller of
  `zend_alter_ini_entry_ex` needs; each action has a lemma of its own.
* `AllOrNone` needs that a module's table is registered from its first entry on and
  taken back completely when one clashes.

### Hash tables (`ZendHashProofs`)

`NoOverflow`: `MaxWalks + 1 < MaxCount`, so that `nIteratorsCount` never reaches its
maximum (255), where it stays. The bound is exact: in `hash_walk`, with two walks,
`TablesSound` holds for `MaxCount = 4` and fails for `MaxCount = 3` (section 6).

* `HInv` says of the heap (`HeapOK`) that the tables in use are those of the two
  variables, that the iterators in use are parted into the sets reached from the
  walks' own iterators (`Parted`), and that counts are exact. This is inductive
  only with `Single`: no ring has two iterators on one table. It bounds the
  iterators on a table by the number of walks, which is why the count has room,
  and it makes the copy that `find_copy_pos` finds the only one.
* `Ring` is a recursion over the number of iterators. `MineFacts` shows that the set
  it ends in is closed under `next` and the least such set around its iterator,
  since sets that grow in every step outgrow the iterators. Everything about rings follows
  from that: a new iterator is alone in its ring, copying puts one into the
  ring of the original (`CopyOwned`), freeing empties one ring and leaves the
  others alone (`FreeOwned`).
* `find_copy_pos` passes through a heap in which the ring of the iterator has two on
  one table, before its copies are freed; `PreHeap` is `HeapOK` for that state.
* Each function of `zend_hash.c` has a lemma: what it does to a heap that is
  `HeapOK`. For `zend_array_dup_ht_iterators` it is `DupKeeps`, an invariant of its
  loop: iterators handled so far have their copies, in their own rings and at
  their own positions. Insertion is split into the cases of the code; each leaves
  room for what it stores.

### Only model-checked

* Liveness, which the prover cannot handle: `CallsReturn`, `ShutdownEnds`,
  `CollectionEnds`, `RequestEnds`.
* The collector needs no entry here but its liveness; what happens after an overflow
  of its buffer, where `NothingLost` and `CollectsAll` say nothing since it is protected
  then, is neither proved nor part of a run.
* Hash tables: `NoRevisit` and `WalkCompleteUnskewed`, which need the order of
  elements and positions through the loop that closes holes (`Moves`), not only
  the types of its results.
* The output layer with callbacks that call the layer, where `HandlerAlive` fails.

## 6. Where the code and its documents disagree

With a run that shows it:

* **Spelling of dependencies** (`lifecycle_spelling`). `find_available` compares
  with `strcmp`, the Zend registry in lower case. A requirement spelled in another
  case is met only if the module happens to start earlier. `EXTENSIONS.md`
  promises it independently of order.
* **Missed resource** (`resources_missed`). The close loop notices resources that
  destructors open by comparing `nNumUsed` with its earlier value. When the
  insertion compacts the table, the value may be the same, and the loop ends
  with an open resource above its index. The run uses table size 4 to keep the
  trace short. With the code's 8 it takes, for example, seven resources of which
  the last three were released, and a destructor that opens one more: the
  insertion at index 8 finds the packed array too sparse to grow and converts it
  to a hash, which closes the hole at position 0, so that five positions are in
  use before and after.

* **Collector not installed** (`gc_unset`). `gc_collect_cycles` is a pointer that
  `zend_startup` sets (`Zend/zend.c:1030`). Nano does not call `zend_startup` and
  sets it nowhere: the first full root buffer, or a call of `gc_collect_cycles()`,
  calls through a null pointer. `DIVERGENCES.md:27` lists cyclic collection as
  taken over.
* **Fatal errors that return** (`output_fatal`). `php_output_lock_error` frees the
  handlers and raises E_ERROR ("fatal error"). Nano's `nano_error_callback`
  returns, so a callback that calls `ob_end_clean()` goes on and
  `php_output_handler_op` continues with the handler that was freed.

Met while modelling, with the behaviour in the model and without a run:

* A conflict spelled in another case goes unnoticed if the conflicting module
  starts later (`src/extension.cpp:31`, against `EXTENSIONS.md:90`).
* A runtime started with an empty table is not recognised as started
  (`src/extension.cpp:107`), so a second call runs MINIT inside the active
  request, against the comment at `src/core.cpp:302`. This is why the theorem
  `HooksRunInContext` has the hypothesis `<<>> \notin Tables`.
* `php_output_stack_pop` does not ask the lock for a disabled handler
  (`main/output.c:1285`); the callback of the handler below can pop it while
  `php_output_flush` has it off the stack.
* After the deprecation notice for output in a callback the handler may be gone
  (`main/output.c:1064` knows), but the callers of `php_output_handler_op` still
  use it (line 1185). Set `ErrorHandler` and `Reenter` to `TRUE` to see it.
* `php_output_flush_all`, "Flush all output buffers subsequently", stops at the
  first handler that has nothing to pass on (line 1181).
* What a callback writes "will silently be discarded" (lines 953-954), but is
  passed on with the buffer if the callback returns false (line 1076).
* `zend_restore_ini_entry_cb` starts from FAILURE (`Zend/zend_ini.c:52`), so that
  `ini_restore` never restores a directive without a handler.
* `error_reporting()` writes its directive's entry without looking at `modifiable`
  (`Zend/zend_builtin_functions.c:486-513`), so it changes a value that the host
  fixed at `ZEND_INI_STAGE_ACTIVATE`, which `ini_set("error_reporting", ...)` is
  refused. `PinnedHolds` therefore asks of this directive only that it stays the
  host's.
* `zend_array_dup_elements` and `zend_hash_rehash` share the loop that closes
  holes, and its `while (iter_pos < i)` passes over a second iterator that is
  exactly at `i` when the first was waiting on a hole: it is moved with the next
  element, and its walk misses one. Only the rehash then moves iterators at the
  old end to the new one ("so that newly inserted elements are picked up
  correctly", `Zend/zend_hash.c:1437`); after a copy such a walk misses an element
  appended later. `skewed` records exactly that one of the two happened (`Skews`), and
  `WalkCompleteUnskewed` is `WalkComplete` for all other behaviours; checking
  `WalkComplete` itself in `hash_walk` shows both.
* `zend_hash_iterator_pos_ex` looks for the overflow of the old table's count in
  the new table (`Zend/zend_hash.c:632`). With 255 iterators on a table its count
  can then become too small; `MaxCount = 3` in `hash_walk` shows it.

* When the root buffer is at its limit (0x40000000 entries) `gc_add_garbage` returns
  without an entry (`Zend/zend_gc.c:1481`). The node stays allocated although it is
  garbage, while the garbage it refers to has entries and is freed with the rest:
  it keeps references to freed memory, and the counts of nodes that are later made
  at those addresses do not include them. Nothing the program can reach leads to it.
  `gc_full` with two objects without destructors, `MaxBufSize = ThresholdMax = 2` and
  `MaxRefs = 3` shows it as a violation of `RefcountSound` (in `SafeAtLimits`); it is
  why the theorems of the collector say `gc.full \/ ...`.

`php_nano_startup_core` returns in the middle on two failures without undoing
what it did. This is part of the model; `AllOrNothing` asks for a clean end only
of executions without a failure, and section 7 lists it.

## 7. Not modelled, and why

* Memory manager, interned string tables, weak references, streams: planned
  (section 8).
* Collector: references (`IS_REFERENCE`) and weak maps as nodes, which only
  lengthen paths or belong with weak references; temporary variables of frames,
  which compiled programs do not have; fibers; timing; failure to allocate the
  traversal stack, after which the request ends in a protected collector.
* Output: aliases, conflicts and reverse conflicts of handler names, hooks,
  buffer sizes, headers, implicit flush, the status functions, and destructors
  that run while `php_output_deactivate` frees handlers.
* INI: displayers, sorting, number parsing, `force_change`, the configuration
  file, which Nano does not read, the thread-safe build, which Nano is not,
  changes of a module's own directives before the first request, which nothing in
  the repository makes, and the error level that fibers and `highlight_string` save
  and put back around their work.
* Hash tables: string keys and collision chains, the internal pointer, immutable
  arrays, indirect slots, destructors of elements, functions that rebuild a table
  (`array_splice`, sorting), and the growth of `EG(ht_iterators)`.
* The persistent resource list and the table of resource types: next to be added
  to `ZendResources`.
* Cloning, lazy objects and weak references of the object store. Lazy objects
  need the initialiser calls of the virtual machine's replacement; weak
  references belong to a module of their own.
* The clean-up of the subsystems that a failed `php_nano_startup_core` leaves
  behind: they are tracked (`up`), and the next startup initialises them again.
* Extensions (`ext/*`) and third-party libraries: functions without a protocol
  between them.
* Time, random, network and compiler stubs: wrappers and constants.
* Handles near 2^63 (`ZEND_LONG_MAX`): out of reach of any run.

## 8. Plan

1. Life cycle, resources, objects, collector, output, INI, hash iterators: done,
   with the theorems of section 5.
2. Proofs that are left: `NoRevisit` and `WalkCompleteUnskewed` of hash tables, on the
   lemmas of `ZendHashProofs`.
3. `ZendResources`: the persistent list, `zend_list_destructors` and the order of
   module shutdown, composed with `NanoLifecycle`.
4. `ZendWeakrefs` with the object store and the collector: a weak map's entry dies
   with its key, also when the key dies in a collection.
5. Interned strings (storage switch and request table), the memory manager's huge
   list and limit, `zend_sort` as a function against its specification.
