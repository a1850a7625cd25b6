# libIAM in TLA+

TLA+ models of libIAM (Immune Algorithm Manager library, C), the TLC runs that
check them, and TLAPS proofs about them. Paths are relative to the repository;
`PROJECT.json` maps every definition to the lines it models.

## 1. The system

libIAM loads immune algorithms, setting stores and log stores from a directory
of shared libraries and hands data and settings to them. It is single-threaded:
a program calls `iam_init`, uses the library, and calls `iam_exit`. What makes
it hard is not parallelism but callbacks: almost everything the library does is
calling a function pointer a plugin left with it earlier, and that function may
call back into the library while one of its lists is being walked.

| Component | State | Operations | Interacts with |
|---|---|---|---|
| List (`src/list.c`) | head, tail, count, heap nodes | append, remove, clear, clear_act, free, free_act | every manager keeps its objects in lists; the `_act` functions call back |
| Logger (`src/logger_manager.c`) | `is_accumulation`, saved messages, stores, formatted texts | puts, putf, reg_save, init, flush, exit | calls the stores' save functions, which may log |
| Plugin manager, lifecycle (`src/plugin_manager.c`, `src/init.c`) | modules, library handles, the directory stream | search, load, register, exit; `iam_init`, `iam_exit` | calls the plugins' init and exit functions; owns the order of everything |
| Setting manager (`src/setting_manager.c`) | setting stores, the modules' callbacks | reg_store, reg_load/save/dump, reg_callback, the loading loop | calls load and dump of stores, then the callbacks |
| Settings (`src/setting.c`) | per module a list of settings and a reading cursor | reg, read, rewind, get, set, set_max | a setting is a variable plus a pointer to the plugin's value |
| Variables (`src/variable.c`) | type, range, array bounds, and the status triple (last, high, init) | reg, set_range, set_max, get/set by type, set_i, to_str | logs a warning for each refused operation |
| Algorithm manager (`src/algorithm_manager.c`) | lists of binary and real algorithms | reg_binary, reg_real, setters, fit, predict | calls plugin functions by algorithm name |
| Module information (`src/info.c`) | a cursor over the modules | rewind, read | walks the plugin manager's list |
| OS layer (`src/os/*.c`) | directory stream, library handles | open, findfirst, findnext, close | used by the plugin manager only |
| Plugins (`plugins/`) | setting_json: a JSON document; log_txt: a file; NSA_RV: detectors; NSA_RA, NSA_RS: stubs | init, exit, callbacks | register everything above |
| Programs (`examples/`) | none | viewer, a Python extension | call `iam_init` and `iam_exit` and ignore the status |


`src/parameter.c` is an empty translation unit. `tests/` fakes every dependency
with FFF and Unity; the tests were read for what they promise, and one of the
findings below quotes them.

How the parts interact: `iam_init` sets up the four managers' lists, searches
the plugin directory, and calls each plugin's init function, which registers
hooks (log stores, setting stores, callbacks, algorithms, settings). Then the
setting manager runs every hook of every store for every module, and the logger
hands the messages put aside so far to the log stores. `iam_exit` tears this
down in the order algorithms, logger, setting stores, exit functions, libraries.
All calls are synchronous and on one thread.

## 2. What is hard, and what makes each part correct

| Component | Hard behaviour | What must hold |
|---|---|---|
| List | a destroying traversal frees nodes while its callback appends; `tail` and `count` are only put right after the loop | nodes allocated = nodes linked; order kept; each element handed over and released once; every call returns |
| Logger | save functions log during the drain, and in direct mode within the loop that hands a message over; three allocations per call may fail; `is_accumulation` outlives `iam_exit`, `iam__bufs` outlives `iam_init` | every store sees each message once and in order, but for what a save function logs in direct mode; no message points to a freed text; nothing logged in a session is forgotten; a drain ends |
| Lifecycle | pointers into libraries stay in lists; each failure returns from `iam_init` at another point and callers go on; the directory stream may reuse its entry | no code of a closed library runs; handles are closed once; each plugin loaded once and told to exit; callbacks run after each load |
| Variables | an index may at once append and grow; a value may overflow the type after it was counted; `set_max` under the elements; the status of a class is shared by all its variables and written by every call | readable elements were written and lie in memory; the result tells what happened (of an overflow it does not: `variable_overflow`); no later success hides an error |
| Settings, information | a cursor into a list that is appended to and rewound | each item read once and in order between rewinds; no cursor is read into a list that was freed |
| Algorithms | function pointers set one by one, called by name | the algorithm named runs, in the mode asked for, and finds its memory; one without a function is not called |
| Conversions | narrowing, one static `zero` buffer, one ring of 128 bytes for texts | a value that fits is stored; a text and its end fit into the ring |
| NSA_RV | nested loops that restart, repeat and step back, over counters shared by all of them | a valid detector has been compared with every row; it raises no false alarm and is of use; training ends |
| Programs | `init_lib`, `exit_lib`, `fit`, `predict` in any order and number; static variables that outlive a session, cursors that outlive a list | no plugin runs on memory it does not have; each call runs as asked, whatever came before |
| setting_json | the document and the registered settings are merged, the file is edited between sessions, a dump fails or is cut by a crash | entries found are kept; defaults reach the file; what the file says overrides the defaults, element by element |

`PROJECT.json` lists the hazards line by line with the properties that cover
them. Six have none, because the properties are stated around them: the one
directory entry of `win.c`; a failed `realloc`; a narrower integer after a wider
one in `zero`; and in NSA_RV the revived detector, the stale radius and predicting
in the other mode.

## 3. Modules

| Module | Models |
|---|---|
| `ListKinds`, `ListSpec` | what `list.c` promises: a sequence of data; no pointers |
| `LinkedList`, `MCLinkedList` | `list.c` on a heap of nodes, one loop iteration per step; implements `ListSpec` |
| `LinkedListProofs` | its invariants and the refinement, proved |
| `Logger`, `MCLogger` | `logger_manager.c` across sessions of `iam_init` and `iam_exit` |
| `LoggerProofs` | types, no dangling text, nothing forgotten, messages in order and once, drains complete, proved |
| `Plugins`, `MCPlugins` | `plugin_manager.c`, `init.c`, the loading loop of `setting_manager.c`, and the hooks of plugins into their libraries |
| `PluginsProofs` | handles, mapped code, exits, the search and the loading of settings, proved |
| `Variable`, `MCVariable` | one integer setting of `variable.c` and `setting.c`, and the status of its class |
| `VariableProofs` | its invariants and the action property, proved |
| `SettingJson`, `MCSettingJson` | the plugin `setting_json.c` over sessions, with what it uses of `setting.c` and `variable.c` |
| `SettingJsonProofs` | entries kept, `has_dump`, types, new entries, and what a load and a save compute, proved |
| `NsaRv`, `MCNsaRv` | `fit` and `predict` of the plugin `nsa_rv.c` on one set of detectors |
| `NsaRvProofs` | attempts, no false alarms, anomalies reached, proved |
| `Programs`, `MCPrograms` | `iam_py.c` and `viewer.c` on the whole library: `info.c`, the cursors of `setting.c`, `algorithm_manager.c`, the ring of `variable.c`, and the plugins' init, callback and exit functions |
| `ProgramsProofs` | any order of calls is safe and runs as asked, the viewer shows everything, proved |
| `Induction` | induction and recursion over the first numbers, as lemmas on sets and functions |

### LinkedList

`heap` is a partial function from addresses to nodes: `iam__malloc` extends it,
`iam__free` removes an address, and reading an address outside `DOMAIN heap`
stops TLC with an error, so that a use after free cannot go unnoticed. `head`,
`tail` and `count` are the fields of `iam__list_t`; `p` is the loop variable of
`IAM__FOREACH` and `IAM__FOREACH_DEL`, `job` and `stage` tell which call is in
progress and which part of its body runs next. A callback may call
`iam__list_append` on the list being walked (`MayAppend`): that is what
`iam_logger_puts` does from a save function. A callback never removes: no code
of the library does. `order` is a history variable (the nodes in the order they
were appended); the properties and the refinement mapping are stated with it.

### Logger

`accumulating`, `saved`, `stores` and `bufs` are the globals of
`logger_manager.c`; the lists are sequences because `LinkedList` implements
`ListSpec`. `text` holds the formatted texts not yet freed, `at` and `saving`
where a drain is. A drain makes one step per call of a save function, because
save is plugin code: while `saving`, `Puts`, `Putf` and `RegSave` are enabled.
The same holds before the first `iam_init`, when nothing is put aside and
`iam__logger_put` runs the loop itself (`DirectCall`, `DirectReturn`,
`DirectSkip`, `DirectEnd`): a save function that logs there starts a loop within
the loop, and `direct` is the stack of them. A store may then be given the inner
message before the outer one; the history `within` keeps which message was logged
while which was handed over, and `InOrderOnce` excepts these pairs and no others.
`phase` is the part of the program that runs; it decides what may be called, not
what the logger does. `delivered` is a history: the messages each store was
given, in the order of the calls of its save function. Console output changes no state and appears only as the
guard `Listening`. `Passes` is the C expression as the compiler reads it
(section 6).

### Plugins

`pc` is the place in `iam_init` or `iam_exit`. `mapped` counts open handles per
library; every step that calls plugin code records whose in `runs`, which is
what `CodeMapped` looks at. `plugins` and `libs` are the two lists, which differ
after a failure. `Directories` is a set of listings; `Files` are the entries with
the right extension. `ReusesEntry` is the one difference between `os/unix.c`
(readdir gives a new entry) and `os/win.c` (one buffer): `Name` is the name that
the loop sees after it has moved on. `Faults` selects which failures happen, so
that one run can show what holds without the two failures that break it and
others what each of these does. Which hooks a plugin registers is free
(`RegLog` ... `RegStoreFunction`), in any number and order.

### Variable

`v` is `iam_variable_t` (the fields that decide), `block` and `cells` the memory
behind the setting, `last`, `high` and `init` the status of the class. The
setters follow the macros of `variable.h`: sign and range (`Refusal`), index
check and growth (`SetValue`), and `return class.status.last.set`. A variable and
a setter are each narrow or wide, for any two integer types of different size.
`iam_variable_set_value` is `Copies` and `Overflows`: a wide value goes into a
narrow variable if it equals the static buffer `zero` once its low bytes are laid
over it, otherwise nothing is stored, although `set_i_is_correct` has counted the
element and set the status; from a narrow value into a wide variable the bytes
behind the argument (`Behind`) go too. `above` is what `zero` holds above a narrow
integer; other calls of the process change it (`OtherCall`). `skipped` is a
history: the elements that were added without a value this way. `failed`,
`erred` and `cut` are histories: the methods that failed since `high` was
reset, whether any call failed since `init` was reset, and whether elements were given up, by `set_max` below `count` or
because `realloc` returned NULL. The memory `iam_variable_reg` allocates
for an array without memory of its own is lost (the setting keeps NULL); the
model starts such an array with `block = 0`. The setters of signed types are
modelled, on variables of either sign; those of unsigned types, which check less,
and a bool set from an integer are not.

### SettingJson

`file` is `setting.json` between and during sessions, `root` the document in
memory, `values` what the plugins' variables hold. A document is a function from
modules to entries, an entry one from names to JSON values; a JSON value is an
array or a single cell with a type tag. `NoDocument` stands for a missing file
and for one that does not parse: `setting_init` treats them alike. A load of one
module is one step (`LoadKnown`, `LoadNew`), as nothing is called back during it;
a dump is two, because `fopen` has emptied the file before `json_dumpf` writes.
Integers are three digits of base 2: int64, int32 and uint8 differ in how many
they keep, so that a narrowing conversion, the buffer `zero` and the bytes
behind a narrow variable (`Behind`) are what they are in C. `Reached` is the
effect of `data = stg`, in `save_to_json` as in `load_from_json`: the settings up
to and including the first array. `StoredIsLoaded` and `NewEntryComplete` speak of
these; what is lost behind them is finding
`setting_json_arrays`. An array in the file that is shorter
than the default, or empty, leaves the rest of the default in place and never
lowers `count`: with the default 1, 3 a file that says `[4]` gives 4, 3. So
`StoredIsLoaded` says that the file overrides the default element by element
(`OverDefault`), and that nothing else has a say. `start` and
`edited` are histories: the document the session found, and the modules whose
entry the user has touched. The user edits between sessions only, and keeps a
setting's shape (an array for an array) but not its type. Not in this module:
float settings, arrays that grow with realloc, ranges and signs (`Variable`),
settings changed while the program runs (they are never saved), and the log
message of a dump that cannot open the file. A write may fail (`DumpCut`): `cut`
records it, because the code does not.

### NsaRv

A vector is a point of a finite set with integer distances; the detectors of one
`det_id`, their radii, counters and flags are functions on `Det`. `pc = "rows"`
is the loop over the rows for detector `k`; each turn of it is one action, chosen
by the row's label, the distance measured and `attempt`: `Redraw` (any point, any
radius), `Restart`, `NormalRow`, `AnomalousRow`. Label and data are indexed apart
(`i` and `row`), because the code moves a pointer and an index and a restart puts
them out of step. After the loop a detector is accepted, given up, or moved
towards the nearest anomalous row; of that walk along the coordinates only the
end is modelled (`Moved`, `MoveFails`). Where the code reads `s2` uninitialized
the end is any point. `is_valid` has the index -1, which `k--` makes the code
write for the first detector. `found` and `alarms` keep of the two counters what
they are compared with. `seen` is a history: the labels each detector was compared
with under its own radius and the row's own label. Training tables are free of
each other; `predict` may run between any two trainings and in either mode.

### Programs

One process: `plugins`, `algs` and `cursor` are the globals of the library, `mem`,
`isVdetectors` and `det_id` the statics of the plugins. `iam_init` and `iam_exit`,
step by step in `Plugins`, are one step each here; `IamInit(l, n, ...)` loads the
first `n` plugins of the listing `l` and stops there if they are not all. A
library whose handle is forgotten by a second `iam_init` is `kept`: its statics
survive the next `iam_exit`, with pointers to freed memory. Only a setting store
makes the callbacks run, so that without `setting_json` (or after a failed
`iam_init`) NSA_RV and log_txt have nothing: what the code then does is undefined
(`pc = "undefined"`, with the `cause`), as it is when an algorithm is called that
never set the function (`junk`), or with a set of detectors there is not. `Restart`
is the next process. `fit` and `predict` differ in nothing this module sees: both
are `Ask`, the loops of `set_mode`, `Call` and `Return`. `complete` is a history:
every `iam_init` of the process got as far as the callbacks and log_txt could open
its file.

## 4. Runs

| Run | Bounds | Shows |
|---|---|---|
| `list` | 4 nodes, 2 data, 2 appends per traversal | `TypeOK`, `Linked`, `Counted`, `Cursor`; refines `ListSpec` (`ListPromise`); every call returns (`CallReturns`) |
| `logger` | 2 stores, 4 logging calls, 2 filters, console build, malloc may fail, direct mode nested up to 4 deep, any number of sessions | `TypeOK`, `InOrderOnce`, `OnlyLateForgotten`, `TextOutlivesMessage`, `LeavesDelivered`, `DrainEnds` |
| `plugins` | all listings of 2 plugins and 1 other entry, 2 setting stores, failures before a module is registered | `CodeMapped`, `LoadedOnce`, `SettingsReachPlugins`, `ExitOwed`, `IamReturns` |
| `plugins_faults` | Windows listings, every failure, 1 store | `TypeOK`, `HandlesKept` |
| `variable` | values -1 and 0, narrow integers of 1 bit, 2 elements, realloc may fail | `TypeOK`, `Filled`, `SetTells`, `ErrorsKnown`, `RefusedKeepsValues` |
| `setting_json` | 4 modules in 2 orders and subsets, 4 settings (a bool, a uint8, a string, an array of up to 2 elements), 4 JSON cells, either digit behind a narrow variable, any number of sessions, edits and crashes | `TypeOK`, `EntriesKept`, `DumpTells`, `DefaultsComeBack`, `StoredIsLoaded`, `NewEntryComplete` |
| `nsa_rv` | 2 detectors, 5 points, 2 radii, 4 tables of up to 3 rows, 2 draws in a row, any number of trainings (the first two are told apart) | `TypeOK`, `AttemptSettled`, `NoFalseAlarm`, `ReachesAnomaly`, `PassEnds` |
| `programs` | 5 listings of the repository's plugins with and without a store, 3 detector ids of which 2 exist, a ring of 6 bytes, any number of calls, sessions and processes | `TypeOK`, `AnyOrderSafe`, `RunsAsAsked`, `ViewerComplete`, `CallsReturn` |
| `plugins_init_failed`, `setting_json_arrays`, `nsa_rv_rows`, `variable_overflow` | as above | one finding each, see section 6 |

Every property of a passing run has a mutant in `PROJECT.json`: an operator with
a plausible mistake (marked "Variant" in the modules) under which TLC finds the
property violated.

Why the bounds are enough:

- List: removal has the cases head, middle, last and absent, and a traversal the
  cases first, middle, last, each with and without an append under it; four nodes
  have all of them with one to spare. Two data values, so that values repeat.
  The heap is the bound; the proofs need none.
- Logger: two stores are needed for one to be skipped while the other is not,
  and for one to join during a drain or a direct hand-over. Four calls cover a message before, during
  and after a drain and one late one. `MaxMessages` and `MaxStores` bound calls
  over all sessions; sessions themselves are not bounded. Callers' messages have
  one level and the logger's own ones another, and each filter lets one of them
  pass by what it says.
- Plugins: two libraries are needed for one to run code after the other failed;
  the extra entry makes skipping and order matter. With a listing of each length
  from none to three the loop runs zero, one and more times.
- Variable: `Cap = 2` lets an array grow twice and be shrunk below its count; -1
  and 0 are the two sides of the sign check, and a range of one of them refuses
  the other. -1 does not fit a narrow signed variable through a clean buffer, and
  with -1 above it in the buffer it is 0 that does not. Lifting `Cap` changes no guard, and the proofs hold for every `Cap`.

- SettingJson: a session's modules are known, new or absent from it; with four of
  them, one without settings, there are such before and after the one in hand. The
  cells give each kind of setting a value of its type that fits and one of another
  type, and the uint8 one that overflows and leaves its digits in `zero`; arrays
  are edited to lengths from none to one more than fits. The bool is true by
  default, all narrow integers have one width and the array comes last, as the
  hypotheses of section 7 ask; a second array is `setting_json_arrays`.
- NsaRv: two detectors are needed for one to be charged for the other and for
  `k--` to reach one before it; the points leave a detector in reach of a normal
  row, of an anomalous one, of both and of none, in either mode. The tables: none
  (the loop is skipped), two normal rows (no move), an anomalous row last and
  first. With two draws allowed a detector may survive none, one or both. The
  distances are those of a line: the properties use no more of a metric than that
  all are below `Far`.
- Programs: five listings put the store before, between, after and not among the
  plugins that need it. The ring has room for a text of the greatest length plus
  the final NUL and four starting places, so that each remainder occurs.

Bounds in guards: `MaxReentry`, `MaxMessages`, `MaxStores` (twice) and `Cap`;
`FitsCounted` bounds a counter, not the trainings.
Deadlock is checked in every run: the program can always be called again
(`Variable` after a registration, the others in a next session or process).

## 5. Fairness

`LinkedList`: `WF_vars(Loop)`, the steps of a call in progress. `Logger`:
`WF_vars(DrainStep \/ DirectStep)`, the library's loops over the stores and the
returns of save functions. `Plugins`: `WF_vars(Proceeds)`, the library's own steps and
the returns of plugin functions. The code is straight-line C on one thread: a
call that has begun has nothing to wait for, so weak fairness of its next step
is what the machine does. That plugin functions return is an assumption about
plugins; that they log finitely often is the bound on messages: with a save
function that logs a message each time it is called, `iam__saved_logs` is never
empty and neither `iam_init` nor `iam_exit` returns. No strong fairness is used,
and no fairness of calls from outside. `Variable` has no loops and no
fairness; of `SettingJson` only safety is claimed, and a crash is always possible.
`Programs`: `WF_vars(Proceeds)`, the steps of a call in progress (that `fit` of
NSA_RV returns is `NsaRv`'s part). `NsaRv`: `WF_vars(FitStep)`. Its `PassEnds` is
conditional: the code itself bounds neither the draws for one detector (`attempt`
starts anew at each restart) nor its moves, so a run that draws or moves for ever
is allowed, and nothing else keeps `fit` from ending.

## 6. Findings

1. `plugins_init_failed`: after a failed init the module stays registered with
   its exit function in a closed library. This is why `CodeMapped` is checked
   with the failures before registration only.
2. `setting_json_arrays`: after an array, no further setting of a module is
   saved or loaded; NSA_RA's `coeff` never reaches the file.
3. `nsa_rv_rows`: a restart sets label 0 and row 0, and the loop's `i++` follows:
   from then on a detector is compared with row `i - 1` under the label of row
   `i`, and never with the last row.
4. `variable_overflow`: a setter whose value overflows the variable's type stores
   nothing, may have added an element, and returns `IAM_VALUE_IS_CORRECT`;
   `IAM_OVERFLOW_VALUE` is returned for strings only. What counts as overflow
   depends on the static buffer: negative values overflow a narrower signed type
   even while it is clean, and others do once an earlier call has left bytes in it.

Two more disagreements of the code with what the repository says of it need no
run to be seen. `filter & log->level != 0` (`logger_manager.c:93` and `:120`)
compares first, so that a store's filter is reduced to the bit of `IAM_TRACE`,
where `include/iam/logger.h:64` says "Фильтр уровней сообщения" (filter of message
levels); `Passes` models what the compiler reads. And `tests/test_setting.c:327`
(`cte[] = { 0, 1, 2, 3, 3}`) expects that the set refused for its range on line
316, at the index of the last element, has counted an element: the code leaves
2, as `include/iam/variable.h:30` has it and `RefusedKeepsValues` says. The test
passes because line 321 compares arrays of `size_t` as arrays of `int`.

`PROJECT.json` has the quoted lines. The models show more of the code that a
reader may not expect, and their properties are stated around it: `set_range`
returns the status of an earlier setter (`SetRange`);
`iam_variable_reset_status` does not reset `last` (`ResetStatus`); messages logged
by exit functions are never released (`LoggerExit`, and `OnlyLateForgotten` excepts
them); with the one buffer of `win.c` the search skips the first entry and loads
the last one twice (`Name` under `ReusesEntry`, with which `LoadedOnce` fails); a
getter wider than the variable returns the bytes behind it too, and `setting_json`
saves every bool and small integer that way (`Widened`); a setting
missing from an existing entry makes `setting_json` rewrite the file in every
session without adding it (`LoadSetting`); a narrow integer leaves its digits in
the buffer `zero`, so that a narrower one may be refused afterwards although it
fits (`Overlay`); a JSON `true` or a string given for an integer loads as zero
(`ValueAs`); a crash in a dump loses the whole document (`DumpOpens`); without memory
for a module init runs on NULL and `iam_init` reports success (`no_module`);
`set_max` leaves `count` above `max`, and a failed `realloc` is reported as
success (both set `cut`, after which `Filled` and `SetTells` promise nothing); a narrow
setter copies what lies behind its argument into a wide variable (`Copies`); a
successful call sets `status.init` to `IAM_SETTING_HAS_IGNORED` (`SetStatus`).

In NSA_RV: a move steps back with `k--` and then sets `is_valid[k]`, which makes
the detector before valid even if it was given up, and writes in front of the
array for the first one (`Move`); the radius of a pass is read once, so that a
detector drawn anew is judged by the radius of the old one (`Redraw`); `euclidean`
of the last row decides whether a move begins, and if not, `s2` is read
uninitialized (`Moved`); the activations of a training count in the next one, which
is why `ReachesAnomaly` is claimed of the first. In the programs: without a setting
store, or after a failed `iam_init`, fit, predict and the exit functions of NSA_RV
and log_txt use pointers nobody set; `iam_algorithm_reg_real` leaves `fit` and
`predict` uninitialized, so that asking for NSA_RA calls what `malloc` found there;
a `det_id` from 8 on is accepted; and the example of README.md trains with
`'Vdetectors'` and predicts with `''`, the other mode, for which `NoFalseAlarm`
promises nothing.

## 7. Proofs

All proofs are for every value of the constants, under the assumptions named in
the modules (`NULL` is no address, levels are not empty, `Junk` is no value, the
bounds are naturals).

**LinkedListProofs.** The invariant is `TypeOK /\ Linked /\ Counted /\ Cursor`.
No conjunct is inductive alone: a step frees `p`, so `Linked` needs `Cursor` to
know that `p` is the first node of what is left; `Cursor` needs `Linked` for the
next node to be allocated; an append needs `Counted` to know that an empty list
has no tail. Lemmas on sequences without a given element (`RemoveFirstShape` and
others) carry the removal. `Invariance` gives `TypeCorrect`, `ListLinked`,
`ListCounted` and `NoDanglingCursor`; `Refinement` shows the safety part of
`ListPromise`, which is all of it, as `ListSpec` has no fairness: each step is
mapped to a step of the sequence or a stutter under `items <- contents`.

**LoggerProofs.** Messages are handed over directly only before the first
`iam_init` (`DirectEarly`), so the direct loops and a drain never mix.
`NoDanglingText` (`TextOutlivesMessage`) needs that messages
left over when the logger is closed are late ones, and `NothingForgotten`
(`OnlyLateForgotten`) the same: `LateWhenClosed` is the strengthening, and the
drain's end condition (`saved` empty) is what makes it inductive.
`DeliveredInOrder` (`InOrderOnce`) rests on `OrderInv`: numbers in `saved`
increase and none is still to be given; what a store has been given is at most
the message in hand, and less than it while the drain has not come to that store. In direct mode `b` may
come after a later `a` only if `a` was logged while `b`, still on the stack, was
handed over, which is what `within` records.
Its part `InHand`, that the stores passed have the message if their filter lets
it pass, gives `DrainComplete` (`LeavesDelivered`, an action property): when the
loop over the stores ends, it has passed them all, those included that a save
function registered meanwhile.

**PluginsProofs.** `HandlesBalanced` counts: a library is mapped as often as its
handle is in `libs`, plus once while its init runs; it is proved for every choice
of failures, and so is `SettingsDelivered`, whose `LoopInv` says how far both
loops have come by `loads` and `calls` of each module. `CodeStaysMapped` and
`ExitsPaid` have the hypotheses `InitsSucceed` (neither `init_failed` nor
`no_library_node`, a library closed for want of a list node, in `Faults`) and
`ModulesRegistered` (nor `no_module`): with those failures the code forgets hooks or modules, which section 6
describes, and the other failures are all allowed. `EachLoadedOnce` needs that the
directory lists an entry once and that `ReusesEntry` is false, as in `os/unix.c`:
what has been read is a prefix of the listing (`SearchInv`), and the plugins in it
but for the entry in hand are the ones mapped.

**VariableProofs.** The proofs are for every width of a narrow integer and
whatever lies above it in `zero` and behind it in memory. `IInv` is the four
checked invariants with `Clean` (nothing is written beyond the memory), `Fixed` (a
plugin's memory is never shorter than `max`) and `Fresh` (no memory before
registration). `Filled` needs `Fixed` for `set_max` on fixed arrays, and excepts
the elements in `skipped`, those added by a setter whose value overflowed;
`SetTells` needs `Filled` so that an index not refused lies below `max`, and says
that the value is stored where `Fits` holds: the setter has the variable's own
width, or the value is one of the narrow type, not negative, and `zero` is clean.
In the other cases the code gives no such promise (`variable_overflow`).
`RefusedKeepsValues` needs `Clean`, as a refused index may still have reallocated.
One lemma per call; `StatusKept` covers what all calls do to the status.

**SettingJsonProofs.** For `EntriesUntouched` the entries found must be in `root`
as well as in the file, because the file is written from `root` (`Kept`). For
`FlagTells`, `has_dump` may be unset on a document that is not the file only before
the first load (`Told`), which is why a session needs at least one module
(`OrderAssumption`; the store's own plugin is one) and `Position` is needed.
`TypeCorrect` needs what the recursive functions of `LoadFromJson` and `CopyValues`
yield, turn by turn (`Induction`). The other theorems say what values travel
through the file, two of them under a hypothesis on the registered settings
without which the code may fail:

| Theorem | Hypothesis | Why |
|---|---|---|
| `NewEntriesWhole` (`NewEntryComplete`) | none | the low digits of what the getter copies out of a narrow variable are the default |
| `UntouchedRun` (`DefaultsComeBack`) | `FalseBools` | reading back cuts off the digits from behind a narrow variable, except for a bool |
| `FittingRun` (`StoredIsLoaded`) | `OneWidth` | digits of a wider integer in `zero` make a narrower one be refused |

`NewEntriesWhole` and `FittingRun` speak of the settings up to and including a
module's first array, which of NSA_RA, the one plugin with two arrays, is `t` and
not `coeff` (finding `setting_json_arrays`). The only narrow integer of the repository's plugins is NSA_RV's uint8 `det_id`,
which gives `OneWidth`, and their only bool, its `isVdetectors`, is true by
default, which gives `FalseBools`. The invariants: `NewInv` (what a session adds
are defaults, and every module loaded so far has an entry), `BackInv` (outside
the entries the user touched, both documents hold defaults and the plugins have
theirs) and `StoredInv` (the buffer `zero` holds no digit above those of the narrow
integers; the modules loaded so far run with what `start` says over their defaults).

**NsaRvProofs.** `NormalRowsPass` (`NoFalseAlarm`) needs `ClearOfNormal`: no normal
row a detector was compared with lies within its radius. That survives a pass
only because a detector just drawn has seen nothing, because after a restart,
when row and label are out of step, no row counts any more but the normal one at
which the detector was drawn, and because the radius in hand is the detector's own unless
it was drawn again (`PassInv`). `AnomaliesReached` speaks of the first training
(`FirstInv`), and of a code in which a detector without activations is moved
(`ActivationLimit > 0`; the code's is 3); `FitsCounted > 1` only says that the
model tells the first training from the others.

**ProgramsProofs.** `AnyOrder` from `AlgInv` (an algorithm belongs to a module in
the list), `HoldInv` (as long as each `iam_init` got to the callbacks, a plugin in
the list has what its callback prepares) and `CursorInv`. `RunsInMode` from
`AskedInv`: on the way to NSA_RV's function both settings are still ahead of the
cursor or have the values asked for; it needs `AnyOrder`'s invariant, or the
cursor might walk another list. `TypeCorrect` has the ring: its arithmetic is for
every size that `BufferAssumption` allows. `ViewerShowsAll` (an action property) from
`ViewInv`: what is printed are the modules read so far, each followed by its
settings; it needs the value of `FlattenSeq`, a recursive function of the
community modules, on a sequence with one element more.

**Induction.** The library's induction theorems take an operator, so `Induction`
states what the proofs need with sets: a set that has 0 and the successor of each
of its elements below `N` has every number up to `N` (`UpTo`, from the
well-foundedness of strict inclusion between finite sets), and a base and a step,
given as a function, define a function on `0 .. N` (`Iteration`). With these the
recursive functions of `SettingJson` and `FlattenSeq` are reasoned about.

Every invariant and action property of a passing run is stated by a theorem, some
under the hypotheses above, which the instances of the runs meet. Only
model-checked are the liveness properties (`CallReturns`, `DrainEnds`, `IamReturns`, `PassEnds`, `CallsReturn`),
because the provers handle neither liveness under fairness nor ENABLED, and the
four findings, which are counterexamples.

## 8. Not modelled, and why

- Formatting (`iam__logger_print`, `sprintf` of warnings), path handling of the
  directory functions, the contents of log files and the text of JSON: no control depends on
  them. The warnings that refused operations log are left out of `Variable`; the
  logger they go to is module `Logger`.
- The arithmetic of NSA_RV (floating point over random numbers) and the single
  steps of its move: out of TLC's reach; `Moved` says where they end. Rows with
  more columns than `attr_n`, and the length of the text in `msg`.
- Parsing of Python arguments, reference counts of arrays, and the viewer's layout.
- In `Variable`: setters of unsigned types, of which the repository only calls one
  (`set_uint8` in `iam_py.c`) on a variable of its own type, which is a copy; real
  settings, whose setters the repository calls on their own type too; and
  conversions between categories (a bool set from an integer is compared with the
  remains in `zero`), which nothing in the repository asks for.
- `save` of a setting store: it is registered and nothing calls it.
- `iam_register_init`, `iam_register_exit` and `iam_plugin_register` of
  `include/iam/plugin.h`: declared, not defined anywhere.

## 9. Plan

Done, in this order, the most important behaviour first: the list every other
part rests on, the logger (callbacks under traversal), the lifecycle, the
variables, the settings in a file, then the plugin with an algorithm of its own
and the programs on top.

What could still be modelled: the remaining conversions of
`iam_variable_set_value`; `Plugins` step by step together with `Logger`
(drains that run plugin code inside `iam_init` and `iam_exit`), with an abstract
specification of a plugin's life: initialised, configured, used, exited, unmapped.

To prove, with such a specification: that `Plugins` implements it under
`ModulesRegistered`, from the invariants of `PluginsProofs`. `Programs` takes the
whole of `iam_init` in one step; a refinement between the two is the other proof
worth having.
