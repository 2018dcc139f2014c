# Verification of Breadlog

Breadlog puts numeric references (`[ref: 42] `, or the key-value pair
`ref = 42`) into the log statements of a Rust code base, and keeps the next
free number in a lock file. This directory holds a TLA+ model of the program,
the TLC runs that check it on small instances and TLAPS proofs for every
instance. Paths are relative to the repository.

## The system

| Component | State | Operations | Modelled in |
|---|---|---|---|
| `src/main.rs` | the stop flag, the exit status | start in check or edit mode, signal registration | `Breadlog` |
| `src/config/context.rs` | `Breadlog.lock`, `cached_next_reference_id` | load the configuration, read the number at start-up, write it at the end of a run | `Breadlog` (the lock file), `Workflow` (what configurations select and share) |
| `src/codegen/finder.rs` | `code_files` | walk `source_dir` | `Breadlog` (one step, with its failures), `Workflow` (which files) |
| `src/codegen/generate.rs` | the source files, temporary files, the shared `AtomicU32`, the map results | `check_references`; `generate_code` with its two passes; per file `load_code`, `find_references`, `map`; then `reduce` | `Breadlog` |
| `src/parser/code_parser.rs` | none | kinds of entry, directives, text of a reference | `LogRefs` (kinds and entries), `RustFinder` (directives, insertion) |
| `src/parser/rust_parser.rs`, `rust_grammar.pest` | none | `find` | `RustFinder` (arguments and directives), `RustGrammar` (literals, comments, names) |
| `src/lib.rs`, `fuzz/` | none | fuzzing entry point | no |
| logging, tracing | none | output only | no |

**How they interact.** `main` builds a `Context`, which reads the lock file once
(only with `use_cache`, and only if the file is there and parses). It registers
the stop flag and calls `check_references` or `generate_code`. Both find the
files and hand them to `process_references`, which for each file in turn looks at
the stop flag, loads the file, finds the entries and calls the processor's `map`;
after the last file it looks at the flag again and calls `reduce`. There is no
parallelism inside a run: every future is awaited at once.

 * `check_references` counts the entries that lack a usable reference.
 * `generate_code` takes the number from the lock file, or finds it in a first
   pass as the largest reference plus one; the second pass rewrites each file
   that needs it through a temporary file, drawing references from a counter;
   at the end, *starting number + insertions the map results report* is cached.

**What is hard.** The number in the lock file, the counter and the code are three
accounts of the same thing, kept in step only at the end of a successful run.
Between the first reference drawn and the write of the lock file, a signal, a
kill or one of eight kinds of failing call may come; the lock file is emptied
before it is filled; a source file is replaced before its contents are flushed;
developers edit the code meanwhile. References have to stay unique and stable
through all this over many runs. There is a loop through the text: what one run
inserts the next has to parse, after directives and the configuration may have
changed what it looks at. And the lock file is shared by whoever uses it: several
editors, branches that are merged, configurations over the same code.

## Modules

| Module | Contents |
|---|---|
| `LogRefs` | log reference entries: kinds, which need a reference, what insertion makes of them; `u32` |
| `Breadlog` | the program, run after run, with the operating system and the developers around it |
| `BreadlogProperties` | type invariant, safety, the inductive invariant, action properties, liveness, and the refinement mapping to `Registry` |
| `Registry` | the abstract promise: a registry that gives references to places |
| `Retired` | `Breadlog` with a memory of the references ever in use |
| `BreadlogProofs` | theorems: types, the inductive invariant and what follows from it; `Breadlog` implements `Registry` |
| `RunLength` | `Breadlog` with a count of the steps of the present run |
| `RunProofs` | theorems about single runs: check mode, temporary files, insertions, verdicts, completeness, what "ok" means, and how many steps a run takes at most |
| `RetiredProofs` | theorems about the memory: nothing is given out twice |
| `RustFinder` | a file as the parser sees it: statements, directives, `find`, the text of an insertion |
| `RustFinderProofs` | theorems about the text: what is inserted is found again, references in it stay distinct |
| `RustFinderTests` | the unit tests about arguments and directives, as files of `RustFinder` |
| `RustGrammar` | a text of quotes, escapes, comments and macro names, as the grammar reads it, as Rust reads it, and as `map` copies it |
| `RustGrammarProofs` | theorems about the grammar and the copying loop: an insertion changes nothing in the reading of a text, a second run nothing in the text |
| `RustReadingProofs` | theorems that the grammar and Rust agree: every log statement is found, and a run leaves none without a reference |
| `RustGrammarTests` | the unit tests about these, as texts of `RustGrammar` |
| `Induction` | induction over numbers, upwards and downwards, for the proofs about arguments and texts |
| `Workflow` | several processes, a branch, and configurations that differ or change |
| `WorkflowProofs` | theorems about these: references stay unique and lock files ahead, whatever the team does but four things |
| `MCBreadlog`, `MCRetired`, `MCRunLength`, `MCRustFinder`, `MCRustGrammar`, `MCWorkflow` | small instances for TLC |

### State and actions against the code

A source file is a row of `NumSlots` slots; a slot is the entry `find` returns for
the statement there, or `Absent`. Text is left out: no property tells two messages
apart. `lock` is the number in the lock file, `None` without a file and `Corrupt`
for a file that does not parse. `pc` is the place in the code:

| `pc` | in the code | leaves by |
|---|---|---|
| `idle` | no process | `Start`, `StartFails` |
| `find` | `CodeFinder::new` | `Discover`, `DiscoverFails`, `Stop` |
| `count` | `process_references` with the counting processor | `CountFile`, `LoadFails`, `FinishCount`, `Stop` |
| `scan` | the first pass of `generate_code` | `ScanFile`, `LoadFails`, `FinishScan`, `NothingToDo`, `ScanOverflows`, `Stop` |
| `insert` | the second pass, between two files | `SkipFile`, `CreateFails`, `CreateScratch`, `LoadFails`, `FinishInsert`, `FinishUncached`, `CacheOverflows`, `Stop` |
| `entry` | `map`, in the loop over the entries or at the rename | `InsertReference`, `WriteFails`, `WriteFailsAfterDraw`, `RenameScratch`, `RenameFails` |
| `flush` | the drop of `scratch_file` after the rename | `FlushScratch`, `FlushFails` |
| `discard` | the drop of `scratch_file` without a rename | `DiscardScratch` |
| `save` | `cache_next_reference_id`, before `std::fs::write` | `TruncateLock`, `LockOpenFails` |
| `fill` | inside `std::fs::write` | `FillLock`, `LockWriteFails` |

Loading a file and mapping it is one step in the first two passes, and loading is
one step with the creation of the temporary file in the second: the copy loaded is
`scratch`, so an edit made between the load and the rename is overwritten, as in
the program. Counts that only matter as zero or not (`num_missing_refs`, the count
of a check) are the Boolean `missing`. `max_ref` and `num_inserted` are the
running results of `reduce`, taken file by file. The order of the files is the
directory walk's, which is unspecified, so any file may be next.

Where a build decides the outcome, both are modelled: an addition past the largest
`u32` panics in a debug build (`ScanOverflows`, `CacheOverflows`) and wraps in a
release build; `fetch_add` wraps in both.

External, modelled from how `src/` uses it: `async_std::fs::File` keeps written
data in a cache, writes it out when the cache is full, at a flush and when it is
dropped, where errors are ignored (`OnDisk`, `FlushScratch`, `FlushFails`).
`map` never flushes, so any part of the new contents may be missing at the
rename. `SIGTERM | SIGINT` in `main.rs` is `15 | 2`, which is `SIGTERM` alone:
`SIGINT` kills the process like `SIGKILL` and is part of `Crash`.

Developers (`AddStatement`, `DeleteStatement`, `MoveStatement`, `DeleteLock`)
never write a reference themselves, as a copied statement would: no pass of the
program looks for duplicates, so it cannot be expected to mend them. While
Breadlog runs they only add and delete, and not in a file that was renamed a
moment ago and is yet to be flushed.

### The abstract registry

`Registry` has a place for each statement, with a reference or none, and one Boolean,
`trusted`: does the registry still know what it has given out? `Give` assigns references to
any number of places at once, since a file appears whole at its rename; `Move` takes a
statement elsewhere; `Withdraw` lets places lose their references or the registry its trust.
The mapping: places are `Files \X Slots`, what is assigned is the code under `View`, and
trust is `lapses = {}`. `Rebuild`, by which the registry gets its trust back, is a first
pass over code without duplicates. `Implements` is `R!Spec` under this mapping. It says in
one formula what the program does to the code with every fault and with edits under its
feet. That a reference changes hands otherwise than by a developer's move, that a run
started in trust gives one out that is in use, or that trust comes back over duplicates, is
in no behaviour of `Registry`.

### The parser: arguments and directives

`Breadlog` starts from entries; `RustFinder` says where they come from. Its file is
`NumLines` lines, each with a comment and a statement: a macro name and a sequence
of arguments, tokens as the grammar tells them apart (`Target`, `Kvp`, `Message`).

| In `RustFinder` | In the code |
|---|---|
| `Directive` | `check_for_boolean_directive`: the nearest line above that is not blank |
| `MacroOfInterest`, `AfterTarget`, `KvpArgs`, `Parses` | the rules `macro_of_interest` and `macro_args` |
| `StructuredEntry`, `StringEntry`, `FindIn`, `Find` | the two branches of `find` and its skips |
| `Suffix`, `WithInsertion` | `usable_reference_position`, `insertable_reference_string` and the write in `map` |
| `FirstFree`, `Cached`, `Scan`, `Generate` | `generate_code` |
| `DeleteLock` | what the comment at the head of a lock file asks for |

`Generate` is a whole, undisturbed run, since what can come between its steps is
the subject of `Breadlog`. Developers write lines, comments and the configuration's
`structured` between runs, and delete the lock file (`DeleteLock`), as the comment in it
tells them to when they want the number looked for again (`src/config/context.rs:81`).
`overlooked` is a history variable, read by no guard: has a first pass missed a
reference that `find` did not return? The number of a lock file is beyond such a
reference; a first pass does not see it. It is cleared by a first pass that finds every
reference of a text without duplicates (`Scan`): from there the lock file is ahead of
everything again.

`LogRefs` defines `WithReference`, what an entry becomes by an insertion, and
`Breadlog` takes it for granted. `FoundAgain` checks it against the parser; it
holds but for a new pair before a target (finding 4), which in terms of `Breadlog`
is a statement that becomes `Absent`.

### The parser: literals and comments

A text of `RustGrammar` is a sequence of lexemes: `call` is a configured macro with
its bracket, `other` another macro, `word` any identifier, `quote`, `esc` (a
backslash), `line`, `open` and `close` (the comment marks), `newline`, `mark` for a
single character of no importance, and the two things Breadlog inserts, `tag` and
`pair`. Blanks may be between any two.

| In `RustGrammar` | In the code |
|---|---|
| `Blank`, `Skip`, `CommentEnd` | the implicit rules `WHITESPACE` and `COMMENT` |
| `Quote`, `ValueStart`, `ValueEnd`, `MacroArgs` | `macro_args`, `string_literal`, `string_value` |
| `Bracket`, `LogMacro` | `macro_name`, `log_macro`: words before the name are part of it |
| `Onwards`, `FindFrom`, `Find` | the rule `file` and the loop of `find` |
| `Entry` | the position and the reference that `find` returns |
| `Missing`, `InOrder`, `Copied`, `Insert` | `map`: the filter, the return for entries out of order, the copying loop |

Beside it stands how Rust reads the same text (`Modes`, `WellFormed`,
`RustStatements`, `Place`): literals with escapes, comments that nest.
`ReadsAsRust` compares the two, and `RunsCompleteText` says what a run makes of a text
on which they agree. Developers write the text one lexeme at a time
(`Write`), then Breadlog runs twice (`Generate`).

The two comments of the grammar about escaped quotes do not describe what it does:
`!"\\"{1} ~ "\""` looks for a backslash and for a quote at the *same* position, so
a literal ends at the first quote, escaped or not. The position of a reference is
the start of the message, so this does no harm as long as the rest of the literal
does not look like a macro (`MacroInString`).

### Several processes, branches and configurations

`Workflow` keeps of a run what another process can tell: `Start` (the lock file is
read, the files are found), `ScanFile` and `FinishScan` (the first pass), `SkipFile`,
`MapFile` (a file is read and a reference drawn) and `Rename` (the second pass),
`Finish` (the lock file is written). Failures are `Breadlog`'s subject and left out
here; a file has one statement. There are two trees, `main` and `branch`; each has
its code and a lock file per directory with a configuration. `Branch` copies the
tree, lock files included; `Merge` merges file by file, conflicts resolved either
way. `DeleteLock` deletes a lock file while nobody works in its tree.
A configuration (`Yamls`) has `source_dir`, relative or `absolute`, `extensions`
and `use_cache`, `None` where it relies on the default; it may change between runs.

Here `lapses` records what the *team* does that can put two statements under one
reference: runs that `overlapped`, references handed out on both sides of a merge
(`merged`), a first pass over less than all the files with references that count
(`unseen`), references handed out that another lock file for the same code does not
know of (`bypassed`). `UniqueUnlessMisused` says that there is no fifth way. `StartsOver` says
what it takes to put things in order again: a first pass in `main` with no branch, no
other run and no lock file in any configuration directory, no reference in a file the run
leaves out and no two equal. A branch would bring back its own references
and lock file, another run knows another number, a lock file left for the same code may
be behind, and what the run does not see it hands out again.

### Lapses

`lapses` of `Breadlog` is a history variable, read by no guard. It records the three events
after which references may repeat: a counter `wrapped`, references were drawn that
the lock file will not count (`uncounted`), the first pass went on without a file
that holds references (`unscanned`). A first pass over code without duplicates settles what
came before it, since nothing of it goes into the number found (`Unsettled`); it is what
a run does whose lock file was deleted, did not parse or is not in use. If it leaves out
a file with references, it is itself the next lapse. So the main property, `UniqueUnlessLapse`,
says that every duplicate is preceded by a lapse, with no first pass between them that could
have mended it; the theorem `SafelyUnique` turns
it round: where the faults that lead to the last two cannot happen, references are
unique until a counter wraps.

## Properties

| Property | Says |
|---|---|
| `TypeOK` | types; a file is being rewritten exactly while `map` is past its early returns, and owns a temporary file then |
| `UniqueReferences` | no two statements have the same reference, at any moment |
| `UniqueUnlessLapse` | the same until a lapse, and from a first pass over code without duplicates until the next lapse, under every fault and edit |
| `LockAheadOfCode` | between runs, the number of the lock file is beyond every reference in the code |
| `LedgerExact` | counter = starting number + insertions reported + insertions of the `map` under way |
| `IInv` | the inductive invariant, of `Breadlog` and of `Workflow`, below |
| `InsertsOnly` | a step of the program changes a statement only by giving it a reference it lacked |
| `CheckTouchesNothing` | in check mode, nothing on disk changes |
| `CheckVerdict` | a check ends in an error exactly when a statement lacks a reference |
| `CleanRunCompletes` | an edit run that ends well and had no failed file leaves nothing without a reference |
| `SuccessMeansComplete` | a run of either mode that ends well leaves nothing without a reference: what the documents say of exit status 0, and the code breaks (finding 2) |
| `NoTempLeft` | no temporary file outlives its run |
| `RetiredNeverReissued` | a reference brought into the code was never in use before while the lock file kept its number |
| `Terminates` | every run ends |
| `Progress` | every step of a run, failing ones included, brings its end nearer, and no signal or edit puts it off |
| `RunShort` | no run takes more than `(NumSlots + 4) * Cardinality(Files) + 5` steps |
| `FoundAgain` | after a run, `find` returns for each line what `Breadlog` assumes, so a second run has nothing to do |
| `TypeOK` of `RustFinder` | types; an argument list ends with its only message |
| `LockAhead` | the number of the lock file is beyond every reference in the text, found by the next run or hidden from it, unless a first pass has overlooked one and none has found them all since |
| `TextDistinct` | under the same condition no two references in the text are equal, those hidden from `find` included |
| `NumbersStay` | a run takes no number out of the text and changes none, found or hidden; a line gains only its new reference |
| `AcceptedWithoutTarget` | a statement without a target stays one that the log crate accepts, whatever is inserted |
| `FinderUnitTests`, `GrammarUnitTests` | on the texts of the unit tests, `Find` returns what the tests assert: the models of the parser are held against the tests of the parser |
| `Implements` | every behaviour of `Breadlog` is one of `Registry` |
| `IssuedKnown` | whatever number a run will draw from is beyond every reference remembered |
| `ReadsAsRust` | in a text Rust accepts, `find` returns one position for each log statement, in its message, and no other; with four exceptions, named in `Tame` |
| `RunsCompleteText` | a run over such a text leaves one that Rust accepts as well, with as many log statements, each with a reference |
| `StillFound` | in any text, the run after finds the entries that this run found, all with a reference |
| `UniqueUnlessMisused` | references of a tree are unique unless the team does one of the four, and again once it has started over |
| `LocksAhead` | then every lock file is beyond the references of the code that it may be trusted for |
| `ReferencesStay` | no run takes back or changes a reference in the code, unless runs overlap |
| `StatementsAccepted`, `ReferencesInMessages` | what comments and documents say and the code does not do, see the findings |

## Runs

All runs of `Breadlog` have two files; symmetric ones where no liveness is checked. Two
files are enough to tell "this file" from "another file of the same pass", which is what
every reduce and every lapse needs, and two runs are enough for a stale lock file to be
used. `MaxRuns` and `MaxEdits` bound the counters `runs` and `edits` in the guards of
`Start`, `StartFails`, `CanEdit` and `DeleteLock`. `finder` has three lines: a statement, a
directive for it and another statement, or three statements of which the middle one is
hidden. Its `MaxEdits` 2 lets a directive be put up and taken down again, a directive and a
change of `structured` be combined, or a directive be put up and the lock file deleted, with
runs at any point; `RefMod` 12 is beyond what three lines can use up, and `Generate` is not
taken where it is not. `grammar` takes every text of up to six lexemes, long enough for a
statement with an escaped quote or a commented statement and something after it, and the
longer texts of the unit tests; the second run starts from a text with `tag` and `pair`.
`workflow` has three files (two that the default configuration selects, one of them in a
subdirectory, and one with another extension), five configurations (the default and each
option changed), two processes, three runs and two edits: enough to branch, insert on both
sides and merge, and for a third run to use the lock file that came out; deleted lock files
are not counted, since a lock file comes only from a run. `Symmetry` permutes the processes.
Two configuration directories, three edits and four runs were each checked with the same
result for two files and three configurations (1.6 to 2.4 million states); with all of
them they are too large to be repeated each time. `CHECK_DEADLOCK
FALSE` everywhere: Breadlog is a program that is run and ends, and after the last run and
the last edit nothing is left to happen.

| Run | Instance | Shows |
|---|---|---|
| `faults` | lock file in use, all faults, edits at any time, `RefMod` 6 so that counters wrap | `TypeOK`, `UniqueUnlessLapse`, `LockAheadOfCode`, `LedgerExact`, `IInv`, `Implements` |
| `retired` | a lock file that is kept, all faults but a kill and a failed flush, two edits between two runs | `RetiredNeverReissued`, `IssuedKnown`, `InsertsOnly`, `CheckTouchesNothing`, `NoTempLeft` |
| `verdicts` | `use_cache: false`, all kinds of statement; failures of the insertion and the lock file only | `UniqueReferences`, `CheckVerdict`, `CleanRunCompletes` |
| `termination` | `RunLength`: all faults, one run, under `FairCountedSpec` | `Terminates`, `Progress`, `RunShort` |
| `finder` | three lines, seven forms of statement and the files of the unit tests, both modes, with and without a lock file | `TypeOK`, `LockAhead`, `TextDistinct`, `FoundAgain`, `NumbersStay`, `AcceptedWithoutTarget`, `FinderUnitTests` |
| `grammar` | every text of up to six lexemes and those of the unit tests, both modes, two runs | `ReadsAsRust`, `GrammarUnitTests`, `StillFound`, `RunsCompleteText` |
| `workflow` | two processes, a branch, five configurations, three runs, two edits | `UniqueUnlessMisused`, `LocksAhead`, `IInv`, `ReferencesStay` |

`InsertsOnly` is stated over `View`, the code as it will be once a renamed file is
flushed. It is checked without `crash` and `flush`, which do lose part of a file
(finding 3), and with all the faults that must not.

**Fairness.** `FairCountedSpec` adds weak fairness of `Step`, the steps of the process
itself, successful or failing: a process that can run is scheduled in the end.
Nothing is assumed of signals, developers or of anyone starting Breadlog. Every
step either ends the run, consumes a file of the pass or moves through the
rewriting of one file, so one condition for all of `Step` is enough. `Progress` says the same in
numbers: `StepsLeft` bounds the steps a run has yet to take, from the files left to
the pass, the references the file at hand lacks and the steps of the end. `RunShort` counts
the steps actually taken, in the history variable `steps` of `RunLength`, which no guard reads.

## Findings

Each has a run that must find the violation.

1. `stop_reuse`: SIGTERM during the second pass makes the next run repeat
   references, because the lock file is written only at the end
   (`src/codegen/generate.rs:728`; `README.md:9`).
2. `check_stopped`: a statement lacks a reference, `--check` is interrupted by SIGTERM while it
   counts, and exits with 0 (`src/codegen/generate.rs:645`; `src/main.rs:29`,
   `docs/source/running-breadlog.rst:45-46`). `verdicts` has no signals, so that there
   `CheckVerdict` holds in both directions.
3. `disk_full`: the rename comes before the flush, and the error of a flush that
   fails is ignored: the file is cut short and the run successful
   (`src/codegen/generate.rs:389-391, 509`).
4. `target_lost`: a new pair is put before a `target:` argument, which neither the
   log crate nor Breadlog itself parses then (`src/parser/rust_parser.rs:267`,
   `src/parser/rust_grammar.pest:48`).
5. `comment_in_message`: a message that begins with `//` or `/*` is skipped as a
   comment, because `string_literal` is not atomic, and the reference is put into
   whatever comes after it (`src/parser/rust_grammar.pest:14`;
   `docs/source/running-breadlog.rst:12-13`).

Noticed while modelling, without a run of their own:

 * a failing write of one temporary file makes the next run repeat references as
   well, because its `map` reports 0 after drawing them
   (`src/codegen/generate.rs:450, 475, 503`), the lapse `uncounted`;
 * `generate_code` returns `Ok` when files could not be rewritten, because it does not look
   at the `failure` its map results report (`src/codegen/generate.rs:745`; 668 says
   "otherwise an error message on failure"): `SuccessMeansComplete` is violated as well in the
   instance of `check_stopped` with `Faults = {"rename"}`, by an edit run that ends in "ok"
   with a statement left without a reference;
 * two branches that follow the suggested workflow of
   `docs/source/running-breadlog.rst` and are merged may hold the same reference
   twice, and no run looks for duplicates: the lapse `merged` of `Workflow`;
 * a lock file that stays while `use_cache` is off is trusted again when it is on
   (`src/config/context.rs:157, 197`), the lapse `bypassed`;
 * the text of a literal outside a macro is scanned as code, block comments do not
   nest, and a `//` comment on a last line without a newline is none
   (`src/parser/rust_grammar.pest:3, 55`): `MacroInString`, `NestedComment`;
 * blanks at the start of a message are skipped, so the reference goes after them
   and is found there again;
 * `kvp_value` takes one more character after each literal in it
   (`src/parser/rust_grammar.pest:33`);
 * a file that the first pass cannot read is left out of the maximum
   (`src/codegen/generate.rs:596`), the lapse `unscanned`;
 * after 4294967295 comes reference 0 (`src/codegen/generate.rs:457`), which
   `docs/source/using-log-references.rst:22-23` excludes, the lapse `wrapped`;
 * `SIGTERM | SIGINT` registers SIGTERM only (`src/main.rs:111`);
 * a word before a macro name is part of the name to the grammar, so the
   statement in `return info!("m")` is not found (`MacroOfInterest`);
 * a macro name that starts with a character of more than one byte makes the slice
   `code[..subject_pos + 1]` of `src/parser/code_parser.rs:107` panic.

## Proofs

`BreadlogProofs` proves, for any set of files, any number of slots, runs and edits,
any `RefMod` above 1 and any choice of faults, from the named assumptions on the
constants in `LogRefs` and `Breadlog`:

| Theorem | Statement |
|---|---|
| `TypeCorrect` | `Spec => []TypeOK` |
| `Inductive` | `Spec => []IInv` |
| `UniqueReferencesUnlessLapse` | `Spec => []UniqueUnlessLapse` |
| `LockAhead` | `Spec => []LockAheadOfCode` |
| `LedgerBalanced` | `Spec => []LedgerExact` |
| `SafelyUnique` | `SafeFaults` implies `Spec => []("wrapped" \notin lapses => UniqueReferences)` |

*The argument.* That the next reference drawn is unused cannot be seen from
uniqueness alone. It has to be carried: from the code to `max_ref` file by file in
the first pass (`NextIsFresh`, the part for `pc = "scan"`), or from the code to
the lock file between runs and from there to the cached number (`NumberCurrent`);
from either to the counter, which stays beyond the code and beyond the rewritten
file at every step (`Below`); and from the counter to the lock file at the end,
which is `LedgerExact`. `IInv` is the conjunction of these with `TypeOK`; the part
about freshness holds until a lapse. The step from `IInv` to `IInv'` is split
into `NumberStep` (what the process knows of the lock file) and `FreshStep` (the
freshness), each with a case per action. Lapses are settled in one step alone
(`LapsesGrow`), `Discover` before a first pass, and there freshness is not carried on but
established from nothing (`DiscoverFresh`): nothing has been scanned yet, and the code is
distinct. This is why the number of an earlier run does no harm any more, whatever it was.
Four lemmas carry it: `FreshReference`
(a reference not below the counter keeps the code distinct when it is inserted),
`ShrinksKeeps` (what only loses statements stays distinct and below), `BelowNext`
and `LockStillAhead`. `SafelyUnique` adds that under `SafeFaults` only `wrapped`
can enter `lapses` (`OnlyWrappedStep`).

`BreadlogProofs` proves also `BreadlogImplementsRegistry`: `Spec => Implements`, for every
choice of faults and with concurrent edits. The initial states map to initial states.
`RenameScratch` is `Give`: that it is unambiguous is `Distinct(Rewritten)` of `IInv`, and
that places keep what they have is `ScratchKeeps`, an invariant of its own: while a file is
rewritten, each reference in it is also in the copy. (Developers may delete statements
meanwhile but move none, so the rename can only bring references back.) `MoveStatement` is
`Move`. A first pass that settles lapses is `Rebuild` (`FirstPassRebuilds`). Every other
step changes nothing or takes references away, which is `Withdraw` (`OthersShrink`).

`RunProofs` is about single runs, each theorem under the assumptions on faults that
it needs and no others:

| Theorem | Assumes | Statement |
|---|---|---|
| `CheckModeTouchesNothing` | | `Spec => CheckTouchesNothing` |
| `TempsRemoved` | no `crash` | `Spec => []NoTempLeft` |
| `RunsInsertOnly` | no `flush`, no concurrent edits | `Spec => InsertsOnly` |
| `AccountsKept` | every file is read, no concurrent edits | `Spec => []Accounts` |
| `VerdictRight` | the same, no `stop` | `Spec => CheckVerdict` |
| `CleanRunsComplete` | the same as `AccountsKept` | `Spec => CleanRunCompletes` |
| `SuccessWhereNothingFails` | the same, no `stop`, `create`, `write` or `rename` | `Spec => SuccessMeansComplete` |

`CheckReads` (a check never gets to a place where something is written), `OneTemp`
(at most the temporary file of the rewriting under way), `ScratchInserts` (the copy
differs from the file by references inserted) and `Accounts` (what the pass has
counted so far is true of the files it is done with) are the invariants they rest
on. Where an assumption is missing the property is false: findings 2 and 3,
and the failure that `generate_code` ignores.

`RetiredProofs`, without concurrent edits: `RetiredSpec => []IssuedKnown`
(`IssuedStaysKnown`) and `RetiredSpec => RetiredNeverReissued` (`NeverReissued`).
`IssuedKnown` carries the memory the way `IInv` carries the code: the lock file is
beyond all references remembered, then the counter is, and the references that wait
in a temporary file are not remembered yet. A first pass reads the code and not the
memory, so it has to be that the two are the same while the lock file has no number
(`Remembered`): this part holds also after lapses, which makes the theorem good for every
run after a recovery.

`WorkflowProofs`, for any files, configurations, directories and processes and any
number of runs, edits, branches, merges and deleted lock files, under no other assumption
than the types of the constants:

| Theorem | Statement |
|---|---|
| `WorkflowInductive` | `Spec => []IInv` |
| `NoDuplicatesUnlessMisused` | `Spec => []UniqueUnlessMisused` |
| `LocksStayAhead` | `Spec => []LocksAhead` |
| `RunsKeepReferences` | `Spec => ReferencesStay` |

Its `IInv` says of each open run what that of `Breadlog` says of the only one (`RunFresh`),
and in addition: open runs are on different code and different lock files (`Separate`), so
that nothing a run has read is changed under it (`LockKnown`); a lock file is ahead of *all*
code it may be trusted for, not only that of the last run, unless a run on that code has yet
to record what it drew (`LocksCover`); and a tree without insertions since the branch began
has no reference and no lock file that was not there then (`BranchKept`). The last is what
makes a merge safe: `MergeKeepsOneSide` shows that all references of the result are those of
one side and that each lock file of the result covers that side, whichever way a conflict is
resolved. There is one lemma per action (`StartOrderly` to `DeleteLockOrderly`). A deleted
lock file covers nothing any more and so breaks nothing; on a branch it would count as a
change that a merge takes over, which `BranchKept` allows. Where the team starts over, all
of this holds at once (`AllAnew`): there is no run, no lock file to cover anything, and, as
`NoBranch` says, nothing in the tree of the branch. `RunsKeepReferences` needs `Separate`
alone and holds as long as no runs overlapped.

`RunProofs` proves also, for every choice of faults and with concurrent edits:

| Theorem | Statement |
|---|---|
| `RunsProgress` | `Spec => Progress` |
| `RunsBounded` | `CountedSpec => []RunShort` |

It needs one invariant besides `TypeOK`: the file being rewritten is among those the
pass is not done with (`FileAwaited`), so that returning from `map` takes one away.
Then each kind of step lowers one of the summands of `StepsLeft`: a file leaves the
pass (`FileLeaves`, `RewritingEnds`), a slot of the copy stops lacking a reference
(`InsertReferenceCounts`), or the place in the code moves on.
`RunShort` by itself is not inductive; `Budget` is: the steps
taken and those left, `steps + StepsLeft`, never exceed `MaxSteps`. `Start` sets the first to
zero and the second to `MaxSteps`, each step adds one to the first and takes at least one from
the second (`StepCounts`), and the environment adds to neither (`EnvironmentAdds`).
`CountedSpec` is `Spec` with the counter (`CountedImplies`), so it says of Breadlog itself how
long a run can be. That a step stays
possible until the run ends is about `ENABLED`, out of the prover's reach;
`Terminates` checks it.

`RustFinderProofs` is about the text, for files of any length, statements with any number of
arguments and any keys, and any sequence of runs, edits, directives, changes of `structured`
and deleted lock files. Of the constants it assumes that developers write statements the log
crate accepts and no numbers of their own (`StatementsAssumption`), and that the numbers in
the file at the start are distinct (`InitFilesAssumption`).

| Theorem | Statement |
|---|---|
| `FinderTypeCorrect` | `Spec => []TypeOK` |
| `FinderInductive` | `Spec => [](TypeOK /\ LockAhead /\ TextDistinct)` |
| `LockStaysAhead` | `Spec => []LockAhead` |
| `TextStaysDistinct` | `Spec => []TextDistinct` |
| `StatementsStayAccepted` | `Spec => []AcceptedWithoutTarget` |
| `InsertedIsFound` | `Spec => FoundAgain` |
| `NumbersStayInText` | `Spec => NumbersStay` |

*The argument.* An insertion is a new first argument or a new message (`Insertion`), so
every argument of the old list is in the new one, at most one place further on. With
`Suffix` the new list parses exactly like the old one behind the new pair
(`PairParses`), the new pair is the first that is named `ref` and has a value
(`PairFound`), and no directive has moved (`DirectivesStay`): hence `InsertedIsFound`
for the line itself, and for the others nothing has changed. `TextDistinct` is not
inductive. Which references a run does not see depends on directives and the mode,
which anyone may change, so distinctness has to come from the lock file being ahead of
*all* the text (`LockAhead`) or, in a run without one, from nothing being overlooked in
that run (`Safe`); then what the run draws is beyond every number in the text
(`TextBelow`), and different for different lines (`NewReferenceFacts`). What earlier runs
have overlooked does not matter to such a run, so `LockAhead` and `TextDistinct` come back
with it (`TrustNeedsSafe`). `NumbersStay` counts the arguments of a line from its end,
where an insertion moves nothing (`InsertionFromEnd`).

`RustGrammarProofs` is about the characters: texts of any length, Rust or not, under
no assumption but that developers write lexemes.

| Theorem | Statement |
|---|---|
| `AlwaysInOrder` | `find` returns entries in the order of their positions: the return of `map` for entries out of order (`src/codegen/generate.rs:417-433`) is never taken |
| `ReadingUnchanged` | `Spec => StillFound` |
| `SecondRunChangesNothing` | `Spec => [][Generate /\ runs # 0 => text' = text]_vars` |

*The argument.* The grammar is written as recursive functions over positions that only
ever go ahead, so they satisfy their equations (`RestEquation`, `FindEquation`,
`CopiedEquation`, by the inductions of module `Induction`, whose predicates are sets)
and whatever `find` does from a position on can be shown from the end of the text
backwards. `Expands` relates a text and its copy: each lexeme has a place in the copy,
and what is between two places is one reference (`CopiedExpands`). Under it each rule
of the grammar, applied at the place of a lexeme, ends at the place where it ended
(`FirstStays`, `BlankStays`, `SkipStays`, `BracketStays`, `QuoteStays`, `ValueStays`),
as long as no reference lies in between or, where one does, behind it
(`QuoteBehindPair`, `SkipStaysAfter`). That references lie nowhere else is the
invariant of the loop of `find`, `AsWanted`: the positions ahead are those that it has
yet to return, and there is at most one up to the next position it looks at
(`AsWantedOnwards`). So a log statement stays one and has a reference
(`StatementStays`), and what is none becomes none (`FailureStays`: an attempt that
fails has looked only at positions that the loop will come to, or has seen that no
quote follows). `FindStays` puts these together.

`RustReadingProofs` compares this reading with Rust's, again for texts of any length.

| Theorem | Statement |
|---|---|
| `ReadingRight` | `Spec => []ReadsAsRust` |
| `RunsComplete` | `Spec => RunsCompleteText` |

*The argument.* `Accepted` texts are those the properties speak of: well formed, with
none of the four peculiarities. In them a lexeme changes where the text stands by simple
rules (`StepFacts`), and what only certain lexemes end does end (`EndFacts`). So
skipping in code passes blanks and comments and stops at what is significant for Rust
(`SkipInCode`, `SkipToSignificant`), and skipping in a literal passes newlines
(`SkipInLiteral`). The loop of `find` does come into literals: it leaves a message at an
escaped quote (`ValueFacts`) and goes through any other literal lexeme by lexeme. The
invariant `Visited` says that it is in code or in a literal, never in a comment; in a
literal nothing is read as a log statement (`NoMacroInLiteral`), in code exactly what is
one (`StatementsAgree`), and none is passed on the way from one position to the next
(`OnwardsVisits`). Hence `find` returns the entries of all statements and no others
(`FindExpected`), each in its place (`InPlace`) and in no other (`InOnePlace`). Each of
the four conditions of `Tame` is used: `NestedComment` in `StepFacts`,
`CommentInString` in `SkipInLiteral`, `MacroInString` in `NoMacroInLiteral`,
`WordBefore` in `BracketInCode`.

A reference is wanted in code if it is a pair, in a literal if it is a tag
(`WantedFits`), and there it changes no mode (`ReferenceNeutral`): every lexeme of the
copy stands where it stood (`ModesStay`), and what made the text well formed and tame
makes the copy so (`AcceptedStays`). With `InsertStays` all entries of the copy then
have a reference (`ExistsReferenced`), and they are as many as its log statements and as
those of the text (`StatementsCounted`).

*Only model-checked:* `Terminates` (liveness is out of the prover's reach), and the two
sets of unit tests, which are finite: they hold the models of the parser against its
tests, text by text, and say nothing of other values of the constants.

## Not modelled

 * Below the tokens of `RustFinder`: which characters `kvp_value` matches, modifiers
   of a value, several statements on one line. Literals with comments or quotes in
   targets and values: `RustGrammar` has the message only.
 * Of Rust's literals, `Modes` has strings with escapes. Raw strings and character
   literals such as `'"'`, which the grammar does not know either, are not among the
   lexemes, so `ReadsAsRust` and `RunsCompleteText` say nothing of texts with them.
 * The `map` return that `process_references` cannot bring about: missing params
   (`src/codegen/generate.rs:368-385`).
 * File names and encodings, the text of the YAML, log output.
 * Failures and crashes of *two* processes at once: `Breadlog` has the faults of one,
   `Workflow` the interleavings of two without faults.
 * `src/lib.rs` and `fuzz/`: they call the finder and drop what it returns.

## Plan

Every safety property and action property of the runs that is not a set of tests is
proved. What is left is to extend the models:

1. Pairs and targets in `RustGrammar`, with literals of their own, so that `RunsCompleteText`
   covers them; until then `RustFinder` has them without literals.
2. Raw strings and character literals as lexemes: what they add to `Tame`.
