# A TLA+ verification of swhap-automation

The repository automates the Software Heritage Acquisition Process. A curator
collects old releases of a program in a *workbench* (a git repository with
`source_code/<dir>/`, `metadata/version_history.csv` and a journal); `swhap build`
turns them into a synthetic git history under *candidate* refs; `swhap-validate`
checks it; `swhap publish` promotes it to the public branch `SourceCode` and the
release tags, pushes them to a remote, and has Software Heritage (SWH) archive
them. Everything that is done leaves an entry in a hash-chained ledger.

Paths below are relative to `src/`; `core/` is `engine/swhap-core/src/swhap_core/`
and `validator/` is `engine/tools/validator/swhap_validate/`.

## 1. Inventory

| component | state it keeps | operations | hard behaviour | what makes it correct |
|---|---|---|---|---|
| journal ledger (`core/journal/ledger.py`) | `metadata/journal.jsonl` | `ensure_genesis`, `append`, `read_entries`, `verify` | no lock between the read of the tip and the write; torn writes; crashes | `verify` accepts exactly the undamaged files; nothing is rewritten |
| builder (`core/history/`) | `plan.json`, candidate refs, ledger entries | `do_plan`, `do_apply`, `do_build` | the input changes between plan and apply; refs and ledger share no transaction; two builders | what was inspected is what is built; one date for every rebuild; entries describe complete candidates; every candidate is covered |
| publisher (`core/publish.py`) | `SourceCode` and tags in the clone, ledger, remote, archive | `do_publish`, `do_publish_supersede` | four stores without a transaction; crashes; lost pushes; queued visits; several clones | nothing published is ever lost; every replacement is archived and recorded first; a publish-event tells the truth |
| DV-1 (`validator/checks/divergence.py`) | none | compares clone, remote and ledger | trusts the ledger, not the archive | sanctions only what is archived |
| ref policy, git runner (`core/gitio.py`) | none | `update_ref`, object writers | refuses a ref after others have moved | no ref outside the namespaces |
| snapshot id (`core/swhid.py`) | none | `snapshot_swhid` | scoped ref set against what the remote has | equal to that of the remote |
| command line (`core/cli.py`) | none | `inspect`, `build`, `publish` | several archives, one exit code; verbs that need options nobody passes | the worst archive decides |
| CSV contract (`core/vhcsv/`) | none | parse, legacy conversion, writing | a tokenizer with five flags; zone offsets, slash dates, short years; collisions after folding | accepts exactly the contract; converts nothing silently; what is written is read back |
| archive inspection (`core/inspect.py`, `core/archive.py`) | none | one report per archive | implied directories, names with `./`, links | rejects by every rule; announces what the release will be |
| validator driver and checks (`validator/`) | report | one run per gate and profile | selection, profiles, severities, exit code | a FAIL that is enforced is never exit 0 |
| chassis (`chassis/`) | the branch `main` and the published refs on a forge; the checkout of each job | inspect, extract, build, validate, publish | no concurrency control; exit codes lost in pipes; jobs that die half way | the journal on main only grows; what is public is on main, recorded, validated, and of one epoch; a sound release is published |
| fixtures, pilots (`engine/fixtures/`, `engine/pilot/`, `pilots/`) | test data | generators | | |

The components meet in four places. The *ledger* is appended to by builder and
publisher and read by the builder (curation timestamp) and by DV-1. The *candidate
refs* are written by the builder and read by the publisher. The *published refs*
are written by the publisher in the clone and in the remote, read by DV-1, and
visited by SWH whenever it gets to it. The branch *main* carries the input and the
ledger from one job of the workflow to the next. Nothing is locked anywhere.

`PROJECT.json` lists the hazards with the line where each one bites and the
properties that are about it.

## 2. Plan

Written so far, in this order: `Ledger` (everything else rests on it), `PublishedRefs` /
`PublishedHistory` / `Publish` (the component that can do irreparable harm) with
`PublishRetry` for liveness, `Build`; proofs for the ledger, the abstract history and the
publisher; `Validator`, the driver of the checks, and `ReleaseTree`, the way of a
release from its archive to git; `CsvDates` and `Vhcsv`, the input of everything;
`ReleaseJobs`, the composition of builder, gate and publisher in the order of the
workflow; `Inspect`, which `ReleaseTree` extends; then the proofs about `Build`,
`ReleaseJobs`, `Validator`, `Vhcsv` and, last, `ReleaseTree`.

```
Ledger                      <- LedgerProofs
PublishedRefs <- PublishedHistory
       ^------- Publish  (implements PublishedHistory)  <- PublishProofs, PublishRetry
       ^------- ReleaseJobs <- ReleaseJobsProofs
Build <- BuildProofs         Validator <- ValidatorProofs
CsvDates <- Vhcsv <- VhcsvProofs <- VhcsvWriteProofs
Inspect <- ReleaseTree <- ReleaseTreeProofs
```

## 3. Modules

### Ledger.tla (`core/journal/ledger.py`)

`lines` is the file as `_lines()` splits it and `terminated` says whether it ends
with a line feed. Each process is at a `pc` between two accesses to the file:
`FindEmpty` is the `is_empty()` of `ensure_genesis`; `CheckGenesis`,
`RefuseGenesis` and `CheckNotEmpty` are the first read in `append`; `ReadTip` is the
second read, in `tip_hash()`; `Write` is the write in mode `ab`, which with
`Tearing` may stop inside the entry or right before the line feed. `Verified` is
`verify()`. A line is a sequence of fragments, so that an entry glued to a torn
one is a line that does not parse. `stale` and `undisturbed` are history variables:
they say whether a write was whole, on its own line, and on a tip that was still
the tip.

`verify()` does not check the schema of an entry, and neither does the model. ULIDs
are unique numbers. `undisturbed` needs `stale`, because a stale write is what forks
the chain.

### PublishedRefs.tla, PublishedHistory.tla, Publish.tla (`core/publish.py`, `core/gitio.py`, `core/swhid.py`, DV-1)

A commit is an element of a set with an ancestor relation, the annotated tag of a
release is determined by its commit, and a snapshot is the table of refs itself
(the hash is taken to be injective; `HEAD` always names `SourceCode`).

`PublishedHistory` is the abstract promise: published refs only grow (`Extend`),
or are replaced when all that they name is archived (`Supersede`), and SWH may
archive what is published at any time (`Archive`). `NothingLost` follows: whatever
the remote has ever shown is still reachable from it or from an archived snapshot.

`Publish` is the detailed specification. Each clone runs one command at a time:

| `pc` | the code is about to | actions |
|---|---|---|
| `idle` | start | `StartPublish` (publish.py:276-296), `StartSupersede` (404-414) |
| `save prior` | ask the archive | `SavePrior`, `SavePriorUnanswered` (416-430) |
| `sign off` | resolve the candidate, append the sign-off | `SignOff`, `RefuseUntagged` (432-475) |
| `refs` | move the clone's refs | `MoveRefs`, `RefuseTag`, `CrashInRefs` (477-480, 255-265) |
| `executed` | append the executed entry | `Executed` (482-508) |
| `push` | push | `Push`, `PushBroken` (306-308) |
| `save` | request a visit | `Save`, `SaveFails` (310) |
| `journal` | append the publish-event | `PublishEvent` (312-325) |

`Crash` is possible at each. The push is not atomic (no `--atomic` at
publish.py:94 and :114): the remote takes every ref it accepts, and git fails if it
refused one. A request to SWH may be answered at once, queued, or fail; the visit of a
queued request (`Visit`) sees the remote as it is by then. `Verdict` is DV-1.
`landed` is a history variable with all states of the remote. The copy of
`codemeta.json` is left out. Several clones share the remote and the archive; each
has its own refs and ledger.

`PublishRetry` adds one curator who repeats a command until it is recorded.

### Build.tla (`core/history/`)

`work` is the CSV with its release trees, `planFile` the plan that was written with
`--plan-file`, `branch` and `tag` the candidate refs per model and run, `ledger` the
entries of this component. A commit is the plan's model and epoch, the releases up
to its own, and for model G the CSV, because its tree holds
`metadata/version_history.csv` (source.py:166-169). `Edit` is the curator and may
happen between any two steps. `PlanOnly` / `PlanAndApply` / `ApplyFile` /
`ApplyDirect` are the four ways `cmd_build` starts; `Render` / `RefuseDrift` the
second rendering in `do_apply`; `WriteRefs` and `CrashInRefs` the refs of
`execute_plan`; `FindTimestamp` / `RefuseTimestamp` / `MissTimestamp` /
`AppendTimestamp` are `_ensure_curation_ts`, which reads and appends without a lock.
`origin` is a history variable: the plan file a candidate was built from. Author and
curator fields, tree contents and file modes are part of what `tree` and the
input stand for. Run ids are fresh; `--run-id` with a used one is not modelled.

### Validator.tla (`validator/`)

One invocation of `swhap-validate`. `args` is the command line and `repo` the
repository with its installation; neither changes. What is wrong with the content is
a set of *defects*, each of which belongs to a check and shows in a place (the
workbench branch, `SourceCode`, or a release). Each family of checks is an operator
(`TreeFidelity`, `BranchPurity`, ...) that says which of its checks count as run or
as skipped and which defects become findings, given the inputs that are there and
the profile: the conditions and early returns of `run()` in `checks/*.py`, without
the comparison of bytes that finds a defect. `Mapped` is the set of releases that the
driver could locate and `Compared` those of them that TF-3 compares with one before them. `Step` runs or passes over one family
in the order of `run_validation`; `Enabled` and `NotRun` are its closure `enabled()`,
which is asked for the first check of a family only. `Emit` writes the report of one
profile and goes on to the next or ends the process; `Abort` is an exception in
`run_validation`, `LoadCrashes` and `EmitCrashes` are the two places where nothing
catches one and python exits with 1, though the contract (validator-report.md:443)
has 2 for a report that cannot be written and 3 for an uncaught exception.

`ZeroCertifies` says what an exit code 0 is worth, and its premise `Complete` is the
list of what has to be given for it: the strict-P profile, no selection, the publish
gate with a remote that answers, a manifest for every release, a CSV that lists every
release (otherwise a release that is not located is skipped by TF and BP-5 does not
look at it), and `pyld` or `--strict-warn` (without both CM-3 is a WARN). Without any
one of these premises TLC finds a repository with a failing defect and exit code 0.

### Inspect.tla and ReleaseTree.tla (`core/inspect.py`, `archive.py`, `chassis/scripts/`, `core/history/source.py`, `apply.py`, `gitio.py`, `fixtures/wildlife/mk_manifest.py`, TF checks)

An archive is a function from entries to members, so that two entries may have one
name; a name is the sequence of its components, with `/`, `.` and `..` among them.
`Inspect` holds `inspect_archive` as operators: `Breaks` and `Exceeds` are the rules for
a member and for an archive, `DetectWrapper` and `EmptyDirs` what is announced,
`ExitCodeForCodes` the precedence of an unsafe archive over a large one.

`ReleaseTree` takes one release through five steps, `phase` says which is next.
`InspectSources` is `swhap inspect` over the sources. Its exit code is lost in the pipe
to `tee` (pr-validate.yml:45); that a curator stops at a rejected archive is an
assumption. `Extract` unpacks the next source of the recipe: `TreeOf` is `bsdtar`,
external; `Stage` strips the wrapper, `MarkEmpty` writes the markers, `Moved` is the
`shutil.move` of each name at the top, which lands *inside* of a directory that is
already there. `ReadTree` is `_walk_release_tree`, which passes over the directories in
`unread`. `WriteTree` is `_build_tree` with git's reading of the lines that `mktree`
feeds it; before that comes the plan, whose JSON takes no path that is not UTF-8
(`Unplannable`, plan.py:97-99). `Check` is TF-1, TF-2, TF-4 and TF-5 against `Manifest`, the
census that `mk_manifest.py` takes of the archive, as `from_dict` loads it (`Loaded`): a dict
by display path, which keeps one of the entries that are displayed alike. The walk and the objects are computed from the
whole tree at once: nothing else happens while they run, and their results are sorted,
by path and by git.

A name is an element of `Name`; `Unquoted` says what git makes of it (a name in double
quotes becomes the name inside, a lone quote or a line feed is refused), `Folded`
what inspect compares, and `Displayed` the text that the manifest shows for it, with U+FFFD
for each byte that is not UTF-8. A name is UTF-8 when it is displayed as itself (`IsText`);
the bytes of the others stand in `path_bytes_hex`, which the checks do not read. git may
make such bytes of a name that is UTF-8, since it reads a quoted name with octal escapes; the
manifest has the display of the name, and the tree its bytes. A link target, an empty directory
or a wrapper that is not UTF-8 ends `mk_manifest.py`, and there is no manifest (`Encodable`).
The component `.` stands only at the beginning of a name, and a
member `.` is a directory (`IsMember`). A *directory* called `.emptydir` is one like any
other; only a file of that name is taken for a marker. `IsArchive` leaves out two members
that differ by a leading `./` only, a member below one that is not a directory unless
inspect rejects it, and hard links to a directory or to a hard link. A link to a directory is
a kind of its own, since `os.walk` lists it with the directories. A source that is a
directory has no links (`IsSource`): extract_any.py:36 copies what a link names, or dies.

`GreenIsFaithful` is about archives that are `Attested`: no hard links, no AppleDouble
member at the top that is alone with its name, and UTF-8 names only. The manifest is silent
about the first two and shows others by a text that two files may share, and the
run has archives that get through without a finding though a part of them is lost
(`Overlooked`, `Foreign`): a file in a directory that cannot be read, when its display path is
that of another one; a hard link in a directory that cannot be read, one that git unquotes to the
name of another file, and an AppleDouble file beside or instead of the wrapper that is
stripped. `GreenIsOrdinary` is also about the others as long as nothing goes wrong on
the way (`Undisturbed`): then a name that is not UTF-8 ends the build, whatever the
manifest says of it, so that the display paths make no archive fail a check that would
have come so far. Left out is such a name that nothing on disk has any more, as that of a
directory which the extraction strips.

The exact condition of `GreenIsOrdinary` names, one conjunct each, where the scripts
disagree: a directory with nothing but links to directories gets a marker though it is not
empty; a file that is called `.emptydir` is taken for a marker by the checks; a name that is
not UTF-8 is not planned; a quoted name is written as another one; an AppleDouble member beside the wrapper keeps it from being
stripped; the only file of an archive is taken for its wrapper by the manifest; an
empty archive gets a marker at its root; the manifest passes over hard links and takes
a member `.` for an empty directory. Each conjunct is needed. `InspectForesees` does the
same for the announcement: it is wrong about an archive that is one empty directory,
and about names with `./` when not all have it or when a real wrapper follows.

### CsvDates.tla and Vhcsv.tla (`core/vhcsv/`)

`CsvDates` has the dates: `ParseDate` is `parse_date` from the form of a literal to an
instant and an offset in minutes, `Serialized` is `ParsedDate.serialize`,
`ConvertLegacyDate` the reading of slash dates and of times without a zone. The
calendar is external (`datetime`). The dates that occur are a table from words to
literals, closed under what the writer makes of them (`DatesAreClosed`). `ascii` says of a
literal whether all its digits are ASCII: `\d` and `int()` take those of any script, so that
several words may be one date.

`Vhcsv` reads one file, as canonical or as legacy. A text is a sequence of atoms from
`Char`: the characters that a rule is about, and words whose inside nobody looks at (a
date, a name), none of which is a character of the grammar (`DatesAreWords`). Its state is the loop of the code: `pc` says where, `i` the
position in the text, `scan` the flags of the tokenizer with what it has so far, `at` the
record, and `rows`, `diags` and `worklist` what is returned. Each branch of `_tokenize` is
an action (`EscapedQuote`, `ClosingQuote`, `Separator`, ...); `ReadRow` is one turn of
`parse_canonical`, `PassUntagged`, `PassUndated`, `PassToRepair` and `ConvertRow` the
ways of a row through `convert`; `Rewrite` writes the rows and reads the result again.

`TokenizerIsRFC4180` and `AcceptsTheContractAndTwoDepartures` compare the loop with a definition
that knows no state: `WellFormed` and `Split` say by position, with the number of quotes
before it, what a text means, and `Conforms` says the contract of the whole file, with its
rules that no carriage return stands without a line feed (`LoneReturns`, csv-contract.md:95-97
and 367-370) and that dates are in ASCII digits (`ForeignDates`, line 153). The code has
neither of these two. What it accepts beyond the contract is `Tolerated`, a file that
conforms but for one of them or both, and that this is all is what the property says. `SameBytes` and `RoundTrip` are about writing and
reading again, `NothingIsConvertedSilently` about the converter. One column stands for
author and curator with their addresses, whose four rules are alike; seconds are left
out; bytes that do not decode, length caps and control characters other than line
breaks are not modelled. The documents name a command `swhap csv convert`; the command
line has none, and what is modelled is the library.

### ReleaseJobs.tla (`chassis/.github/workflows/build-and-publish.yml`)

Jobs of the workflow that run at the same time over one `main` and one published remote.
`main` is the sequence of its revisions (archives, `source_code/`, epoch, journal); a job
has the revision that it checked out and works on its own `tree`.

| `pc` | step of the workflow | actions |
|---|---|---|
| `source` | extract, commit and push `source_code/` (54-63) | `PushSource` |
| `build` | `swhap build --apply`, piped to `tee` (66-73) | `Build`, `BuildRefuses`, `BuildDies` |
| `journal` | commit and push the journal (75-81) | `PushJournal` |
| `validate` | make the local refs, run the gate (83-95) | `Validate` |
| `publish` | `swhap publish` (104-118) | `Publish`, `PublishSuperseding`, `PublishBroken` |

`Merge` is a curator who merges a pull request in between, `StepFails` a runner that
dies. A push to `main` is taken only when it is up to date. Exit codes are lost where
the workflow pipes them away, so that `BuildRefuses` and `BuildDies` go on to the next
step. The battery is one question here, whether an input is in `Sound`; its rule BP-2
is modelled as such, because it looks at what an earlier step has put on `main`.
`BP2Allows` is what it lets stand there: nothing of the workflow, as in
branch_purity.py:16, in `release_gate`, and `source_code` in `release_jobs`. The workflow
installs validator and engine unpinned from another repository's `main`, so that the
behaviour behind a gate that agrees with it is worth checking too.

### Mutated forms

Some modules hold operators whose comment begins with *Mutated form of*. They are a
plausible mistake in the definition that follows, and no specification uses them:
replacing the definition by its mutated form must make a property of a run fail.

## 4. Runs

| run | instance | shows |
|---|---|---|
| `ledger_race` | 2 writers, 5 entries, torn writes | an unlocked race is never silent: `VerdictTracksHistory`; damage is permanent: `NeverHealed`; nothing is rewritten: `AppendOnly` |
| `build_sole` | 1 builder, 2 inputs, 2 epochs, 2 run ids, 4 entries, 1 crash | `InspectedIsBuilt`, `TagsOnBranch`, `AppliesAreComplete`, `RebuildsAgree`: what a repetition makes is what the ledger has |
| `publish_sole` | 1 clone, 5 candidates, 4 entries, 1 fault | refinement of `PublishedHistory`, `NothingLost`, `ReplacementIsRecorded`, `SanctionedOnlyIfArchived`, `PublishEventsHappened` (the last two are proved for any number of clones) |
| `publish_retry` | 1 curator who repeats, 3 faults | `PublicationCompletes` |
| `validator_battery` | 2 releases; a flawless repository and a whole battery, and everything up to three features away | `ExitIsContract`: the exit code is what the contract derives from the reports; `ZeroCertifies`; `LegacyHidesNothing`; `SelectionIsAnswered`: which checks of a selection are run or skipped with a reason |
| `release_tree` | archives of up to 5 members in up to 4 levels, with `./`, implied directories or one strange member, stripped 0 to 2 times, 1 unreadable directory; pairs of sources | `GreenIsFaithful`: without findings, the git tree is the archive; `GreenIsOrdinary`: which archives get that far, with names that are not UTF-8, or that git makes so, among them; `InspectForesees`: what inspect announced is what the tree has; `PatchesArrive`: of several sources the tree is the union, a later one over an earlier one, exactly when no two share a directory at the top (also not one that names the same paths) |
| `csv_contract` | texts of up to 6 characters, files of up to 3 rows, some 50 dates, canonical and legacy | `TokenizerIsRFC4180`, `AcceptsTheContractAndTwoDepartures`, `QuietMeansChronological`, `SameBytes`, `RoundTrip`, `NothingIsConvertedSilently` |
| `release_jobs` | 2 jobs, 1 merge, 1 fault, a gate that allows `source_code` | `JournalOnMainGrows`, `OneTimestampOnMain`, `PublishedIsCovered`, `PublishedIsOnMain`, `OneEpochPublished`; liveness: `SoundReleaseIsPublished` |

Runs that end in a counterexample, each a disagreement of the code with its
documents that is explained under `findings` in `PROJECT.json`:

| run | what happens |
|---|---|
| `build_coverage` | an apply with another epoch writes refs and is refused afterwards: nothing covers them |
| `publish_remedy` | a supersession cut before its push cannot be repeated |
| `publish_race` | a forced push overwrites another clone's publication that is not archived |
| `release_gate` | one job, undisturbed, with the gate as it is: `source_code/` is on main, BP-2 fails, nothing is published |

Disagreements that were met and have no run of their own:

* Two builders in one directory both append a curation timestamp (build.py:43-62), which
  build.py:41 excludes; on `main`, `OneTimestampOnMain` shows that the push prevents it.
* `--checks BP-3` alone runs nothing, mentions nothing and exits with 0, against
  "skipped, reported, never silent" (validator-report.md:92-95); `SelectionIsAnswered` has
  the exact condition.
* The publish gate is passed when the published remote cannot be reached
  (divergence.py:167); `Complete`, the premise of `ZeroCertifies`, needs one that answers.
* The gate of `pr-validate.yml` runs where `refs/heads/SourceCode` does not exist, so that
  BP-1 fails for every pull request.
* The publish-event of a job never reaches `main`: no step after `swhap publish` pushes the
  journal. `publish --supersede` cannot succeed in the workflow, which does not pass the
  options it requires (cli.py:130-137).
* csv-contract.md:234-237 has parse, write, parse as the identity on dates and write, parse,
  write as the identity on bytes, and lines 662-663 have "Output of `swhap csv convert` is
  always a fully canonical §2–§10 file". A year below 1000 with a month or a time is printed
  with fewer digits by some C libraries (model.py:94) and is then refused; so are rows of a
  conversion that collide, which the converter does not look for (legacy.py:132-264), and
  a conversion without a row. `RoundTrip` has exactly these exceptions; `Padded` says which
  library it is.
* csv-contract.md:95-97 has "both LF and CRLF" accepted inside a quoted message, and lines
  367-370 forbid every control character "with the single exception of LF"; grammar.py:146-150
  makes a line feed of a carriage return alone, too, and the file is accepted
  without a note.
* csv-contract.md:153 wants "exactly 4 ASCII digits" of a year; the expressions of
  dates.py:23-28 have `\d` without `re.ASCII`, so a date in full-width digits is accepted as
  the date it looks like, and written in ASCII. `AcceptsTheContractAndTwoDepartures` says that
  these two are all that is accepted beyond the contract.
* source.py:18-19 promises that "a non-UTF-8 1990s filename reaches the git tree unchanged". It
  gets through inspect, extraction and walk, and then the JSON of the plan, which is rendered in
  any case (build.py:75, 125), cannot be encoded (plan.py:97-99): an uncaught
  `UnicodeEncodeError`. `GreenIsOrdinary` has UTF-8 among its conditions.
* csv-contract.md:564 (11.1) has the conversion note of a message "record the original string";
  the note of legacy.py:208 says only that separators were converted.
* manifests/README.md:44-45 makes `path_bytes_hex` "the authority" for a path that is not UTF-8;
  manifest.py:61 takes the display path. What a release builds is refused before that
  makes a difference, but for names that git unquotes and directories that cannot be read.
  mk_manifest.py:58 promises to "never crash on serialization"; an empty directory, a link
  target or a wrapper that is not UTF-8 does crash it.
* `swhap inspect` over several archives ends with 11 when one is unsafe (10) and one too
  large, though errors.py:190-196 gives 10 precedence within one archive; and a directory
  among its arguments, which a recipe may name, ends it with an internal error.

### Bounds

* `MaxEntries = 5`: a genesis by each of two writers, and three appends, enough for a
  fork, a torn line, and an append to each.
* `MaxLedger`: in `Publish`, 4 is one publication and one supersession with all
  its entries, 7 leaves room for repetitions. In `Build`, a timestamp, a plan, and two applies.
* `MaxFaults`: one crash or failed exchange anywhere for safety; three for the liveness
  run, so that repetitions fail too. A fault is one guard, `faults < MaxFaults`.
* Candidates: `first`, one that appends a release, one that inserts an older one
  (what a supersession is for), one with a nested tag, and one whose tags are missing.
  Two inputs of the builder, one with an older release inserted, give every relation
  of two plans that drift can tell apart.
* Situations of the validator: all pairs of features of the repository with one of the
  invocation, and the other way round. A feature is a missing or different input, a
  defect of one check in one place, or an option; two defects are enough because the
  exit code only asks whether one exists.
* Archives: a directory with up to two entries, of every kind, inside of another one
  with up to two entries, inside of up to two wrappers. A check compares paths one by
  one and a rule of the scripts looks at a directory and its children, so that depth
  and width beyond that repeat what is there. One unreadable directory loses a subtree. One
  name is not UTF-8, one is its display, and one is what git reads as the first; they are
  put wherever a script has its own way with a name (`Foreign`): files, link targets,
  directories, wrappers.
* Texts: six characters (five with carriage returns) have every pair of flags of the tokenizer meet every character.
  Rows are taken from a set that has each rule of the contract broken by one of them;
  three rows are what a collision of rows that are not neighbours takes. Dates: both
  sides of every boundary (zone, month, leap day, year 1000, 1970), and each form once more
  in digits that are not ASCII.
* Jobs: two jobs race for `main` and for the remote at every step. A merge changes archives
  or epoch between checkout and push, a fault is one dead step or broken push.
* Symmetry: run ids, which no definition distinguishes.

Deadlock is not checked: a bounded model stops when its bounds are used up, and an
idle workbench may stay idle.

### Fairness

Safety runs need none. `RetrySpec` has weak fairness on each step of the command in
progress, which is sequential code without waiting (git and HTTP calls return or
raise), and on the curator's repetition. There is no fairness on `Visit`: SWH promises
no visit. `ReleaseJobs` has weak fairness on the steps of each job that has started: a
runner executes one step after the other and none waits for another job. There is none
on starting a job, on merges or on faults. Faults have no fairness and are bounded by `MaxFaults`. Without that
bound nothing could be expected to complete.

## 5. Proofs

| theorem | says | rests on |
|---|---|---|
| `LedgerProofs!VerifyIsExact` | `Spec => []VerdictTracksHistory`, any number of writers | `IInv` |
| `LedgerProofs!DamageIsPermanent`, `AppendsOnly` | `NeverHealed`, `AppendOnly` | `IInv`, `ExtendedShape` |
| `LedgerProofs!SequentialLedgerVerifies` | with one writer and whole writes the file always verifies | `IInv` |
| `PublishProofs!NothingIsLost` | the abstract history loses nothing, for any commit graph | transitivity of `Ancestor` |
| `PublishProofs!SanctionsAreArchived` | `Spec => []SanctionedOnlyIfArchived`, any number of clones | sign-offs and commands past `save prior` have their snapshot in `archive`, which only grows |
| `PublishProofs!PublishEventsAreTrue` | `Spec => []PublishEventsHappened`, any number of clones | from `push` on, the clone's refs are those of the candidate; after an accepted push the remote has had them |
| `PublishProofs!SoleCloneRefines` | a sole clone implements `PublishedHistory` | a command that forces has its prior snapshot archived, and nobody else moves the remote |
| `PublishProofs!SoleCloneLosesNothing` | `NothingLost` for a sole clone | the two theorems before |
| `PublishProofs!SoleCloneRecordsReplacements` | `ReplacementIsRecorded` for a sole clone | `Documented`: a clone that is about to force a push has the executed entry, and the entry its sign-off |
| `BuildProofs!InspectedPlanIsBuilt`, `CandidatesAreClosed`, `AppliesDescribeCandidates` | `InspectedIsBuilt`, `TagsOnBranch`, `AppliesAreComplete`, any number of builders | `IInv` |
| `BuildProofs!RebuildsOfOneBuilderAgree` | `RebuildsAgree` with one builder (`Alone`) | `IInv`, `OneEpoch` |
| `ReleaseJobsProofs!OneTimestamp`, `JournalGrows` | `OneTimestampOnMain`, `JournalOnMainGrows`, any number of jobs | `JInv` |
| `ReleaseJobsProofs!Coverage`, `RedPublishesNothing`, `OneEpoch` | `PublishedIsCovered`, `PublishedIsOnMain`, `OneEpochPublished`, any number of jobs | `JInv` |
| `ValidatorProofs!ExitCodeIsContract`, `LegacyAuditIsOpen`, `FirstCheckDecides`, `ZeroIsSound` | `ExitIsContract`, `LegacyHidesNothing`, `SelectionIsAnswered`, `ZeroCertifies`, any releases, situations and selections | `VInv` |
| `VhcsvProofs!TokenizerIsExact` | `TokenizerIsRFC4180`, texts of any length | `ScanInv` |
| `VhcsvProofs!AcceptanceIsExact` | `AcceptsTheContractAndTwoDepartures`, any files, dates, references, folding of names | `TokenizerIsExact`, `ContractInv` |
| `VhcsvProofs!NothingIsSilent` | `NothingIsConvertedSilently`, any files and dates | `ScanInv`, `LegacyInv` |
| `VhcsvProofs!QuietIsChronological` | `QuietMeansChronological`, any files, zones and refused rows | `OrderInv` |
| `VhcsvWriteProofs!RewritingIsExact` | `SameBytes`, texts of any length, any files and dates | `ScanInv`, `ContractInv`, `CopyInv` |
| `VhcsvWriteProofs!WrittenIsReread` | `RoundTrip`, any rows, dates, references and folding of names | `ContractInv`, `CopyInv`, `WriteInv`, `FollowInv` |
| `ReleaseTreeProofs!SourcesArrive` | `PatchesArrive`, any number of sources | `ReleaseInv`, `Merged` |
| `ReleaseTreeProofs!GreenReleasesAreFaithful` | `GreenIsFaithful`, any names, archives and trees | `ReleaseInv`, `Merged`, `Passed`, `Viewed` |
| `ReleaseTreeProofs!GreenReleasesAreOrdinary` | `GreenIsOrdinary`, any names, archives and trees | `ReleaseInv`, `Merged`, `Why`, `Agreed`, `Cut` |
| `ReleaseTreeProofs!ForesightIsExact` | `InspectForesees`, any names, archives and trees | `Told`, `Why`, `Passed`, `Shaped` |
| `TypeCorrect` in each but `VhcsvWriteProofs` | the type invariants | |

**Assumptions.** Only those named in the modules: the ancestor relation is reflexive and
transitive, candidates are functions into commits and tags, bounds are naturals, `None` is
no commit (`NoneIsNoCommit`), `Releases` is a sequence of releases and every situation an
invocation on a repository (`SituationAssumption`), what the renderer makes of an input and an
epoch is a candidate, and each candidate made with another epoch has other commits. Of the
CSV reader: files are texts over `Char`, the dates are literals in the shape that the
regular expressions of `dates.py` give them (`DatesAreLiterals`; `DaysAreMidnights`: a date
without a time has no time and no zone, an instant has a zone; `DatesAreDistinct`: the forms of
the contract have a fixed width, so but for seconds, which the table leaves out, no two texts
of them *in ASCII* are taken apart alike; of others nothing is assumed, and `RewritingIsExact`
says that a file with one of them is written with other bytes), date words are atoms other than the four
characters of the grammar (`CharsAreEnough`, `DatesAreWords`), the table contains what the
writer makes of a date in it (`DatesAreClosed`), a reference is a date word or `None`, and
`None` is no instant (`NoneIsNoInstant`). Of the release tree: names are atoms other than
`/`, `.` and `..`, `None` is none of these, and folding, unquoting and display are functions of a name (`InspectAssumption`,
`NameAssumption`, `DisplayAssumption`: any one that leaves `.emptydir` as it is); unquoting makes a name shorter, since it takes at least the quotes away
(`LengthAssumption`), and `.emptydir` is no AppleDouble name; the sources of a recipe are trees and archives in the sense of `IsTree`
and `IsArchive` (`RecipeAssumption`).
TLC evaluates each of them for the values of the runs.

**The ledger.** `IInv` strengthens the verdict: *undisturbed* holds iff the lines verify;
every id in the file and in a draft is at most `minted` and no draft's id occurs in the
file; and a draft whose writer is not stale names the hash of the present last line. The
last part is what makes a fresh write extend a valid chain and a stale one break it;
without it the equivalence is not preserved by `Write`.

**The publisher.** `SoleCloneRefines` and `SoleCloneRecordsReplacements` are restricted to one
clone because the statements are false for two, as `publish_race` shows: between the answer
of the archive and the push only the own clone may move the remote.

**The builder.** None of the three invariants of `Build` is inductive. `IInv` adds that
a builder in the middle of a build owns its run id, that a slot belongs to a run that was
handed out or is empty, and what stands in the slot at each label of the build: nothing
before the branch is written, the tip of the plan after, the tags once the loop is
through. So no other builder can disturb a slot that an entry describes. `OneEpoch` is
inductive for one builder only: between the look at the ledger and the append of the
timestamp a second builder can do the same, and with two timestamps on record two builds
that are both journaled may differ, so `RebuildsAgree` is false of two. That two plans
of one input have the same commits at the same epoch follows from the renderer being a
function. `FirstExists` (a set of naturals with an element has a least one) replaces an
induction over the releases of a plan.

**The jobs.** `JInv` says of every journal there is, on main and in the checkouts, that
it has one timestamp at most, that its entries go by this timestamp, and that it extends
the journal of the revision it was checked out from; every journal of main is a
beginning of the last one. A push is accepted only on top of the revision it started
from, so the pushed journal extends all that main ever had; this is what lets two
jobs append different timestamps to their own copies without both arriving.
`Coverage`, `RedPublishesNothing` and `OneEpoch` are then invariants relative to `JInv`,
with what is known of a job that reached `publish`: its candidate is what its revision
renders to, its journal accounts for it, and its revision passed the gate.

**The validator.** `VInv` relates the loop to the reports: after k families the report
holds what the first k families answer; a report that was written is finished or
aborted; `worst` is the greatest exit code among them; and each profile that was asked
for is still in the queue or reported. `ZeroIsSound` then goes the other way through each
check: with exit code 0 no finding of the report is a FAIL, so none of the families has
one (`OutcomesAre`), and with the inputs of `Complete` every defect, wherever it is, is one
that some family looks at (`SilentIsFlawless`, a case for each kind of defect).

**The CSV reader.** `TypeCorrect` needs `TInv`: every row has a date that the writer can
write, so that what is written is a text again and `Rewrite` may start over.

`ScanInv` is what the tokenizer knows without looking back. Each place of the text is
`Sound` or not, by its own character, its neighbours, and the number of quotes before it. As
long as no place so far is unsound, there is no error and the five flags say what the
positions say (`Flags`: inside of quotes iff the number of quotes is odd, a separator
expected right after a closing quote, and so on), and what was taken so far are the lines
and fields that the positions cut out (`Taken`). From the first unsound place on there is
an error and nothing else is claimed, because nothing else is true: after a stray quote
the flags and the positions disagree for good. A text is `WellFormed` iff all its places are
sound, which gives both halves of the theorem.

`ContractInv` carries the verdict through the loop over the records: nothing has failed so
far iff the tokenizer had no error and each record so far conforms (`VerdictSoFar`), and then
row k is record k. It needs that the newline mark of a field says that there is a line feed
in its value (`AllMarked`), since the reader asks the mark and the contract the value. With
duplicates counted over the rows, which are then all the records, the verdict is that of
`RecordsConform`, the contract without its two rules about carriage returns and digits, and
that is what `Conforms` and `Tolerated` are together. `LegacyInv` does the same for the converter: each record so far has a row or an
item of the worklist that takes its place, a later record has neither, and each row says
where it differs from its record (`LegacySoFar`). `SlashReadingIs` is the fact about slash
dates: the order of day and month is chosen before the date is tried, and it is one that
gives a date whenever there is one.

`OrderInv` relates `prev_epoch` to the rows: it is not below the instant of the last row, and
may be above it, because a row that is refused for another reason moves it too.

`CopyInv` is what writing needs: the text up to the place of the tokenizer is, as long as there
is no error and no carriage return, what its locals say in the syntax of the file (`SoFar`:
the records with their line feeds, the fields of the open one with their commas, the open
value with its quotes doubled), and a field without quotes needs none (`Tidy`). At the
end of a text that ends in a line feed nothing is open, so the text is that of the records.
The writer writes no field longer than it was read, so two flattened lists of fields are equal iff they are
equal one by one (`FlattenCompares`). What is left is one field: a needless quote is noted, and a
date is written as it was read iff it is normal (`OwnTextIs`), which takes that the calendar
counts no minute twice (`WallClockTells`).

`FollowInv` is about reading what was written, and looks ahead where `CopyInv` looks back: what is
left of the text is the rest of a field, the rest of its line, and the lines of the rows that were not read
yet (`Follows`). A field is written plain or in quotes, and the tokenizer is before,
in or after it (`InField`); each turn of the loop goes on in the field or ends it at the comma
or the line feed that the writer put there (`TurnFollows`), so that the records are those of the rows and there
is no error. `WriteInv` says why the records then pass: the rows of an accepted file, read or
converted, have fields that the checks let through, no carriage return, and no date after
the reference (`GoodRow`). No value ever holds a carriage return, even in a text with
errors (`TurnBare`), since the reader makes a line feed of it. The date alone may fail, and it does
exactly when its year is printed with fewer than four digits (`RereadIs`).

**The release.** `ReleaseInv` says what each stage has from the one before, and that the
directory on disk is a tree: finite, and with every directory on the way to a node. That is
an invariant of stripping, marking and moving (`StageIs`, `StageIsTree`, `OverIs`), of
which the first is a recursion over the levels.

`Merged` is what `SourcesArrive` needs of the sources so far: as long as no two share a
directory at the top, the tree is their union; once two do, there is a *stray*, a path that
no source has, below a name it has twice (the later directory landed inside of the earlier
one). Of the paths that land there a longest one is new. A stray stays one, since a source
that has its path cannot be moved in any more (`Clash`), which is why `Merged` also keeps
the directories at the top and the paths `a/a` of the sources.

`GreenReleasesAreFaithful` follows a release without a finding back. `Passed` is what the
checks say: of the blobs that they saw, those that are no markers are the files and links
of the members, under the names of the manifest, and the markers are in the directories
that the manifest calls empty. `Viewed` is what the tree has of the members: every member
is a node under the name of the manifest, and every node is a member or above one. It holds
only when the manifest strips what extraction strips, which nothing but the absence of findings gives: `ShapeIs` excludes the other cases,
because they have a member whose name in the manifest is no path of a blob. Last, two entries may have
become one path when git unquoted their names, and the checks would have looked at one
blob of the two: there are at most as many distinct paths as there are nodes, all of them
are needed for the members, so no two have become one (`NoTwo`, a count).

`GreenReleasesAreOrdinary` needs the tree of the archive rather than the blobs. `Agreed` says
what the checks have found equal of the list of the walk, and `Cut` what is left of a tree
when the levels `d` are stripped. If extraction and manifest strip differently, each member
in the manifest matches an entry that comes from a member a level deeper, or from one a
level higher. Of finitely many members one is deepest, and one is not deep at all, so there
are none (`NoShift`): they strip alike (`Decided`). Likewise every name in the tree is
what git reads for one of them, and a longest one can be read for none but itself, so all
are read as they are (`NamesAreKept`). What
is then left of the condition is read off the tree (`GreenTree`, `ShapeIsAgreed`). The
other direction, that an ordinary archive has no findings, is `NothingFound`. `Why` adds
to the invariant how a release from one archive can fail: nothing was listed, or git has
refused a name; a move cannot fail, because the directory is empty before the first.

`ForesightIsExact` compares two sets of names, those that `inspect` announced and those of the
manifest, which by `Passed` are those of the git tree. `Told` says that the report is the one of
the archive; an archive that got through is only `.`, or has no wrapper, or has one
(`Shaped`), and in each case all members have a leading `.`, or none, or some
(`ForetoldDecided`). When only some have one, a longest of those is announced and the
manifest does not have it (`MixedIsWrong`). When all have one and a wrapper follows, each
member would have to be the manifest's name of one a level deeper (`NoLength`).

**Induction.** The theorems of the library that take a predicate cannot be instantiated.
Where a proof needs induction it is done for one formula, over a set of naturals that
has a least element when it is not empty (`FirstExists`, `LeastExists`, `Upwards`): that a
flattened sequence of texts is a text, the first unsound place of a text, the order of
rows, the levels that are stripped. What a fold over *data* of another shape computes stays out of reach.

**Only model-checked.** Liveness (`PublicationCompletes`, `SoundReleaseIsPublished`), which is
out of the prover's reach. Every other property of the passing runs is stated by a
theorem.

## 6. What is not modelled

`PROJECT.json` gives the reason for each component. Left out of the modelled ones: the
content of entries beyond what the properties compare, the copy of `codemeta.json`,
scratch builds, repeated run ids, errors of git itself (but for `Abort` in the
validator), TF-3 and the order of two releases, what makes a defect in the other checks,
finding ids, a repository that changes while it is validated, the syntax of names,
addresses and tags beyond one rule each, decoding of bytes, the magic numbers of
archives, a member below a file and two members that differ by a leading `./` only, a `.` inside
of a name, the workflows `self-validate` and `archive-swh`, and the fixtures and pilots, which are data
and the scripts that made it.
