# A verification project for codebugs

codebugs is a tracker for findings and requirements that several agents use at once. Its state is one SQLite
file; every MCP tool and every CLI command opens a connection, makes its call and closes it. There is no server
process that serializes the calls: what keeps two agents apart is SQLite's write lock, taken through `db.txn`
(`BEGIN IMMEDIATE`), and the conditions the code puts into its statements. This project models the parts of
`src/src/codebugs` where that is hard to get right, checks them with TLC, and proves the core with TLAPS.

All source paths below are relative to `src/src/codebugs/` unless they begin with `docs/` or `tests/`.

## 1. The system

| component | state | operations | what makes it correct |
|---|---|---|---|
| merge coordination, `merge.py` | `codemerge_sessions`, `codemerge_claims`, one row of `codemerge_locks` | start, claim, check, merge, finish, abandon | one session at a time may rely on the lock; the head a grant compared is not merged behind; a dead holder is replaced |
| entity kinds, `entities.py`, `types.py` | none of its own: the `status` column of two tables | `exists`, `is_resolved`, `set_status` | the terminal statuses of each kind |
| entity claims, `claims.py` | `entity_claims`, at most one live row for each entity | claim, release, the hook on a terminal status | a claim ends by its holder or with the work; the status it moved comes back |
| findings, `findings.py` | `findings`, a partial unique index on live fingerprints | add, batch add, import, restore, update, category fold, queries | a sighting is visible, a decision stands, one live card for each fingerprint |
| requirements, `reqs.py` | `requirements` | add, batch add, update, import, verify | status writes that others depend on run the hooks |
| milestones, `milestones/` | `milestones`, `milestone_items`, `agent_capacity`, audit | add, move, defer, dismiss, promote, pull, release, close, reconcile | attachments follow their sources; the ledger covers the work; a release keeps its gate |
| sweeps, `sweep.py` | `codesweep_sweeps`, `codesweep_items` | create, add, next, mark, archive | unfinished items are offered, in a stable order, along declared transitions |
| blockers, `blockers.py` | `blockers`; whether one holds is computed | add, resolve, cancel, reports | a cancellation is final, nothing is resolved twice, and an unblocking is reported |
| relations, `relations.py` | `finding_relations` | relate, unrelate | no contradicting facts about a pair |
| database, `db.py` | registries of schemas, hooks, resolvers | `txn`, hooks, pre-add resolvers, read enrichers | a call is atomic; a failed extension undoes its own writes and no others |
| tracker discovery, `db.py` | the directories `.codebugs`, `findings.db`, `.git` | resolve, `where`, `init`, open | one tracker for each project, bound to truly; only an opted-in call creates one |
| benchmarks, `bench.py` | `codebench_runs`, `codebench_results` | imports, deletions, queries | a run has the rows of its import and no others |
| code locations, `loc.py` | `meta.loc` of a finding | capture, resolve, recapture | a coordinate held the anchored text while it was looked for; a repair obeys the row |
| provenance, `provenance.py` | commits in `meta`, notes | `check_findings`, `resolve_trailers` | no verdict from an unanswered question; no decision overturned by an old commit |
| grouping, `grouping.py` | none | citation, filing and tag reports | the components are those of the graph, less what was declared |
| file writes, `fsio.py` | the destination of an export | `atomic_write`, the confirmation | the destination is whole |
| similarity, embeddings, usage, refusals | caches and logs of their own | see `PROJECT.json` | not modelled |
| MCP server, CLI, surfaces, scripts | none | argument parsing, formatting, git worktrees | a connection for each call |

Interactions. The `status` column of an entity is shared: `claims.py` projects a claimed card to `in_progress` and
back, `findings.py` and `reqs.py` write what callers ask for, `milestones/triage.py` dismisses through them.
`update_finding`, `update_requirement` and the reopening branch of `add_finding` run status-change hooks
(`db.py:239`) inside their transaction: `claims._auto_release_on_terminal` and the two reconcilers of
`milestones/reconcile.py`. Importers, restores, claims and releases write the status and run no hook. `add_finding`
runs a post-add hook that routes the card to a stream. `pull_next` and `milestone_close` read the blockers; the
update tools report what they unblocked. The merge tools share nothing with the rest. `add_finding` runs the
pre-add resolvers of `loc.py` and `similarity.py` before its INSERT, on its own connection; reads of findings run the
enricher of `loc.py`. `loc.py` and `provenance.py` ask git, each question a process of its own. `resolve_trailers`
and the repair of anchors write through `update_finding`; the grouping reports read the ledger of relations.

Hard behaviours. Calls that read outside the transaction they write in (`add_blocker`, `create_sweep`,
`check_overlaps`, the report of an update); a transaction that stays open over a call of git (`merge`); leases against
a clock nobody stops; agents that die between calls; a status written by five modules of which three run hooks;
lookups that choose a row by "newest"; a ledger kept beside the rows it counts; hooks whose failures are swallowed;
questions to git and to the file system that may go unanswered, while HEAD and the disk move between them; passes that
read a card and write it later; extensions that can do anything to the caller's connection. `PROJECT.json` lists each
hazard at the line where it bites, with the properties that watch it, or the reason why none does yet.

## 2. Modules

| module | models | proofs |
|---|---|---|
| `Merge` | `merge.py` with its agents, git and the clock | `MergeProofs` |
| `Entities` | the two kinds and the status column | |
| `Claims` (extends `Entities`) | `claims.py` and the status writers it meets | `TrackerProofs` |
| `Tracker` (extends `Claims`) | the identity of findings, their ids, and every writer of the indexed columns | `TrackerProofs` |
| `Milestones` (extends `Entities`) | `milestones/` with sources that change with and without hooks | `MilestonesProofs` |
| `Sweep` | `sweep.py` | `SweepProofs` |
| `Blockers` (extends `Entities`) | `blockers.py` and the reports of the update tools | `BlockersProofs` |
| `LeasedLock` | what the merge lock promises: the abstract specification that `Merge` implements | `MergeProofs` |
| `RunArchive` | what the tables of benchmark runs promise: the abstract specification that `Bench` implements | `WritersProofs` |
| `Discovery` | the second half of `db.py`: which tracker a call is bound to, `init`, `where`, the open | `PartsProofs`, `SearchProofs` |
| `Resolvers` | the pre-add resolvers of `db.py` and their savepoints | `PartsProofs` |
| `Relations` | `relations.py` | `PartsProofs` |
| `Grouping` | `grouping.py`: the union-find, `citation_report`, `filing_report` | `SearchProofs` |
| `Anchors` | `loc.py`: capture and resolution | `SearchProofs` |
| `Recapture` | `loc.py`: stored anchors and their repair; the read enrichers of `db.py` | `WritersProofs` |
| `Provenance` | `provenance.py`: `check_findings` and `file_status` | `PartsProofs` |
| `Trailers` | `provenance.py`: `resolve_trailers` | `WritersProofs` |
| `Bench` | `bench.py` | `WritersProofs` |
| `Exports` | `fsio.py` | `WritersProofs` |
| `Parts` | the ten modules above from `Discovery` on, with the mapping of `Bench` to `RunArchive`, side by side | `PartsProofs`, `WritersProofs`, `SearchProofs` |
| `MC*` | instances for TLC: symmetry sets, lifecycles, requests, scenes, and two parts side by side (`MCDesk`) | |

What a step is. A call inside one `db.txn` is one step: `BEGIN IMMEDIATE` precedes its first read, so no other
writer comes between, and readers see the last commit. A call that raises, or that only reports, changes nothing
and is no step; where the answer itself matters (`Claims`, `Tracker`), `reply` keeps that of the last call. Calls
that are not one transaction are cut where others can come between:

- `merge()` is `MergeBegin`, `MergeReadHead`, `MergeWrite`, `MergeCommit` (or `MergeRenew`, `MergeRenewCommit`):
  it calls git inside its transaction, the clock runs on, main may move, and the process may die, which rolls the
  transaction back. `txn` is SQLite's write lock; `CanWrite` guards every other writer with it.
- `check_overlaps` is `CheckClaims` and `CheckHead`, and reads without a transaction.
- `add_blocker` is `AddCheck` and `AddWrite`, because the duplicate check is not in the transaction of the insert.
- `resolve_blocker` is `ResolveRead` and `ResolveWrite` with `CanWrite` between them, so that the effect of the
  transaction is something the model can lose.
- an update with its report is `UpdateStatus` and then `TellStart`, `TellItem`, `TellRow`, `TellDone`, `TellEnd`:
  each query of `get_unblocked_by` sees the database of its own moment.

`Merge`. `sessions`, `claims` and `lock` are the three tables. A deadline is the number of ticks left, so one `Tick`
ages all of them and the clock has no bound. `pc`, `sess`, `since`, `lease` belong to the agents: what a call has
told each of them. `lease` is what is left of the TTL that `merge()` promised, counted from the write of the
deadline; it is lost when the session is closed. Main never returns to an earlier commit, so a head is known by who
has moved main since it was read: `since` is that for the head an agent's check reported, `landed` for the head the
last grant compared. A renewal touches neither, because the code compares no head there. Main moves without bound.
`Land`, `Push`, `Crash` and `Tick` are external.

`Claims`. A holder is a name and a qualifier (its kind and repository), because authorization compares all of it.
`claims[e]` is the live row: the triple, `prev_status`, and `late`, a note that the caller passed
`allow_terminal`. `Create`, `WriteStatus` and `ImportRequirement` are the writers of `findings.py` and `reqs.py`
reduced to the status and the claims hook.

`Tracker`. A card is its rowid; `print`, `stamp` and `twin` are `fingerprint`, `updated_at` in whole seconds and
`meta.recurrence_of`. `Fits` is the partial unique index, and `Store` applies a write or rolls it back with
`IntegrityError`. The fold checks the final state first and then meets the index row by row (`Folded`), as
`normalize_categories` does. An id is what `_next_id` reads from it: whether LIKE takes it, the number CAST finds
and the one the regular expression finds, which differ for an id in another case or beyond the last integer. `NextIds`
is `_next_id`, `Insert` meets the primary key (`IdTaken`) before the index; callers and restored files may bring ids of
their own (`InputIds`). Batches are sequences of the single calls: they share a transaction and nothing reads
between.

`Milestones`. An attachment is its place in `items`, its id; `Newest` is the lookup by reference that nearly every
call uses. `UpdateSource` is a status written with both hooks, `SilentSource` one written without. `held` is
`agent_capacity`. The order inside a bucket of the queue is left open: any eligible attachment of the first bucket
that has one may be pulled, which includes the one the code chooses. A bug is linked when its requirements exist; they
are never deleted. `Block` stands for what `Blockers` models in detail.

`Sweep`. `rows` is `codesweep_items`, `life` the lifecycle. `next_batch` reads only: `Offered` is what it chooses from.

`Blockers`. `call` is where each caller stands. `owed` is a history variable: the items that some call unblocked and
none has reported as free.

The ten modules that `Parts` instantiates share no state with one another and little with the rest:

- `Discovery`. `tracker`, `base` and `git` are what lies at three paths of each directory; `dark` is the set of
  questions that get no answer now (`_path_state` returning `None`), `sealed` the directories that cannot be written.
  `Found` is the walk, with the jump from a linked worktree to its main checkout, and collects in `blind` the
  questions it could not ask; `Free` is what `init` requires. `ResolveNamed`, `ResolveWalk`, `InitCheck` and
  `InitForce` only look; `Open` and `InitMake` act later, when things may have been removed.
- `Resolvers`. `frames` is SQLite's stack of transaction and savepoints with the writes in each, `saved` what is
  committed. A resolver is a bounded sequence of `Statement`s: write, COMMIT, ROLLBACK, BEGIN, open or release a
  savepoint of a name it can guess. The runner's nonce is a name it cannot.
- `Relations`. `ledger` is `finding_relations`; a retracted row stays. Each call is one transaction and one action.
- `Grouping`. `todo` are the edges not yet taken into the union-find `parent`; their order, which in the code is that
  of the rows' texts, is any. The reports are operators on the final state, compared with reference definitions.
- `Anchors`. A line is a number (its identity for `git blame`), a normalized body and what normalization drops.
  `head` is what HEAD is: the recorded file, another file, and where the anchor's commit lies from there; `log` is
  what it was. `Context` reads HEAD's commit; `Gate`, `Trace` (blame), `ReadBlob` (one file of the verify), `Search`
  (the file of HEAD) and `Disambiguate` (the file of the anchor's commit) are processes of git of their own, each with
  the HEAD of its own moment. Of what blame says the code keeps what names the commit that `Context` read.
  `Edit`, `MoveAway`, `MergeBranch` and `Rewrite` are what others do between them; `TimeOut` is the spent budget.
- `Recapture`. `loc` is the state of each row's anchor. `Scan`, `CaptureRow` and `ApplyRow` are the pass over a
  population; only `ApplyRow` has the write lock, and compares with what `Scan` saw. `Enriched` is what a read says
  of the row, whether or not its enricher raised.
- `Provenance`. One file value and a history without branches. Each `Probe` is one question and takes its answer, or
  none, when it runs; `quiet` is a history variable: nothing has moved since the batch began.
- `Trailers`. A note is a verb and a commit. `ReadCard` and `WriteCard` are two transactions; `fresh`, `quiet`,
  `again` and `settled` are history variables that say what others did meanwhile and which ranges were done.
- `Bench`. A writer takes the write lock (`Take`) before its first read and does one statement at a time on `db`;
  readers see `Committed`. `torn` is a history variable: a deletion was committed in the middle of a query.
- `Exports`. Files are inodes with the writer whose content is in them; `shell` says which of a writer's standard
  descriptors are which inode, `job.matched` what `_matched_fds_for` found when it looked.

## 3. Runs

| run | states | asks |
|---|---|---|
| `MergeSafety` | 441,000 | `LockMatchesSession`, `LeaseExclusion`, `NoMergeBehindGrant`, `OneIsWarned`, `DoneIsKept`, that `Merge` implements `LeasedLock` (`ImplementsLock`), and `DeadHolderIsReclaimed` |
| `DeskSafety` | 115,000 | of claims, `ClosedCardIsFree`, `ReleaseReopensWork`, `OnlyHolderReleases`; of sweeps, `OfferedIsUnfinished`, `TransitionsHold`, `OrderIsStable` |
| `TrackerSafety` | 305,000 | `LookupsSuffice`, `DecisionStands`, `SightingIsVisible` |
| `MilestonesSafety` | 263,000 | `SlotsCoverAssignments`, `HooksLeaveReleases`, `PullIsLive`, `ProjectionFollows` |
| `BlockersSafety` | 1,415,000 | `UnblockingIsTold`, `CancelIsFinal`, `OnlyReopeningReverts` |
| `PartsSafety` | 1,167,000 | `SearchesAreHonest`, `OnlyTheOptedInCreate`, `DeclarationsHold`, `DestinationStaysWhole`, `CallerKeepsItsTransaction`, `RunsAreWhole`, `AnchorsAreHonest`, `RepairRespectsTheRow`, `VerdictsAreEarned`, `TrailersAreCareful`, and that `Bench` implements `RunArchive` (`ArchiveIsAtomic`) |
| `TrackerClaim` | | `ClaimOutcomeIsDocumented`, which fails |
| `MilestonesPromote` | | `ReleaseFreesSlot`, which fails |
| `BlockersTwice` | | `NoDuplicates`, which fails |
| `BlockersBoth` | | `ResolvedOrCancelled`, which fails |
| `MergeRenewal` | | `NoMergeBehindCheck`, which fails |
| `TrackerIds` | | `AddNeverLeaks`, which fails |

Every passing run checks its module's type invariant too (`DeskSafety` that of sweeps; that of claims is part of
`TrackerTypeOK`, which `TrackerSafety` checks). Each property stands in its module under a comment that says what it
promises. For each there is a mutant, a definition marked `Mutant` that changes a mapped one the way a bug would,
under which TLC finds the property violated.

What the bounds leave in.

- `Merge`: two agents and two sessions give a takeover, a renewal by the second agent of the same session, a restart
  after a takeover and two grants in the air. TTL is 2, so a lease can be fresh, half gone or lapsed, and a stall can
  outlive it inside a transaction. Nothing bounds main or the clock. One file is enough for an overlap, since claims
  of different files do not meet. The run uses no symmetry, which would be unsound for its liveness property.
- `DeskSafety`: claims and sweeps share no state, so the part that moves is chosen at the start (`part`) and the other
  stands still; the states are the sum of the two.
- `Claims`: one card, one requirement, two names and two qualifiers: entities do not interact, and four holders
  contain all pairs that share a name, a qualifier, both or neither.
- `Tracker`: two cards, two fingerprints, two seconds (`MaxNow = 1`), one holder. Two cards are the least that collide
  in the index or in an id; equal and different stamps both occur; the folds map two fingerprints in all four ways.
  The ids that callers and files bring are `CB-2` and `cb-2`; CAST stops at 2 (`LastInt`). Creation stops when the
  cards are used up (`RoomLeft`).
- `Milestones`: two streams and one release, at most two attachments (`MaxItems`). The instance has three scenes, one of
  them chosen at the start, because their product would be beyond a run; every property is checked in all three. The
  scene of slots has a card, two agents with room for one attachment each, large attachments, and a release that can
  be opened again. That of the queue has a card, a requirement and an external reference of the same name, one agent
  who holds attachments, and a release that stays open. That of the gate has a card with a blocker and a worktree, one
  such agent, and a release to close. The stream for security cards is in none of them: it differs from the inbox in
  the order of the queue only.
- `Sweep`: three items, a lifecycle without transitions, one with, one that starts in a terminal state, and one that
  `create_sweep` refuses; batches with repeats; three recurrences (`MaxCount`).
- `Blockers`: two callers, two rows (`MaxBlocks`), three moments, a card that waits for a card, for a requirement, for
  a date, for a signal, for itself (refused), and another that waits for the first.

- `PartsSafety`: the ten parts share no state, so their product would only multiply the states. `part` is chosen at
  the start; the part it names moves from any of its initial states and the others stand in one of theirs. The states
  are the sum of those of ten separate runs. `MCSpec` leaves out three sets of initial states (`Narrowed`): a repository
  at the top, something other than a tracker where the top's would be, and the contents of a file that is outside the
  scope. `Discovery` has a linked worktree inside its main
  checkout inside a top that is no repository, every other content of their nine paths that a program can meet, one caller
  and one unanswered question or sealed directory at a time (`MaxTrouble`): the caller's rivals are the actions that
  remove things. `Relations`: two cards, both orientations, three rows. `Exports`: two writers, three inodes, every
  way the shell may have connected them. `Resolvers`: two of them, three statements each, which is commit, begin and
  savepoint. `Anchors`: a file of three lines in which a line occurs twice or is too short to search for, two commits
  (`MaxMoves`), before or between the questions of a resolution. `Recapture`: two repairs of one card, edited once.
  `Provenance`: two findings that may share a commit, three commits, one change of the disk. `Bench`: two writers and
  a reader, two benchmarks, ids that saturate at 1 and one spelled `be-1`. `Trailers`: two passes, two commits that
  resolve, tighten or do both to a card, one edit. `Grouping`: four cards, up to three edges and one declaration: a
  path, a star, a triangle, a cycle of two beside an edge.

Deadlock is checked in all runs but `PartsSafety`: in every other some call is always possible. A part of
`PartsSafety` ends when its bound is reached (all edges are taken, all writers are done), hence `CHECK_DEADLOCK FALSE`.

Fairness. Only `DeadHolderIsReclaimed` needs any; `MergeSafety` checks it under `FairSpec`: the clock runs, and each
agent that is alive weakly fairly goes on asking (`Ask`): it checks, calls `merge()`, and the statements of its call
run. The tool descriptions tell agents to do that when they are refused, and SQLite's busy timeout lets a waiting call
through once the writer commits. Nothing is assumed of agents that hold the lock, of `finish` or `abandon`, or of main
standing still. Main may move between every check and the `merge()` that follows, and then `main_moved` refuses the
asker for ever. So the property says: if the lock stays for ever with a session nobody works for while a live agent
keeps asking for an active one, then this refusal goes on without end. Nothing else keeps the asker out.

## 4. What the violations show

1. `TrackerClaim`. A card is dismissed, the same defect is seen again and filed as a recurrence, and somebody claims
   the dismissed card with `allow_terminal=True`. The projection to `in_progress` makes a second live card of the
   fingerprint and the index refuses it (`claims.py:298`): the caller gets `sqlite3.IntegrityError`, not one of the
   outcomes `claims.py:385` lists. `update_finding` guards the same revival.
2. `MilestonesPromote`. An agent pulls a card from the inbox, which charges a triage slot; the card is promoted to a
   release as small; `release_item` decrements the small counter, which is 0, and the triage slot stays taken
   (`milestones/triage.py:232`, `milestones/capacity.py:394`), although `capacity.py:315` says that it frees the slot.
3. `BlockersTwice`. Two callers of `add_blocker` pass the duplicate check before either inserts (`blockers.py:147`),
   and the item has the same active blocker twice, which `docs/2026-04-04-blockers-design.md:184` excludes.
4. `BlockersBoth`. A manual blocker is resolved and then cancelled. `resolve_blocker` looks at `resolved_at` only for
   another resolve (`blockers.py:336`, `blockers.py:351`), so the cancel is accepted and the row has both stamps, "a
   state no serial ordering permits" (`blockers.py:318`), though
   `docs/2026-04-04-blockers-design.md:242` says that a blocker already cancelled or resolved is rejected.
   `CancelIsFinal` is what does hold, in any interleaving.
5. `MergeRenewal`. An agent checks a session; another session merges and lands; a second agent checks the same session
   and is granted the lock for it; the first agent calls `merge()` with the head of its check, is renewed
   (`merge.py:431`), and goes on behind that merge. The tool's text says that a main that has moved since the check is
   refused (`merge.py:781`). What does hold is about the lock: `NoMergeBehindGrant` counts from the head that the grant
   compared.
6. `TrackerIds`. The tracker holds `CB-1` and a card filed or restored as `cb-2`. `_next_id` takes the latter for the
   last one, because LIKE ignores case, and finds no number in it, because its regular expression does not
   (`findings.py:217`); the next id is `CB-1`, and every add that creates a card ends in `sqlite3.IntegrityError`, which
   `findings.py:953` puts outside the contract. `LookupsSuffice` says that an add without an id fails in no other way.

Read in the source while modelling, and in the models as the code has them, but no run states them:

- a stall between the write of a lease and its COMMIT hands out a lease that has run out (`merge.py:492`, CB-42, named
  there as a residual): the properties count a lease from the write of its deadline;
- an explicit `finding_id` is not looked up before the INSERT (`findings.py:1407`, `findings.py:1478`), so one that is
  taken ends in `sqlite3.IntegrityError` (`IdTaken` of `ObserveWithId`). `LookupsSuffice` speaks of adds that name none;
- `set_status` is documented as never called with a terminal value (`entities.py:250`), but the release of a claim
  made with `allow_terminal` restores one (`claims.py:357`). `ReleaseReopensWork` is about the other claims;
- an imported row that matches a fixed card is skipped before a live twin is looked at (`findings.py:2247`), though
  `findings.py:1900` says that a hit on a live row still bumps;
- two live rows of one fingerprint in a restored file end in `IntegrityError` (`findings.py:2221`), which the
  docstring (`findings.py:2107`) does not list;
- the importers of requirements close an entity without releasing its claim (`reqs.py:215`, `reqs.py:643`), against
  `claims.py:493`; `ClosedCardIsFree` is about cards;
- `update_milestone` archives a stream (`milestones/foundation.py:69`), against `milestones/__init__.py:97`;
- a sweep whose lifecycle starts in a terminal state offers finished items (`sweep.py:301`), against `sweep.py:356`,
  hence the condition in `OfferedIsUnfinished`; `terminal_states=[]` makes `mark_items` raise `IndexError`
  (`sweep.py:540`);
- `overdue_count` counts active date triggers only, which are never past due (`blockers.py:637`), against
  `docs/2026-04-04-blockers-design.md:297`;
- HEAD's commit is read once and given with the answer (`loc.py:881`, "the coordinate is only meaningful in that
  pair"), but the questions name HEAD anew (`loc.py:1018`, `loc.py:1044`, `loc.py:1114`): when HEAD moves in between, the
  coordinate is given with a commit in which it may name another text. `AnchorsAreHonest` says what holds: the text
  was there at some HEAD since the resolution began;
- when HEAD moves between the calls of `resolve_anchor`, a line that is still there may be called lost
  (`loc.py:1027`): `AnchorsAreHonest` asks for a true "lost" only when HEAD stood still;
- a second `Tightens:` of one card in a range of commits adds no note (`provenance.py:1001`): `seen` skips it before
  the card is read, though its comment speaks of the lists of the report;
- between the two reads of `bench.query` (`bench.py:563`, `bench.py:593`) a run may be deleted and its id given out
  again, since the highest id is minted anew after a deletion (`bench.py:91`); the answer then has another run's rows;
- a run imported as `be-7` is matched by the LIKE of `_next_run_id` and not by its pattern, so while it
  sorts last the next id is `BE-1` (`bench.py:98`), which is refused once there is a `BE-1`;
- `filing_report` calls a lineage cyclic when a card is reached from no root; a cycle that a root leads to is not
  noticed;
- `relate` refuses a reciprocal `duplicate_of` and no longer cycle (`relations.py:150`);
- a `Resolves:` trailer reads its card and writes it in two transactions (`provenance.py:1010`, `provenance.py:1031`): a
  card that somebody dismisses in between becomes `fixed`. `TrailersAreCareful` speaks of writes whose card nobody
  touched in between.

## 5. What is proved

For every value of the constants that satisfies the modules' assumptions, finite or not. The assumptions are what
makes the constants mean something (the null values are none of the values, the kinds of entities are disjoint, a
bound is a number, a row is an id); TLC evaluates each of them for every instance. `PROJECT.json` lists the theorems.
Every safety property that a passing run checks is stated by one.

`MergeProofs`, from `MergeAssumption` (the TTL is positive, the null values are none of the sets):

- `Typing`, `LockAgrees`, `Exclusion` follow from one inductive invariant, `Inv`. `LeaseExclusion` alone is not
  inductive: an agent's lease could outlive the lock's deadline, and a takeover by an open transaction could happen
  under it. `LeaseOK` adds that no agent is promised more than the row holds; `TxnOK` says what the transaction
  established before each of its stages and that nobody changed it since, and that a deadline about to be committed
  covers every lease; `SessOK` that an agent in the protocol has named a session.
- `MergedSinceGrant` adds `HeadOK`: while a session holds the lock, only its own merges have landed under a lease since
  the head its grant compared, and between that compare and the commit nobody's have. It takes `LeaseOK` to see this:
  an agent that lands under a lease acts for the holder, and none does while a grant is being written. Nothing is said
  of the heads of callers that are merely renewed; `MergeRenewal` shows why.
- `Warned` adds `VettedOK`: a session is vetted only for files it has claimed, and not before it starts.
- `DoneStays` is an action property, proved from `Inv`, one step for each action.
- `Implements`: `Merge` implements `LeasedLock`. The mapping takes the lock row for the holder and what is left of its
  term, and the agents inside the term they were promised for those that trust it. Every step maps to a step of the
  lock or to none: a commit of a grant to `Grant`, a commit of a renewal to `Renew`, `finish` and `abandon` of the
  holder to `Release`, a tick to `Age`, a crash, a refusal or a new question of an agent that had trust to `Forget`,
  all others to a stutter. `Inv` supplies that nobody trusts a row that is free or lapsed when a transaction hands it
  out, and `RenewOK`, added here, that a renewal about to be committed never shortens the row. `MergeSafety` checks
  the same mapping on its instance.

`TrackerProofs`, first about `Claims` alone, from `ClaimsAssumption`: `Typing`, `Freed`, `ReleaseKeepsOpen`,
`HolderKeeps`. The invariant adds `PrevIsLive`: a claim remembers a terminal status only if it was made late. Without
it a release could close a card.

Then about `Tracker`, from `TrackerAssumption` and `ClaimsAssumption`: `TrackerTyping`, `NoLeak`,
`TrackerFreesClosed`, `Visible`, `Dismissed`. `TrackerInv` joins the invariant of the claims, the types, `Fits` (the
unique index is true of the table), `Bounded` and `LookupsSuffice` itself. The lookups of add, import, update and
restore are safe only where `Fits` holds before them: an add that finds no live card of a fingerprint has seen the
whole table. And only with finitely many cards (`Bounded`) is there a next rowid and a newest closed card, which the
code finds by ORDER BY and the model by CHOOSE. For the primary key, `NextIdIsFree`: an id one past the number of the
row that CAST puts last is taken only where CAST and the regular expression disagree about some row (`TwoReadings`).
The writers of `Claims` meet the index too, in `Store`, so the rules of claims are proved again with the tracker's
writers among them.

`MilestonesProofs`, from `MilestonesAssumption`: `Typing`, `SlotsCovered`, `PullsLiveWork`, `ProjectionReachesStreams`,
`ReleasesAreTheirOwn`. The ledger is three counters for each agent, beside rows that most actions move in or out of
an assignment, so that a step compares cardinalities before and after. One argument serves all of them: freeing the
slots of some rows takes from no counter more than the agent had among these rows (`CountBySize`,
`FreedKeepsTheRest`). The invariant adds to `TypeOK` and `SlotsCoverAssignments` that a status is one of its kind of
entity and that an attachment names an entity that exists (`Anchored`), because `dismiss_item` writes the status of
the entity that the attachment names.

`SweepProofs`, from `SweepAssumption` and `NullAssumption`: `SweepTyping`, `OfferedAreUnfinished`,
`TransitionsAreDeclared`, `OrderStands`. `add_items` is a loop over its batch. `LoopInv` says what the first `k` upserts
have made of the rows; that it holds for the whole batch is an induction over the batch's places, argued by a least
place where it fails. `SweepInv` adds that positions are distinct and below the next one, and that `processed` says
what the state says (`FlagIsState`), without which `next_batch` could offer a finished item.

`BlockersProofs`, from `BlockersAssumption`:

- `CancelStands`, an action property: no call cancels or resolves a blocker that is cancelled by then, and none resolves
  it twice. At most one caller is between the read and the write of `resolve_blocker`, and the guards it passed are
  still true of the row it read. Neither half is inductive without the other: two callers inside could each decide the
  row the other read. That a resolved blocker is not cancelled is not claimed; `BlockersBoth` shows that it may be.
- `BlockersTyping`, `FallenStayFallen`, and `NoUnblockingIsLost`: an item that a call freed is told of by some call
  before all have returned. The report is made by queries at different moments, none of which is the moment of the
  write. `Owing` says that an item that is owed a report is free and that some call in progress covers it (`Covers`):
  it finished an entity that a row of the item waited for, or has the item on its list, or is looking at it and none
  of the rows it fetched has changed since. A row that does change in between makes the call lose the item and
  another call, the one that changed it, cover it.

`PartsProofs`, `WritersProofs` and `SearchProofs`, each extending the one before, from `PartsAssumption` (what the ten
parts assume of their constants: the ids and lines of the code are numbers, the null values are none of the values,
directories and cards are finitely many and no way up goes round). `Parts!Spec` lets one part move, so each part has
its own invariant, a lemma for each of its actions, and a theorem about `Spec`:

- `OnlyOptedInCreate` (`Discovery`): a call that may create is one that walked or initialised, from its look to its
  open, and the open of no other makes a file.
- `DeclarationsStand` (`Relations`): no two rows of the ledger clash and every row is canonical, a symmetric one with
  the lesser id first. The guards of `relate` look for the orientation they were given or the canonical one; without
  `Canonical` a row in the other orientation would slip past them.
- `CallerStaysInItsTransaction` (`Resolvers`): while a resolver runs, either the caller's transaction is at the bottom
  of the stack, the runner's savepoint on it and all that is above is the resolver's (`Nested`), or no savepoint of
  that name is left (`Lost`). In the first case the runner's release or rollback ends exactly there, in the second it
  finds no transaction or no savepoint, and the add is aborted. This is where the nonce in the name matters.
- `VerdictsStand` (`Provenance`), an action property: every answer in the cache is earned, for its own commit, and the
  probes so far have established what the next one relies on (`Staged`), which stays true when history grows because
  it is about the commits up to the batch's beginning, and is not claimed of the disk once something has moved.
- `DestinationIsWhole` (`Exports`): a writer in place is on the first file and knows the descriptors it shares with
  it; one that replaces has a file of its own, which nobody else has and which is not the destination before the
  move (`Apart`, `TempJob`); no other file has a confirmation in it.
- `RepairObeys` (`Recapture`), an action property. What a repair may write depends on the row as it was scanned, and
  the property on the row as it is; `Decided` keeps the decision beside the scanned row until the write, and the
  comparison in `_apply_recapture` makes the two rows the same.
- `RunsStayWhole` (`Bench`): what is committed is consistent, and what the holder of the write lock has changed of it
  so far is known at each of its statements (`Holding`): the new run without its rows, the doomed runs without
  theirs. A query relies on the rows of the runs it read staying, unless a deletion crossed it (`Relying`).
- `ArchiveStaysAtomic`: `Bench` implements `RunArchive`. The mapping (`Bench!Kept`) takes each committed run with the
  measurements in its rows; so a commit of an import maps to `Import`, a commit of a deletion to `DeleteRun` or
  `DeleteBenchmark`, and every other statement, refusal, rollback and query to a stutter (`OnlyCommitsShow`). `Aims`,
  added here, is what the holder of the lock set out to do, which it keeps to until the commit: a payload that was not
  refused, one id, or a benchmark. That runs are consistent (`RunsStayWhole`) makes the rows of a run the measurements
  of its import. `PartsSafety` checks the same mapping on its instance.

- `PassesAreCareful` (`Trailers`), an action property. `Planned` says that what a pass has before it is the trailers
  of its range that its plan has not reached, the newest commit first, so that the first one it meets of a card and a
  verb is the newest (`HeadIsNewest`). The plan is the commits' trailers one after another (`FlattenLays`, an
  induction over commits by a least place where the fold goes wrong). `Spoken` and `SettledFor` say of each citation
  that it has its answer: in a range that was done before, all have, and an edit that reopens a card takes no note
  away, which is why a second pass finds nothing to write. `Entitled` is what a pass between its two transactions
  still knows of the card it has read, if nobody touched it. The last part of the invariant counts: the copies of a
  note and the passes that may still write it (`Pending`) are together no more than the passes begun, which bounds the
  notes.
- `AnchorsStayHonest` (`Anchors`), an action property. `AllKnown`: a line of HEAD that has an identity has the text of
  the line of the anchored file with that identity, whatever moved HEAD. `Verifying`, which holds however HEAD moves
  between the calls: each file verified so far agreed with some HEAD since the resolution began, so that the first
  file's coordinate did. The content channel's coordinate is of the HEAD it looked in (`looked`), which is no older.
  `Still`: as long as `resolution.version` is HEAD's, the lines blamed are exactly what is left of the span (`Left`),
  and a search begins only when none is left or a call failed; nothing is claimed of them afterwards. Each step of a
  resolution then gives an honest answer or goes on in the invariant (`Advances`).
- `SearchesStayHonest` (`Discovery`, `Grouping`), on the recursive functions `Walk`, `Above`, `Enclosing`, `Find` and
  `Search`. TLA+ takes a recursive function for *some* function with that equation, so that there is one has to be
  shown: `TailRecursion` does it for any loop that only goes on, by the state it ends in, and each loop has a lemma
  that applies it; `Above`, which collects, is constructed directly (`WalkEquation`, `AboveEquation`,
  `EnclosingEquation`, `FindEquation`, `SearchEquation`). What a loop computes then follows by taking a state of least
  measure where it would be false. `WalkIsTrue`: a walk with nothing in `blind` finds what a walk that gets every
  answer finds, since both go the same way. `EnclosingIsTrue` is the same of the way up. For `Grouping` the invariant
  (`GroupingInv`) is that `parent` is a forest (`Tree`: a rank that decreases towards the root, which path halving
  keeps) whose roots `Follow` the edges taken so far: two cards share a root exactly if no set closed under these
  edges parts them. `LaidOut` is the invariant of the search by levels, and `CycleExists` finds the cycle that an
  orphaned card promises, at a card with as much below it as any.
- `PartsTyping`: the types of all ten, from the invariants above and, where a property needed less than the types
  (`Relations`, `Resolvers`, `Exports`), lemmas of their own.

Only model-checked, and why:

- `DeadHolderIsReclaimed`: liveness under fairness is out of the prover's reach.
- The six violations are counterexamples and need no proof.

## 6. What is not modelled

Queries, statistics, formatting and argument parsing change nothing; of the reports only those with an algorithm of
their own are modelled (`Grouping`, the reports of `Blockers`). Embeddings and the scores of `similarity.py` are
floating-point. Severities, priorities, dates inside a bucket, acceptance texts, tags, occurrence logs and audit rows
are data that no modelled guard reads, or reads only to refuse. A status-change hook that raises is not modelled: no
modelled hook can raise in a reachable state; a resolver or a read enricher that raises is. New milestones are not an
action: the set of milestones is a constant. Schema creation and migration happen before any call. What a path or a
line spelling parses to is an input (`Metas` of `Anchors`); hashes of texts are the texts. Usage counters and refusals
keep nothing that is read back. The shell scripts around git worktrees are outside the package and touch no table.

## 7. Plan

Done: `Merge` with `LeasedLock`, `Entities`/`Claims`, `Tracker`, `Milestones`, `Sweep`, `Blockers` and the ten parts,
checked, and all of their safety properties proved.

Next, in this order:

1. `Milestones` composed with `Blockers`, with a blockers query that fails and a hook that raises.
2. The rest of `findings.py` (occurrence logs, the category gate) and of `reqs.py` (verification against test files).
