# TLA+ models of badger-rs: skiplist memtable and MANIFEST

This directory holds TLA+ models of the two stateful parts of `src/`. Each is
checked with TLC.

| Part | Source | What it does |
|------|--------|--------------|
| Skiplist memtable | `src/src/skl/mod.rs` | A lock-free skiplist over an arena. Writers call `put`, which runs `_put` concurrently from many threads. Readers call `get`/`find_near`/`find_last`. The list's `height` and each node's tower are atomics, updated with CAS. |
| MANIFEST | `src/src/manifest.rs` | The in-memory `Manifest`: table id -> level, the per-level id sets, and the counters `creations`/`deletions`. Also the `ManifestFile`, which appends framed change sets to the MANIFEST file, replays the file on open, and rewrites it through `MANIFEST-REWRITE` + rename. |
| Test utilities | `src/src/test_util.rs` | Logging and temp dirs for tests. Not modelled. |

The two parts do not call each other in `src/`. The LSM levels that would
connect them are not in this repository. So each part is modelled by its own
module.

## Modules

| Module | Models | Composes |
|--------|--------|----------|
| `SkipList.tla` | `SkipList::new`, `put`/`_put`, `find_splice_for_level`, `find_near`, `find_last` | – |
| `KVMap.tla` | What the memtable promises: an atomic map on which each `put` and `get` takes effect at one instant between call and return | – |
| `RefCount.tla` | `SkipList::new`'s `_ref`, `incr_ref` through `new_cursor`, `decr_ref` through `SkipList::close`/`Cursor::close`, and the arena reset | – |
| `MCRefCount.tla` | An owner and three reader threads | `RefCount` |
| `MCSkipList.tla` | Model values and small sets for the skiplist runs | `SkipList` |
| `Manifest.tla` | `Manifest`, `apply_manifest_change(_set)`, `as_changes`, `replay_manifest_file` and the truncate of the open, all as pure operators. It also holds `SpecReplay`, the replay that spec.md describes, as a reference. | – |
| `ManifestFile.tla` | `help_open_or_create_manifest_file` (both paths), `add_changes` (change by change, under the per-change write lock), `rewrite`, `close`, a concurrent reader of the in-memory manifest, plus machine crashes and failing I/O calls | `Manifest` (EXTENDS) |
| `MCManifestFile.tla` | Ids, change sets and initial MANIFEST files for the runs | `ManifestFile` |

### SkipList.tla

**State.**

- `arena` is the nodes allocated so far. A node's offset is its index. Offset 0
  is null and offset 1 is the head node, which has key 0 (the empty key sorts
  first).
- `height` is `SkipList.height`.
- Per thread, the locals of `_put`: `lh` (list_height), `prev`, `next`, the
  level `lvl`, the search cursor `cur`, the new node `x` and its height `h`.
- `pc` says where the thread is.
- `panicAt` is the source line of a panic.
- Two history variables: `done` (the puts that returned) and `overlap` (other
  threads putting the same key at the same time).

**Steps.** Every atomic access of the code is one step. Thread-local work is
folded into the neighbouring atomic step.

| Action | Code |
|--------|------|
| `Start` | reading `list_height` and setting `prev[lh]` to the head (lines 343-347) |
| `Search` | one iteration of the top-down splice search (348-360). The overwrite branch is `OverwriteFound`. |
| `Alloc` | `random_height` and `Node::new` |
| `Raise` | the height CAS loop (366-380) |
| `Link` | storing the tower, then the tower CAS (400-410) |
| `HSplice` | the search from the head for levels above the old height (387-398) |
| `ReSplice` | the re-search after a failed CAS (412-424) |

A failed `unwrap` or assert moves only that thread to `panicked`. The other
threads keep going.

**Readers.** `FindNear` and `FindLast` are recursive operators that follow
`find_near` and `find_last` branch for branch, evaluated on every state.

`get` is also modelled step by step, interleaved with `_put`. Per reader,
`rpc`, `rkey`, `rx` (the cursor node), `rlevel` and `got` (the answer) are the
locals of `get`/`find_near(key, false, true)`:

| Action | Code |
|--------|------|
| `GetStart` | reading the head and `get_height()` (224-227) |
| `GetStep` | one loop iteration: one `get_next` load, then descend (`Descend`, 230-236), end of level 0 (`NotFound`, 238-240), move right, equal key found, or key below `next` (`LessThanNext`, 277-288) |
| `GetValue` | `get_value_offset` of the found node (`get`, 455-464) |

**Refinement.** `KVMapRefinement` checks `SkipList` against `KVMap`:

- the abstract map is the contents of level 0 (`LevelMap`);
- a put takes effect at its level-0 tower CAS, or at the value store when it
  overwrites (`WriterState`);
- a get takes effect at the step that decides its answer.

So every interleaving of a stepwise get with concurrent puts is linearizable.

### RefCount.tla

The skiplist's lifecycle is tracked by `_ref`.

- **State.** `ref` is `_ref`. Per holder, `st` is one of:
  - `none`;
  - `held`;
  - `resetting`: its `fetch_sub` saw an old value ≤ 1, and its
    `arena.reset()` is still to come;
  - `released`.

  `opened` counts the cursors each reader has opened, and `resets` counts the
  `arena.reset()` calls.
- **Steps.**
  - `NewCursor`: `incr_ref` and then `Cursor::new`. Only a thread that holds
    a reference, or works while another reference is held, may call it (spec
    §4.3).
  - `DecrRef`: the `fetch_sub` and the `old > 1` test.
  - `ResetArena`: the reset itself.

  `fetch_sub` and the reset are separate steps, so other threads open and
  close cursors in between. A reader may open and close up to `MaxCursors`
  cursors, one at a time.

### Manifest.tla and ManifestFile.tla

**The file.** A MANIFEST is abstracted to two things: whether its header is
intact, and its sequence of records. Each record is a change set plus how it
ends: `whole`; `short_frame` (cut in the length/CRC); `bad_crc`; or
`short_payload` (cut in the payload). Record sizes follow the proto3 encoding,
so `set_len(trunc_offset)` keeps exactly the records before the offset.

**State.**

- `file` is the MANIFEST as the process sees it. `disk` is what a crash
  leaves of the file the name MANIFEST refers to.
- `sync_all` copies `file` to `disk`.
- A rename (`Renamed`) puts the synced MANIFEST-REWRITE in place: `file` and
  `disk` become its content. The directory entry is not durable yet, so
  `oldDisk` keeps the MANIFEST the rename replaced (`Absent` on the create
  path). `sync_directory` (`CreateDirSync`) clears it. `ManifestFile::help_rewrite`
  has no directory sync ("TODO add directory sync"), so after a rewrite a
  crash may bring the old MANIFEST back even after later `sync_all`s.
- `pos` is the write position of the handle: `start` after open seeks to 0,
  `end` otherwise.
- `mem` is the in-memory `Manifest`, and `threshold` the deletions threshold.
- History variables: `acked` (the tables after the last acknowledged
  `add_changes`) and `pend` (the tables of the batch being written).

**Steps.**

- `OpenExisting`: replay, then truncate, then seek to 0. An error refuses the
  open and the process stays `failed`.
- `OpenCreate` → `CreateRename` → `CreateDirSync` → `CreateReopen`: the steps
  of `Manifest::help_rewrite`.
- `add_changes` runs in steps that follow its locking:
  - `AddChanges`: the call. `pre` records the manifest before the batch.
  - `AddApply`: one `apply_manifest_change` per step, each under its own
    write-lock acquisition. An error returns from `add_changes` with the
    earlier changes left applied. A panic (the `unwrap` or `assert!` of a
    DELETE at the wrong level, after `tables.remove`) unwinds the calling
    task. Either the process dies with it, or the task was one of many and
    the process lives on. In that case the shared `Arc<tokio::sync::RwLock>`
    keeps the half-done DELETE, since tokio's lock does not poison.
  - `AddWrite`: the deletions heuristic, then a rewrite or a record write.
- `ReadManifest`: a reader of the in-memory manifest, such as compaction
  choosing tables, copies it under the read lock at any time (spec §5).
- `AddSync`: `sync_all`, after which the batch is acknowledged.
- I/O errors (`IoFails`, at most `MaxIoErrors` per run):
  - A failing `write_all` may leave nothing or part of the record.
    `add_changes` then returns the error with the batch applied in memory.
  - A failing `sync_all` returns the error without acknowledging the batch.
  - A failing rename or reopen in `rewrite` returns the error with `fp` None
    (`ps = "nofp"`). The next `add_changes` that writes a record panics on the
    `unwrap` (`fpPanic`).
- A panic that kills the process does not crash the machine: unsynced bytes
  stay in the page cache.
- `CallRewrite` → `RewriteRename` → `RewriteReopen`: `ManifestFile::rewrite`.
- `Close`
- `Crash`: the machine loses what was not synced. A record appended after the
  last sync may survive whole, survive cut short in any of the three ways, or be
  lost. A rename not yet followed by a directory sync may be undone
  (`oldDisk`).

**Assumptions about code outside `src/`.** Both are documented in
`ManifestFile.tla`.

- `y::open_existing_synced_file` opens without `O_APPEND`.
- An absent MANIFEST takes the create path.

## Runs

| Run | cfg | Result | What it shows |
|-----|-----|--------|---------------|
| skl_concurrent_put | `MCSkipList.cfg` | pass, 56k states | 2 threads, keys {1,2,3}, towers ≤ 3, one put each. Every level stays sorted (`LevelsSorted`) and is a sublist of the level below (`TowerNested`). No returned insert is lost (`NoLostInsert`), and a returned put is visible with its value unless a put of the same key overlapped it (`PutVisible`). `find_near`/`find_last` agree with a reference over the base level for all 8 argument combinations (`SearchesCorrect`). Every put ends (`PutsTerminate`). |
| skl_overwrite_panics | `MCSkipList_overwrite.cfg` | violation | A put of a key already present panics at line 353 (`prev[i]` is still null). |
| skl_tall_tower_panics | `MCSkipList_talltower.cfg` | violation | A single put with a height-3 tower into a height-1 list panics at line 394 on the empty level 2. |
| skl_cas_retry_panics | `MCSkipList_retry.cfg` | violation | A lost tower CAS whose re-search reaches the end of the level panics at line 419 (the FIXME). |
| skl_get_refines_map | `MCSkipListGet.cfg` | pass, 1.04M states | One stepwise `get` racing two concurrent puts over keys {1,2,3}, towers ≤ 3: the skiplist implements the atomic map `KVMap` (`KVMapRefinement`), i.e. put and get are linearizable. |
| manifest_crash | `MCManifestFile.cfg` | pass, 346k states | Drives every manifest action: opens, accepted, rejected and panicking change sets applied change by change with a concurrent reader, rewrites whose rename a crash may undo, closes, up to 2 crashes and 1 failing I/O call. It checks `TypeOK`. Every deeper manifest property is broken by a bug and has its own violation run. |
| skl_refcount | `MCRefCount.cfg` | pass, 331 states | An owner and 3 readers, each opening and closing up to 2 cursors. The arena is reset exactly once, and only when no reference is held (`NoResetWhileHeld`, which is the `assert!(st.valid())` of `t_empty`). Once every holder has called `decr_ref`, the arena is eventually reset (`ResetWhenUnreferenced`). |
| manifest_reopen | `MCManifestFile_reopen.cfg` | violation | `ReopenRecovers`. The counterexample starts with no MANIFEST: `OpenCreate`, `CreateRename`, `CreateDirSync`, `CreateReopen`, `Close`, `OpenExisting`. The create path's reopen with `truncate(true)` (line 293) empties the MANIFEST it just renamed in, so the next open fails with BadMagic. |
| manifest_rejected_batch | `MCManifestFile_rejected.cfg` | violation | From the existing MANIFEST {1→0}, the batch `<<Create(2,1), Create(1,0), Create(1,0)>>` is rejected at its second change with `Create(2,1)` left applied in memory (`RejectedBatchNoEffect`). The same property covers a DELETE that panics in a task the process survives: its `tables.remove` stays applied. |
| manifest_reader_torn | `MCManifestFile_reader.cfg` | violation | A reader copies the in-memory manifest during a compaction move (`DELETE(1,0)`, `CREATE(1,1)`). Its copy has table 1 on no level (`ReaderSeesWholeChangeSets`), because the write lock is taken per change, not per change set. |
| manifest_fp_none_panics | `MCManifestFile_fpnone.cfg` | violation | A rewrite whose rename fails leaves `fp` None. The next `add_changes` panics on `fp.as_mut().unwrap()`, where spec §7 says I/O errors are propagated. |
| manifest_torn_tail | `MCManifestFile_torn.cfg` | violation | A record cut inside its payload makes replay panic on the `assert_eq!`. The spec says replay stops at the last good offset. |

Every property of a passing run is also checked against a mutant of the code it
is about. Each mutant is an operator named `…Mutant`, defined just before the
definition it replaces, and TLC finds the property broken:

| Mutant of | Bug it plants | Property that catches it |
|-----------|---------------|--------------------------|
| `SpliceBefore` | `<=` for `<` | `LevelsSorted` |
| `CasTower` | a CAS that always succeeds | `NoLostInsert` |
| `RetrySplice` | upper levels skipped on retry | `TowerNested` |
| `Successor` | returns the equal node | `SearchesCorrect` |
| `OverwriteFound` | returns without storing the value | `PutVisible` |
| `RereadHeight` | the height CAS loop does not re-read | `PutsTerminate` |
| `LinkedLevel` | the level loop is off by one | `TypeOK` |
| `LessThanNext` | a get that reports "absent" when its key is below `next` on an upper level, instead of descending | `KVMapRefinement` |
| `Released` (`ReleasedEarly`) | reset when the old count is ≤ 2 | `NoResetWhileHeld` |
| `Released` (`ReleasedNever`) | `decr_ref` never resets | `ResetWhenUnreferenced` |
| `ApplyCreate` | `levels` is grown one too many | `TypeOK` |

## Bounds

- **Skiplist.**
  - Two threads are enough for every race in `_put`. There is no step where
    three threads matter that two cannot show.
  - Height 3 is the least height at which a tower can sit two levels above the
    list (`HSplice`).
  - With one put per thread there are at most two nodes. Three keys let the
    second node land before or after the first, but never between two
    others, so a re-splice never moves right and then links.
  - One put per thread (`MaxPuts = 1`). Two puts per thread over keys
    {1,2,3} pass 1.8M states without finishing in four minutes, which is too
    long for a run. Two puts per thread over keys {1,2}
    and towers ≤ 2 also pass every property, at 404k states. With a reader
    added, that instance grows to 5.5M states and 14 minutes, so it is not a
    run. A second put of a present key takes the overwrite path, and
    `skl_overwrite_panics` shows that path.
  - `MaxHeight` is lowered from 20. The code's behaviour per level does not
    depend on it.
- **Manifest.**
  - Two ids on levels 0 and 1 cover `levels` growing, DELETE at the right and
    at the wrong level, and a repeated CREATE.
  - 3 calls and 2 crashes reach crash → reopen → write → crash.
  - One I/O error is enough to reach every error path once. Runs that check
    another bug set `MaxIoErrors = 0`, so that their counterexample stays the
    shortest one for that bug.
- **Refcount.** Three readers with two cursors each reach every order of
  opens and closes around the owner's release, including a reader's last
  `fetch_sub` racing another reader's open.
- **Reader.** One reader doing one get, against two puts, covers a get
  overtaking, being overtaken by, and straddling each put's links.

## Fairness

`SkipList` assumes weak fairness per thread over its non-`Start` steps. Each
caller of `put` is an OS thread that keeps being scheduled. Nothing forces a
new put to start. Each reader is weakly fair over its `GetStep`/`GetValue`, for
the same reason. The refinement is a safety property, so `KVMap` has no
fairness.

`RefCount` assumes weak fairness only for `ResetArena`. A thread that has
done its `fetch_sub` goes on to the reset, which is the next statement of
`decr_ref`. Closing a cursor or the skiplist is the caller's choice, so it is
not assumed; `ResetWhenUnreferenced` is conditioned on every holder having
closed. The manifest model has no liveness property and no fairness.

## Not modelled

- **Cursor navigation and the arena's reset/valid.** `seek`, `next`, `prev`,
  and `Arena::reset`/`valid` are in `cursor.rs` and `arena.rs`, which are not
  under `src/`. `RefCount` models only the counting.
- **Callers breaking the refcount rule.** A second close of the same cursor,
  or a cursor opened when no reference is held, is a caller bug by spec §4.3.
  `decr_ref` does not guard against either.
- **Arena capacity.** Same reason: the arena is outside `src/`.
- **Weak memory orders.** The tower CAS uses `Acquire` on success, so the new
  node's fields are not released. The model is sequentially consistent.
- **Readers other than `get`.** `find_near` in its other modes and `find_last`
  are checked as operators on each state, not step by step. Nothing in `src/`
  calls them concurrently.
- **`ManifestFile::open_or_create_manifest_file`.** It is private and never
  called.
- **The protobuf encoding.** Abstracted to its length.
- **Node value packing** (`encode_value`/`decode_value`). This packs a u32
  and a u16 into a u64. TLC's integers are 32-bit, so the packing cannot be
  checked.
- **Key lengths.** `Node::new` stores `key.len() as u16`, so keys of 64 KiB or
  more get a truncated `key_size`. The models' keys are naturals without a
  length. The hazard is listed in `PROJECT.json`.

## Bugs seen but not given a run

- **The seek to the start after open** (`manifest.rs:407`).
  `help_open_or_create_manifest_file` seeks to `Start(0)` after replay, so the
  next `add_changes` writes its record over the magic header, and the
  following open fails with BadMagic. `OpenExisting` models this (`pos =
  "start"`), and `ReopenRecovers` catches it: with `InitFiles <-
  MCExistingOnly` the `manifest_reopen` cfg shows this counterexample
  instead (open, add a batch, crash, reopen). Its trace is as long as the
  create-path one, and TLC reports the create-path one.
- **A panicking DELETE leaves tables and levels disagreeing**
  (`manifest.rs:353-366`). `tables.remove` runs before the `unwrap` and the
  `assert!`, so a task that panics there leaves the id gone from `tables` and
  still in the level set. A later `CREATE` of the id at another level puts it
  on two levels. Spec §3.4's invariant (an id is in the level set of its level
  and no other) then fails. `RejectedBatchNoEffect` already reports the
  half-done DELETE, so no run is spent on the invariant.
- **`deletions` is never counted.** The DELETE branch of
  `apply_manifest_change` (`manifest.rs:352`) never increments `deletions`.
  So the rewrite heuristic of `add_changes` never fires, and the rewrite arm
  of `AddWrite` is reached by no run. Scenario 3 of spec §9 shows this
  directly, so no model run is spent on it. `rewrite` is still reached through
  `CallRewrite`.

## Plan for later work

- The manifest file shown to refine a sequence of acknowledged change sets.
- The refcount and cursor model, if the arena source becomes available.
