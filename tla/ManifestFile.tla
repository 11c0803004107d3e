---------------------------- MODULE ManifestFile ----------------------------
(***************************************************************************)
(* ManifestFile of src/manifest.rs: help_open_or_create_manifest_file,     *)
(* add_changes, rewrite and close, against a MANIFEST file whose writes    *)
(* sit in the page cache until sync_all makes them durable, a directory   *)
(* entry that a rename changes and only sync_directory makes durable, and *)
(* a machine that may crash between any two steps.                        *)
(*                                                                         *)
(* `file` is the MANIFEST the process sees, `disk` what survives a crash  *)
(* of the file the name MANIFEST now refers to, and `oldDisk` the file a  *)
(* crash brings back when a rename was not followed by a directory sync.  *)
(* MANIFEST-REWRITE is never read back, so only the content it carries    *)
(* into the rename is kept (`snap`).  The file handle's write position is  *)
(* "start" after open seeks to 0, "end" otherwise: the MANIFEST is opened  *)
(* read-write without O_APPEND, as y::open_existing_synced_file does in    *)
(* the Go original (that function is not in src/).                        *)
(***************************************************************************)
EXTENDS Manifest

CONSTANTS
  Absent,      \* no MANIFEST in the directory
  NoMem,       \* no ManifestFile in memory (process not running)
  InitFiles,   \* MANIFESTs the directory may hold at start
  Batches,     \* change sets callers pass to add_changes
  Threshold,   \* the deletions_threshold argument of the open
  MaxOps,      \* add_changes and rewrite calls per run
  MaxCrashes,  \* machine crashes per run
  MaxIoErrors  \* failing I/O calls per run

ASSUME InitFiles \subseteq File \cup {Absent}

VARIABLES
  disk,       \* MANIFEST as it would be found after a crash
  oldDisk,    \* the MANIFEST an un-synced rename replaced (Absent if none), or NoMem
  file,       \* MANIFEST as the running process sees it
  mem,        \* ManifestFile.manifest, or NoMem
  ps,         \* the process: down, failed, open, or inside a call
  pos,        \* write position of ManifestFile.fp
  threshold,  \* deletions_rewrite_threshold
  snap,       \* content written to MANIFEST-REWRITE by help_rewrite
  afterRw,    \* where a running rewrite returns to
  ops,        \* calls made
  crashes,    \* crashes so far
  acked,      \* history: tables after the last acknowledged change set
  pend,       \* history: tables after the change set being written, or NoMem
  ioErrs,     \* I/O calls that have failed so far
  fpPanic,    \* history: add_changes panicked unwrapping a None fp
  cur,        \* the add_changes call: its change set, the next change, whether fp was Some
  pre,        \* history: the manifest before the change set being applied
  seen        \* the copy of the manifest a reader last took, or NoMem

vars == <<disk, oldDisk, file, mem, ps, pos, threshold, snap, afterRw, ops, crashes,
          acked, pend, ioErrs, fpPanic, cur, pre, seen>>

call == <<cur, pre>>

Init ==
  /\ disk \in InitFiles
  /\ file = disk
  /\ oldDisk = NoMem
  /\ mem = NoMem
  /\ ps = "down"
  /\ pos = "end"
  /\ threshold = 0
  /\ snap = EmptyFile
  /\ afterRw = "open"
  /\ ops = 0
  /\ crashes = 0
  /\ acked = IF disk = Absent THEN EmptyManifest.tables ELSE SpecReplay(disk).tables
  /\ pend = NoMem
  /\ ioErrs = 0
  /\ fpPanic = FALSE
  /\ cur = NoMem
  /\ pre = NoMem
  /\ seen = NoMem

(* A write of one record at the handle's position.  At "start" it lands  *)
(* on the header, so the file no longer starts with the magic.            *)
WriteRecord(f, p, r) ==
  IF p = "end" THEN [f EXCEPT !.recs = Append(@, r)]
  ELSE [hdr |-> FALSE, recs |-> << r >>]

(* What a crash may leave of `f` when `d` is durable: either one, or `d`  *)
(* with the one record `f` appended cut short in any way.                  *)
Persisted(d, f) ==
  {d, f} \cup
  IF d # Absent /\ f # Absent /\ f.hdr = d.hdr /\ Len(f.recs) = Len(d.recs) + 1
     /\ SubSeq(f.recs, 1, Len(d.recs)) = d.recs
  THEN {[d EXCEPT !.recs = Append(@, [f.recs[Len(f.recs)] EXCEPT !.end = e])] :
          e \in Ends \ {"whole"}}
  ELSE {}

(* help_rewrite, first part: MANIFEST-REWRITE gets the header and one     *)
(* record of Manifest::as_changes, and is synced.                          *)
RewriteContent(m) == [hdr |-> TRUE, recs |-> << Whole(AsChanges(m)) >>]

-----------------------------------------------------------------------------
(* help_open_or_create_manifest_file with an existing MANIFEST: replay,   *)
(* an error or panic refuses the open; else set_len(trunc_offset) and      *)
(* seek(SeekFrom::Start(0)).                                               *)
OpenExisting ==
  /\ ps = "down"
  /\ file # Absent
  /\ LET r == Replay(file) IN
     IF r.err # "ok"
       THEN /\ ps' = "failed"
            /\ UNCHANGED <<file, mem, pos, threshold, ioErrs, fpPanic>>
       ELSE /\ mem' = r.m
            /\ file' = Truncate(file, r.offset)
            /\ pos' = "start"
            /\ threshold' = Threshold
            /\ ps' = "open"
  /\ UNCHANGED <<disk, oldDisk, snap, afterRw, ops, crashes, acked, pend, ioErrs, fpPanic, call, seen>>

(* ... without one: Manifest::help_rewrite of an empty manifest.           *)
OpenCreate ==
  /\ ps = "down"
  /\ file = Absent
  /\ snap' = RewriteContent(EmptyManifest)
  /\ ps' = "create_rename"
  /\ UNCHANGED <<disk, oldDisk, file, mem, pos, threshold, afterRw, ops, crashes, acked, pend, ioErrs, fpPanic, call, seen>>

(* A rename over MANIFEST of the synced MANIFEST-REWRITE: the new file's  *)
(* content is durable, the directory entry is not until a directory sync; *)
(* until then a crash may bring back the MANIFEST the first such rename   *)
(* replaced.                                                               *)
Renamed(content) ==
  /\ file' = content
  /\ disk' = content
  /\ oldDisk' = IF oldDisk = NoMem THEN disk ELSE oldDisk

(* rename(MANIFEST-REWRITE, MANIFEST).                                     *)
CreateRename ==
  /\ ps = "create_rename"
  /\ Renamed(snap)
  /\ ps' = "create_dirsync"
  /\ UNCHANGED <<mem, pos, threshold, snap, afterRw, ops, crashes, acked, pend, ioErrs, fpPanic, call, seen>>

(* sync_directory(dir) makes the rename durable.                           *)
CreateDirSync ==
  /\ ps = "create_dirsync"
  /\ oldDisk' = NoMem
  /\ ps' = "create_reopen"
  /\ UNCHANGED <<disk, file, mem, pos, threshold, snap, afterRw, ops, crashes, acked, pend, ioErrs, fpPanic, call, seen>>

(* MANIFEST reopened with .truncate(true); the ManifestFile gets the      *)
(* default threshold 0.                                                    *)
CreateReopen ==
  /\ ps = "create_reopen"
  /\ file' = EmptyFile
  /\ pos' = "end"
  /\ mem' = EmptyManifest
  /\ threshold' = 0
  /\ ps' = "open"
  /\ UNCHANGED <<disk, oldDisk, snap, afterRw, ops, crashes, acked, pend, ioErrs, fpPanic, call, seen>>

-----------------------------------------------------------------------------
(* An I/O call (write_all, sync_all, open, rename) returns an error.       *)
IoFails == ioErrs < MaxIoErrors /\ ioErrs' = ioErrs + 1

(* What write_all may leave when it fails: nothing, or part of the record. *)
FailedWrites(f, p, cs) ==
  {f} \cup {WriteRecord(f, p, [cs |-> cs, end |-> e]) : e \in Ends \ {"whole"}}

(* add_changes, called with fp Some or None (after a failed rewrite).     *)
AddChanges(cs) ==
  /\ ps \in {"open", "nofp"}
  /\ ops < MaxOps
  /\ ops' = ops + 1
  /\ cur' = [cs |-> cs, i |-> 1, fp |-> ps = "open"]
  /\ pre' = mem
  /\ ps' = "applying"
  /\ UNCHANGED <<disk, oldDisk, file, mem, pos, threshold, snap, afterRw, crashes, acked, pend,
                 ioErrs, fpPanic, seen>>

(* apply_manifest_change_set: one apply_manifest_change, which takes the  *)
(* manifest's write lock for that change alone.  An error returns from    *)
(* add_changes with the earlier changes left applied.  A panic (the       *)
(* unwrap or assert of a DELETE) unwinds the calling task: the process    *)
(* dies with it, or, the task being one of many, lives on with the shared *)
(* Arc<RwLock<Manifest>> as the DELETE left it (tokio's lock does not     *)
(* poison) and the ManifestFile as before the call.                        *)
AddApply ==
  LET r == ApplyChange(mem, cur.cs[cur.i])
      returned == IF cur.fp THEN "open" ELSE "nofp"
  IN
  /\ ps = "applying"
  /\ CASE r.err = "panic"    -> (mem' = NoMem /\ ps' = "down") \/ (mem' = r.m /\ ps' = returned)
       [] r.err # "ok"       -> mem' = r.m /\ ps' = returned
       [] cur.i < Len(cur.cs) -> mem' = r.m /\ UNCHANGED ps
       [] OTHER              -> mem' = r.m /\ ps' = "add_write"
  /\ cur' = IF r.err = "ok" /\ cur.i < Len(cur.cs) THEN [cur EXCEPT !.i = @ + 1] ELSE cur
  /\ UNCHANGED <<disk, oldDisk, file, pos, threshold, snap, afterRw, ops, crashes, acked, pend,
                 ioErrs, fpPanic, pre, seen>>

(* The rest of add_changes: the deletions heuristic under the read lock,  *)
(* then rewrite, or one framed record written at the handle's position.   *)
(* With fp None, fp.as_mut().unwrap() panics; a failed write_all returns  *)
(* the error with the change set applied in memory.                       *)
AddWrite ==
  LET rewrite == /\ mem.deletions > threshold
                 /\ mem.deletions > 10 * (mem.creations - mem.deletions)
  IN
  /\ ps = "add_write"
  /\ CASE rewrite ->
            /\ pend' = mem.tables
            /\ snap' = RewriteContent(mem)
            /\ afterRw' = "add_sync"
            /\ ps' = "rw_rename"
            /\ UNCHANGED <<disk, file, mem, pos, ioErrs, fpPanic>>
       [] ~cur.fp ->
            /\ mem' = NoMem
            /\ ps' = "down"
            /\ fpPanic' = TRUE
            /\ UNCHANGED <<disk, file, pos, snap, afterRw, pend, ioErrs>>
       [] OTHER ->
            /\ \/ /\ file' = WriteRecord(file, pos, Whole(cur.cs))
                  /\ pend' = mem.tables
                  /\ ps' = "add_sync"
                  /\ UNCHANGED ioErrs
               \/ /\ IoFails
                  /\ file' \in FailedWrites(file, pos, cur.cs)
                  /\ ps' = "open"
                  /\ UNCHANGED pend
            /\ pos' = IF file' = file THEN pos ELSE "end"
            /\ UNCHANGED <<disk, mem, snap, afterRw, fpPanic>>
  /\ UNCHANGED <<oldDisk, threshold, ops, crashes, acked, cur, pre, seen>>

(* A reader of the in-memory manifest (compaction choosing tables) takes  *)
(* the read lock and copies it, concurrently with add_changes (spec 5).   *)
ReadManifest ==
  /\ mem # NoMem
  /\ seen' = mem
  /\ UNCHANGED <<disk, oldDisk, file, mem, ps, pos, threshold, snap, afterRw, ops, crashes,
                 acked, pend, ioErrs, fpPanic, cur, pre>>

(* fp.sync_all(): add_changes returns Ok, or the error of the sync.        *)
AddSync ==
  /\ ps = "add_sync"
  /\ \/ /\ disk' = file
        /\ acked' = mem.tables
        /\ pend' = NoMem
        /\ UNCHANGED ioErrs
     \/ /\ IoFails
        /\ UNCHANGED <<disk, acked, pend>>
  /\ ps' = "open"
  /\ UNCHANGED <<oldDisk, file, mem, pos, threshold, snap, afterRw, ops, crashes, fpPanic, call, seen>>

(* ManifestFile::rewrite called by its user: fp.take(), then              *)
(* ManifestFile::help_rewrite writes and syncs MANIFEST-REWRITE.           *)
CallRewrite ==
  /\ ps \in {"open", "nofp"}
  /\ ops < MaxOps
  /\ ops' = ops + 1
  /\ snap' = RewriteContent(mem)
  /\ afterRw' = "open"
  /\ ps' = "rw_rename"
  /\ UNCHANGED <<disk, oldDisk, file, mem, pos, threshold, crashes, acked, pend, ioErrs, fpPanic, call, seen>>

(* rename over MANIFEST; this help_rewrite has no directory sync.  An     *)
(* error here or before it (creating, writing or syncing the REWRITE file) *)
(* returns from rewrite with fp left None.                                 *)
RewriteRename ==
  /\ ps = "rw_rename"
  /\ \/ /\ Renamed(snap)
        /\ ps' = "rw_reopen"
        /\ UNCHANGED ioErrs
     \/ /\ IoFails
        /\ ps' = "nofp"
        /\ UNCHANGED <<file, disk, oldDisk>>
  /\ UNCHANGED <<mem, pos, threshold, snap, afterRw, ops, crashes, acked, pend, fpPanic, call, seen>>

(* MANIFEST reopened with .truncate(true); creations = live tables,       *)
(* deletions = 0.  If the open fails, fp stays None.                       *)
RewriteReopen ==
  /\ ps = "rw_reopen"
  /\ \/ /\ file' = EmptyFile
        /\ pos' = "end"
        /\ mem' = [mem EXCEPT !.creations = Cardinality(Live(mem)), !.deletions = 0]
        /\ ps' = afterRw
        /\ UNCHANGED ioErrs
     \/ /\ IoFails
        /\ ps' = "nofp"
        /\ UNCHANGED <<file, pos, mem>>
  /\ UNCHANGED <<disk, oldDisk, threshold, snap, afterRw, ops, crashes, acked, pend, fpPanic, call, seen>>

(* ManifestFile::close: fp.take(), without a sync.                         *)
Close ==
  /\ ps \in {"open", "nofp"}
  /\ mem' = NoMem
  /\ ps' = "down"
  /\ UNCHANGED <<disk, oldDisk, file, pos, threshold, snap, afterRw, ops, crashes, acked, pend, ioErrs, fpPanic, call, seen>>

(* The machine crashes: what was not synced may be lost or cut short,     *)
(* and a rename not followed by a directory sync may be undone.           *)
Crash ==
  /\ ps # "failed"
  /\ crashes < MaxCrashes
  /\ disk' \in Persisted(disk, file) \cup (IF oldDisk = NoMem THEN {} ELSE {oldDisk})
  /\ oldDisk' = NoMem
  /\ file' = disk'
  /\ mem' = NoMem
  /\ ps' = "down"
  /\ crashes' = crashes + 1
  /\ UNCHANGED <<pos, threshold, snap, afterRw, ops, acked, pend, ioErrs, fpPanic, call, seen>>

(* The open was refused: the process stays down.                          *)
Stop ==
  /\ ps = "failed"
  /\ UNCHANGED vars

Next ==
  \/ OpenExisting \/ OpenCreate \/ CreateRename \/ CreateDirSync \/ CreateReopen
  \/ \E cs \in Batches : AddChanges(cs)
  \/ AddApply \/ AddWrite \/ ReadManifest
  \/ AddSync \/ CallRewrite \/ RewriteRename \/ RewriteReopen
  \/ Close \/ Crash \/ Stop

Spec == Init /\ [][Next]_vars

-----------------------------------------------------------------------------
(* Properties.                                                             *)

TypeOK ==
  /\ disk \in File \cup {Absent}
  /\ oldDisk \in File \cup {Absent, NoMem}
  /\ file \in File \cup {Absent}
  /\ mem \in ManifestT \cup {NoMem}
  /\ ps \in {"down", "failed", "open", "create_rename", "create_dirsync",
             "create_reopen", "add_sync", "rw_rename", "rw_reopen", "nofp",
             "applying", "add_write"}
  /\ ops \in 0 .. MaxOps
  /\ ioErrs \in 0 .. MaxIoErrors
  /\ fpPanic \in BOOLEAN

(* Spec 8: opening an existing MANIFEST succeeds and yields the tables of *)
(* the last acknowledged add_changes (or of the change set whose write a  *)
(* crash interrupted).                                                     *)
ReopenRecovers ==
  [][ps = "down" /\ ps' # "down" /\ file # Absent
       => /\ ps' = "open"
          /\ mem'.tables \in {acked} \cup (IF pend = NoMem THEN {} ELSE {pend})]_vars

(* Spec 4.6: "if that fails, the batch is rejected": an add_changes that  *)
(* returns an error, or whose task panics in apply_manifest_change while   *)
(* the process lives on, leaves the in-memory manifest as it was.          *)
RejectedBatchNoEffect ==
  [][(ps \in {"applying", "add_write"} /\ ps' \in {"open", "nofp"}) => mem' = pre]_vars

(* Spec 4.6 and 7: replay of a MANIFEST with a torn tail stops at the     *)
(* last whole record, and only a bad header or a change breaking the      *)
(* manifest invariants refuses the open.                                   *)
ReplayMatchesSpec ==
  file # Absent =>
    LET r == Replay(file)
        s == SpecReplay(file)
    IN /\ r.err = s.err
       /\ r.err = "ok" => r.m.tables = s.tables /\ r.offset = s.offset

(* The Manifest doc comment: each ManifestChangeSet "is treated            *)
(* atomically", and spec 5 lets readers of the in-memory manifest run     *)
(* concurrently with add_changes under a reader-writer discipline: a      *)
(* reader's copy, taken while a change set is being applied, is the       *)
(* manifest before that change set (never a manifest with part of it).    *)
ReaderSeesWholeChangeSets ==
  [][ps = "applying" /\ seen' # seen => seen' = pre]_vars

(* Spec 7 and 4.6: an I/O error of disk write, fsync or rename is         *)
(* propagated to the caller.  A rewrite whose rename or reopen failed     *)
(* returns the error with fp left None; no later add_changes may then      *)
(* panic on fp.as_mut().unwrap().                                          *)
FpNoUnwrapPanic == ~fpPanic
=============================================================================
