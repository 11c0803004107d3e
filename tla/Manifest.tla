------------------------------ MODULE Manifest ------------------------------
(***************************************************************************)
(* The in-memory manifest of src/manifest.rs (struct Manifest), the        *)
(* change-set apply functions and the replay of a MANIFEST file, as pure   *)
(* operators.  ManifestFile.tla drives them from the file operations.      *)
(*                                                                         *)
(* A MANIFEST file is abstracted to whether its 8-byte header ("bdgr",     *)
(* version 2) is intact and its sequence of framed records.  A record is   *)
(* its decoded ManifestChangeSet and how it ends: whole, cut inside the    *)
(* 8-byte length/CRC frame, cut inside the payload, or complete in length  *)
(* but failing its CRC (a torn write the file system filled with zeros).   *)
(***************************************************************************)
EXTENDS Naturals, Sequences, FiniteSets, SequencesExt

CONSTANTS
  Ids,       \* table ids (u64, non-zero)
  MaxLevel,  \* highest LSM level used
  NoTable    \* the level of an id absent from `tables`

Lvls == 0 .. MaxLevel
ASSUME NoTable \notin Lvls

Ops == {"CREATE", "DELETE"}
Change == [op: Ops, id: Ids, level: Lvls]
Create(id, l) == [op |-> "CREATE", id |-> id, level |-> l]
Delete(id, l) == [op |-> "DELETE", id |-> id, level |-> l]

(* Manifest: tables (id -> level), levels (a Vec of id sets, nlevels long) *)
(* and the creations/deletions counters.                                  *)
ManifestT == [tables: [Ids -> Lvls \cup {NoTable}], nlevels: 0 .. MaxLevel + 1,
              levels: [Lvls -> SUBSET Ids], creations: Nat, deletions: Nat]

(* Manifest::new                                                           *)
EmptyManifest == [tables |-> [i \in Ids |-> NoTable], nlevels |-> 0,
                  levels |-> [l \in Lvls |-> {}], creations |-> 0, deletions |-> 0]

Live(m) == {i \in Ids : m.tables[i] # NoTable}

-----------------------------------------------------------------------------
(* apply_manifest_change.  The result is [m, err]: err is "ok", "exists"   *)
(* or "missing" (the Unexpected errors), or "panic" (a failed unwrap or    *)
(* assert); m is the manifest as the call leaves it.                       *)

(* CREATE: reject an id already present, grow `levels` up to the level,   *)
(* insert, count the creation.                                             *)
ApplyCreateMutant(m, c) ==
  IF m.tables[c.id] # NoTable THEN [m |-> m, err |-> "exists"]
  ELSE [m |-> [m EXCEPT !.tables[c.id] = c.level,
                        !.nlevels = IF @ > c.level THEN @ ELSE c.level + 2,
                        !.levels[c.level] = @ \cup {c.id},
                        !.creations = @ + 1],
        err |-> "ok"]
ApplyCreate(m, c) ==
  IF m.tables[c.id] # NoTable THEN [m |-> m, err |-> "exists"]
  ELSE [m |-> [m EXCEPT !.tables[c.id] = c.level,
                        !.nlevels = IF @ > c.level THEN @ ELSE c.level + 1,
                        !.levels[c.level] = @ \cup {c.id},
                        !.creations = @ + 1],
        err |-> "ok"]

(* DELETE: tables.remove first; an absent id is an error.  Then           *)
(* levels.get_mut(level).unwrap() and assert!(has) panic on a level past  *)
(* the end of `levels` or one not holding the id.  Deletions are not      *)
(* counted.                                                                *)
ApplyDelete(m, c) ==
  IF m.tables[c.id] = NoTable THEN [m |-> m, err |-> "missing"]
  ELSE LET removed == [m EXCEPT !.tables[c.id] = NoTable] IN
       IF c.level >= m.nlevels \/ c.id \notin m.levels[c.level]
         THEN [m |-> removed, err |-> "panic"]
         ELSE [m |-> [removed EXCEPT !.levels[c.level] = @ \ {c.id}], err |-> "ok"]

ApplyChange(m, c) ==
  IF c.op = "CREATE" THEN ApplyCreate(m, c) ELSE ApplyDelete(m, c)

(* apply_manifest_change_set: the changes in order, stopping at the first *)
(* error with the earlier changes left applied.                            *)
RECURSIVE ApplyFrom(_, _, _)
ApplyFrom(m, cs, i) ==
  IF i > Len(cs) THEN [m |-> m, err |-> "ok"]
  ELSE LET r == ApplyChange(m, cs[i]) IN
       IF r.err = "ok" THEN ApplyFrom(r.m, cs, i + 1) ELSE r

ApplyChangeSet(m, cs) == ApplyFrom(m, cs, 1)

(* Manifest::as_changes: a CREATE per live table, in HashMap order.        *)
AsChanges(m) == SetToSeq({Create(i, m.tables[i]) : i \in Live(m)})

-----------------------------------------------------------------------------
(* The file.                                                               *)

Ends == {"whole", "short_frame", "bad_crc", "short_payload"}
Record == [cs: Seq(Change), end: Ends]
File == [hdr: BOOLEAN, recs: Seq(Record)]

Whole(cs) == [cs |-> cs, end |-> "whole"]
EmptyFile == [hdr |-> FALSE, recs |-> << >>]

(* Length of ManifestChangeSet::write_to_bytes for small ids and levels:  *)
(* proto3 leaves out zero fields, so a change is a 2-byte entry frame, 2   *)
(* bytes of Id, and 2 more for a non-zero Level and for Op = DELETE.       *)
ChangeBytes(c) == 4 + (IF c.level # 0 THEN 2 ELSE 0) + (IF c.op = "DELETE" THEN 2 ELSE 0)

RECURSIVE PayloadBytes(_)
PayloadBytes(cs) == IF cs = << >> THEN 0 ELSE ChangeBytes(Head(cs)) + PayloadBytes(Tail(cs))

(* Manifest::replay_manifest_file.  Result [err, m, offset]: err is "ok",  *)
(* "badmagic", "corrupt" (an Unexpected error from apply) or "panic";      *)
(* offset is the end of the last record applied (trunc_offset).  A frame   *)
(* cut short is EOF and a CRC mismatch ends the loop; a payload cut short  *)
(* fails assert_eq!(sz, fp.read(&mut buffer)?).                            *)
RECURSIVE ReplayFrom(_, _, _, _)
ReplayFrom(recs, i, m, offset) ==
  IF i > Len(recs) THEN [err |-> "ok", m |-> m, offset |-> offset]
  ELSE LET r == recs[i] IN
    CASE r.end \in {"short_frame", "bad_crc"} -> [err |-> "ok", m |-> m, offset |-> offset]
      [] r.end = "short_payload" -> [err |-> "panic", m |-> m, offset |-> offset]
      [] r.end = "whole" ->
           LET a == ApplyChangeSet(m, r.cs) IN
           IF a.err = "ok" THEN ReplayFrom(recs, i + 1, a.m, offset + 8 + PayloadBytes(r.cs))
           ELSE [err |-> IF a.err = "panic" THEN "panic" ELSE "corrupt",
                 m |-> a.m, offset |-> offset]

Replay(f) ==
  IF ~f.hdr THEN [err |-> "badmagic", m |-> EmptyManifest, offset |-> 0]
  ELSE ReplayFrom(f.recs, 1, EmptyManifest, 8)

(* fp.set_len(trunc_offset): the records wholly before the offset stay.   *)
RECURSIVE KeepBytes(_, _)
KeepBytes(recs, n) ==
  IF recs = << >> \/ 8 + PayloadBytes(Head(recs).cs) > n THEN << >>
  ELSE << Head(recs) >> \o KeepBytes(Tail(recs), n - 8 - PayloadBytes(Head(recs).cs))

Truncate(f, offset) == [f EXCEPT !.recs = KeepBytes(@, offset - 8)]

-----------------------------------------------------------------------------
(* What spec.md says replay yields: records up to the first short read or *)
(* CRC mismatch are applied (section 4.6, section 7 "PartialRecord /       *)
(* CRCMismatch: stop replay at last good offset"); a CREATE of a present   *)
(* id or a DELETE of an id absent or at another level is a corruption      *)
(* error that refuses the open (sections 3.4 and 7).                       *)
SpecApply(tables, c) ==
  CASE c.op = "CREATE" /\ tables[c.id] = NoTable -> [tables EXCEPT ![c.id] = c.level]
    [] c.op = "DELETE" /\ tables[c.id] = c.level -> [tables EXCEPT ![c.id] = NoTable]
    [] OTHER -> NoTable

SpecReplay(f) ==
  LET good == {k \in DOMAIN f.recs : \A j \in 1 .. k : f.recs[j].end = "whole"}
      prefix == SubSeq(f.recs, 1, Cardinality(good))
      Step(acc, r) ==
        IF acc.err # "ok" THEN acc
        ELSE LET t == FoldLeft(LAMBDA tb, c : IF tb = NoTable THEN NoTable
                                              ELSE SpecApply(tb, c), acc.tables, r.cs)
             IN IF t = NoTable THEN [acc EXCEPT !.err = "corrupt"]
                ELSE [err |-> "ok", tables |-> t, offset |-> acc.offset + 8 + PayloadBytes(r.cs)]
  IN IF ~f.hdr THEN [err |-> "badmagic", tables |-> EmptyManifest.tables, offset |-> 0]
     ELSE FoldLeft(Step, [err |-> "ok", tables |-> EmptyManifest.tables, offset |-> 8], prefix)
=============================================================================
