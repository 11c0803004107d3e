--------------------------- MODULE MCManifestFile ---------------------------
EXTENDS ManifestFile

(* Two tables on levels 0 and 1.                                           *)
MCIds == {1, 2}

(* Change sets: accepted ones, a repeated CREATE rejected after its first  *)
(* change applied, DELETEs of a missing id and at a wrong level, and a    *)
(* compaction moving table 1 from level 0 to level 1.                     *)
MCBatches == { << Create(1, 0) >>, << Create(2, 1) >>, << Delete(1, 0) >>,
               << Delete(1, 0), Create(1, 1) >>,
               << Create(2, 1), Create(1, 0), Create(1, 0) >>,
               << Delete(2, 0) >> }

(* Only the compaction move, every change of which is accepted.           *)
MCMoveBatches == { << Delete(1, 0), Create(1, 1) >> }

(* An absent MANIFEST, and one a previous run left with one whole record. *)
MCInitFiles == { Absent, [hdr |-> TRUE, recs |-> << Whole(<< Create(1, 0) >>) >>] }

(* Each on its own.                                                        *)
MCAbsentOnly == { Absent }
MCExistingOnly == MCInitFiles \ { Absent }

(* ... and one whose last record was cut inside its payload.              *)
MCTornFiles == { [hdr |-> TRUE, recs |-> << Whole(<< Create(1, 0) >>),
                                            [cs |-> << Create(2, 1) >>, end |-> "short_payload"] >>] }
=============================================================================
