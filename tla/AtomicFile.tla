----------------------------- MODULE AtomicFile -----------------------------
(***************************************************************************)
(* A file that write_private_file_atomic replaces (hush-core/src/tls.rs):  *)
(* contents are written to a temporary file, synced and renamed over the   *)
(* path, and the directory is synced.  The temporary file is of its writer *)
(* alone, so the write begins with the rename.                             *)
(*                                                                         *)
(* `cur` is what the path names now, `synced` whether those contents are   *)
(* on disk, and `disk` what the directory on disk names.                   *)
(***************************************************************************)

CONSTANTS None,   \* no such file
          Torn    \* contents that were lost in part

ASSUME AtomicFileAssumption == None # Torn

Holding(v) == [cur |-> v, synced |-> TRUE, disk |-> v]

\* fs::rename of the temporary file, which was synced before.
Renamed(f, v) == [f EXCEPT !.cur = v, !.synced = TRUE]

\* What survives of the contents the path names.
Kept(f) == IF f.synced THEN f.cur ELSE Torn

\* sync_all on the parent directory.  Mutant: it is left out.
DirNotSynced(f) == f
DirSynced(f) == [f EXCEPT !.disk = Kept(f)]

\* Power loss: the directory entry is the old one or the new one.
AfterLoss(f) == {Holding(v) : v \in {f.disk, Kept(f)}}

=============================================================================
