--------------------------- MODULE FileIoCallers ---------------------------
(***************************************************************************)
(* FileIo.tla with its callers: one that makes every call, one that works  *)
(* as the code expects, and three that each leave out some of the          *)
(* conditions of that one.                                                 *)
(***************************************************************************)
EXTENDS FileIo

(***************************************************************************)
(* The callers of a run, of which it starts with any one:                  *)
(*   any      makes every call;                                            *)
(*   working  opens one database at a time, for writing, and overwrites    *)
(*            every file that is not a database, and whose files stay      *)
(*            shorter than Width (below 4 GB);                             *)
(*   long     has files of any length;                                     *)
(*   writing  does not overwrite;                                          *)
(*   several  opens several databases, each on its file.                   *)
(***************************************************************************)
CONSTANT Callers

VARIABLE caller

callers == <<vars, caller>>

OverwritesNew(f, overwrite) == files[f].lists \/ overwrite

\* The file will be, or is, of a size that is computed right.
OpensShort(f, overwrite) == files[f].blocks < Width \/ overwrite
GrowsShort(d) == \A n \in GrownSizes(dbs[d].nblocks) : n < Width

\* No other database is open, so no other holds descriptor 0.
OneAtATime == \A e \in Db : dbs[e] = NULL

\* No second database on a file: nothing locks it.
OneEach(f) == \A e \in Db : dbs[e] # NULL => dbs[e].file # f

MayOpen(f, readonly, overwrite) ==
  /\ caller # "any" => ~readonly
  /\ caller \in {"working", "long", "several"} => OverwritesNew(f, overwrite)
  /\ caller \in {"working", "long", "writing"} => OneAtATime
  /\ caller = "working" => OpensShort(f, overwrite)
  /\ caller = "several" => OneEach(f)

MayGrow(d) == caller = "working" => GrowsShort(d)

CallersInit == Init /\ caller \in Callers

CallersNext ==
  /\ UNCHANGED caller
  /\ \E d \in Db :
       \/ Calls(d)
       \/ Grow(d) /\ MayGrow(d)
       \/ \E f \in File, readonly, overwrite \in BOOLEAN :
            MayOpen(f, readonly, overwrite) /\ Opening(d, f, readonly, overwrite)

CallersSpec == CallersInit /\ [][CallersNext]_callers

\* A caller that works so finds every database it has mapped whole: its file
\* on its descriptor, as long as its mapping, with both lists (io_resize and
\* its failures, the error paths of edb_open).
WorkingOpenIsWhole == caller = "working" => OpenIsWhole
=============================================================================
