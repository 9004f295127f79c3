------------------------------- MODULE FileIo -------------------------------
(***************************************************************************)
(* Opening, closing and resizing: edb_open, edb_close, io_open, io_close,  *)
(* io_resize, and the calls that resize the file in a transaction.  Here a *)
(* process may have several databases open, on several files, and what     *)
(* counts is descriptors, sizes and protections; what the blocks hold is   *)
(* only whether the two root lists are there.                              *)
(*                                                                         *)
(* Sizes are in blocks.  io_resize computes the size in bytes in a u32,    *)
(* so in blocks modulo 2^20, here modulo Width.  Files may be longer than  *)
(* that, though not so long (2^32 - 256 blocks) that io_resize refuses.    *)
(***************************************************************************)
EXTENDS Integers

CONSTANTS
  File, Db,     \* the names of files, and the caller's edb pointers
  NULL,         \* a pointer to no database
  Fd,           \* the descriptors a process may have, from 0 on
  Width,        \* blocks a 32-bit size in bytes can express
  DiskSize      \* the longest file the disk can hold

EDB_USER_DATA == 4

Free == "free"
Host == "host"              \* the program's own: its standard input

\* An edb structure: its descriptor and the file it was opened for, what the
\* caller asked for and what db->readonly says, the blocks mapped, and the
\* transaction.
Edb == [h_file : Fd, file : File, asked : BOOLEAN, readonly : BOOLEAN,
        nblocks : Nat, txn : BOOLEAN, ts_nblocks : Nat]

ASSUME FileIoAssumption ==
  /\ Width \in Nat /\ Width > 5 /\ DiskSize \in Nat /\ DiskSize >= 5
  /\ Fd \subseteq Nat /\ 0 \in Fd
  /\ {Free, Host} \cap File = {} /\ NULL \notin Edb

VARIABLES
  files,        \* length of each file, -1 when there is none; whether its
                \* last block is whole; whether it holds the two root lists
  fds,          \* what each descriptor of the process is open on
  dbs,          \* the edb structures
  rc            \* what the last call returned

vars == <<files, fds, dbs, rc>>

OK == 0
ERROR == -1                 \* one of io.c's codes
EDB_ERROR_OPEN_TXN == 1003
EDB_ERROR_READ_ONLY == 1004
SIGSEGV == -2               \* no return: the process is gone

Absent == [blocks |-> -1, ragged |-> FALSE, lists |-> FALSE]
Empty == [blocks |-> 0, ragged |-> FALSE, lists |-> FALSE]

-----------------------------------------------------------------------------
(***************************************************************************)
(* io.c.                                                                   *)
(***************************************************************************)

FileSize(n) == n % Width

\* A file cut to n blocks, or filled with zeroes up to n.
Cut(file, n) == [file EXCEPT !.blocks = n, !.lists = @ /\ n >= EDB_USER_DATA]
Filled(file, n) == [file EXCEPT !.blocks = IF @ < n THEN n ELSE @]

\* What io_resize(n) does to the file when its calls succeed: it compares
\* the new size with db->filesize.
Resized(file, filesize, n) ==
  IF filesize < FileSize(n) THEN Filled(file, FileSize(n))
  ELSE IF filesize > FileSize(n) THEN Cut(file, FileSize(n))
  ELSE file

\* What it may have done to the file when one of them fails.
HalfResized(file, filesize, n) == {file, Resized(file, filesize, n)}

\* Space and descriptor allow posix_fallocate or ftruncate to succeed,
CanChange(filesize, n, writable) ==
  /\ filesize # FileSize(n) => writable
  /\ FileSize(n) <= DiskSize

\* and so does mmap: a mapping has at least one block.
CanResize(filesize, n, writable) ==
  FileSize(n) > 0 /\ CanChange(filesize, n, writable)

\* The file after open(2): O_CREAT always, O_TRUNC to overwrite.
OpenedFile(f, overwrite) ==
  IF overwrite \/ files[f].blocks < 0 THEN Empty ELSE files[f]

\* Mutant: every file is opened with the size of a new database.
NewSize(file) == EDB_USER_DATA

\* io_open is to map the whole file, or one block of an empty one.
InitialSize(file) == IF file.blocks = 0 THEN 1 ELSE file.blocks

\* The lowest descriptor that is free.
FreeFds == {i \in Fd : fds[i] = Free}
Lowest == CHOOSE i \in FreeFds : \A j \in FreeFds : i <= j

\* io_open fails: the flags contradict each other, or open(2) fails, or what
\* comes after it does, when the file has been created, truncated or resized.
IoOpenFails(f, readonly, overwrite) ==
  \/ UNCHANGED files
  \/ /\ FreeFds # {} /\ ~(readonly /\ overwrite)
     /\ LET file == OpenedFile(f, overwrite) IN
          \/ files' = [files EXCEPT ![f] = file]
          \/ /\ ~file.ragged
             /\ CanChange(file.blocks, InitialSize(file), ~readonly)
             /\ files' = [files EXCEPT ![f] =
                            Resized(file, file.blocks, InitialSize(file))]

\* io_open succeeds, and this is the file it leaves.
IoOpens(f, readonly, overwrite) ==
  /\ FreeFds # {} /\ ~(readonly /\ overwrite)
  /\ LET file == OpenedFile(f, overwrite) IN
       ~file.ragged /\ CanResize(file.blocks, InitialSize(file), ~readonly)

IoOpened(f, overwrite) ==
  LET file == OpenedFile(f, overwrite) IN
    Resized(file, file.blocks, InitialSize(file))

-----------------------------------------------------------------------------
(***************************************************************************)
(* edb.c.                                                                  *)
(***************************************************************************)

\* Mutant: edb_open returns the error of edb_init and closes nothing.
CloseNot(f) == UNCHANGED dbs /\ fds' = [fds EXCEPT ![Lowest] = f]

\* edb_open's error path after io_open has succeeded closes its descriptor.
CloseAgain(f) == UNCHANGED <<dbs, fds>>

\* edb_open's error path after io_open has failed: io_open closed what it
\* had opened and cleared the structure, so h_file is 0 in a second io_close.
CloseZero == UNCHANGED dbs /\ fds' = [fds EXCEPT ![0] = Free]

OpenFails(d, f, readonly, overwrite) ==
  /\ dbs[d] = NULL
  /\ IoOpenFails(f, readonly, overwrite)
  /\ CloseZero
  /\ rc' = ERROR

\* The file edb_init maps: that of io_open, with room for the roots.
Root4(f) == Resized(IoOpened(f, TRUE), FileSize(1), EDB_USER_DATA)

InitFails(d, f) ==
  /\ dbs[d] = NULL
  /\ IoOpens(f, FALSE, TRUE)
  /\ files' \in {[files EXCEPT ![f] = h] :
                   h \in HalfResized(IoOpened(f, TRUE), FileSize(1),
                                     EDB_USER_DATA)}
  /\ CloseAgain(f)
  /\ rc' = ERROR

\* readonly is what the caller asked for: it decides the protection of this
\* mapping.  db->readonly is 0 whatever the caller asked, for `readonly = 0'
\* in the condition is an assignment, and with it a new file that is not to
\* be overwritten is not initialised.  nblocks is what io_open computed from
\* the file's length, whatever io_resize made of it.
edb_open(d, f, readonly, overwrite) ==
  /\ dbs[d] = NULL
  /\ IoOpens(f, readonly, overwrite)
  /\ files' = [files EXCEPT ![f] = IF overwrite
                                   THEN [Root4(f) EXCEPT !.lists = TRUE]
                                   ELSE IoOpened(f, FALSE)]
  /\ fds' = [fds EXCEPT ![Lowest] = f]
  /\ dbs' = [dbs EXCEPT ![d] =
       [h_file |-> Lowest, file |-> f, asked |-> readonly, readonly |-> FALSE,
        nblocks |-> IF overwrite THEN EDB_USER_DATA
                    ELSE InitialSize(OpenedFile(f, FALSE)),
        txn |-> FALSE, ts_nblocks |-> 0]]
  /\ rc' = OK

\* io_close: whatever is open on that descriptor by now.
edb_close(d) ==
  /\ dbs[d] # NULL
  /\ \/ dbs[d].txn /\ rc' = EDB_ERROR_OPEN_TXN /\ UNCHANGED <<files, fds, dbs>>
     \/ /\ ~dbs[d].txn /\ rc' = OK
        /\ fds' = [fds EXCEPT ![dbs[d].h_file] = Free]
        /\ dbs' = [dbs EXCEPT ![d] = NULL]
        /\ UNCHANGED files

\* Block b is in the mapping, which may be written, and in the file.
CanStore(d, b) ==
  LET db == dbs[d] IN
    /\ ~db.asked
    /\ b < FileSize(db.nblocks) /\ b < files[db.file].blocks

\* txn_begin copies the free list from block 1 to block 2.
edb_txn_begin(d) ==
  /\ dbs[d] # NULL /\ ~dbs[d].txn
  /\ \/ dbs[d].readonly /\ rc' = EDB_ERROR_READ_ONLY /\ UNCHANGED dbs
     \/ /\ ~dbs[d].readonly /\ CanStore(d, 1) /\ CanStore(d, 2)
        /\ dbs' = [dbs EXCEPT ![d].txn = TRUE, ![d].ts_nblocks = dbs[d].nblocks]
        /\ rc' = OK
  /\ UNCHANGED <<files, fds>>

\* A store that the mapping does not allow ends the process, and the kernel
\* closes what it had open.
BeginFaults(d) ==
  /\ dbs[d] # NULL /\ ~dbs[d].txn /\ ~dbs[d].readonly
  /\ ~(CanStore(d, 1) /\ CanStore(d, 2))
  /\ dbs' = [e \in Db |-> NULL]
  /\ fds' = [i \in Fd |-> IF i = 0 THEN Host ELSE Free]
  /\ rc' = SIGSEGV
  /\ UNCHANGED files

\* io_resize(n) on d's descriptor.  The mapping stays on the file that was
\* opened, the system calls go to whatever the descriptor is open on now.
Target(d) == fds[dbs[d].h_file]

\* Mutant: after a failure the old size is kept.
SizeKept(d) == UNCHANGED dbs

\* Mutant: the transaction ends with the mapping.
UnmappedEnds(d) == dbs' = [dbs EXCEPT ![d].nblocks = 0, ![d].txn = FALSE]

\* The error path: nothing is mapped, whatever there was before.
Unmapped(d) == dbs' = [dbs EXCEPT ![d].nblocks = 0]

io_resize(d, n) ==
  \/ /\ Target(d) \in File
     /\ LET size == FileSize(dbs[d].nblocks)
            file == files[Target(d)] IN
          \/ /\ CanResize(size, n, TRUE)
             /\ files' = [files EXCEPT ![Target(d)] = Resized(file, size, n)]
             /\ dbs' = [dbs EXCEPT ![d].nblocks = n]
             /\ rc' = OK
          \/ /\ files' \in {[files EXCEPT ![Target(d)] = h] :
                              h \in HalfResized(file, size, n)}
             /\ files'[Target(d)].blocks <= DiskSize
             /\ Unmapped(d)
             /\ rc' = ERROR
  \/ /\ Target(d) \notin File     \* EBADF, or not a file that can be mapped
     /\ Unmapped(d)
     /\ rc' = ERROR
     /\ UNCHANGED files

\* The powers of two above x that next_power_of_two returns: there is one.
NextPowers(x) == {p \in x + 1 .. 2 * x + 1 : \E i \in 0 .. 29 : p = 2 ^ i}

\* (nblocks + step) & ~(step - 1)
GrownSizes(n) ==
  {step * ((n + step) \div step) : step \in NextPowers(n \div 8)}

\* An allocation with an empty free list.
Grow(d) ==
  /\ dbs[d] # NULL /\ dbs[d].txn /\ dbs[d].nblocks > 0
  /\ \E n \in GrownSizes(dbs[d].nblocks) : io_resize(d, n)
  /\ UNCHANGED fds

edb_txn_commit(d) ==
  /\ dbs[d] # NULL /\ dbs[d].txn /\ dbs[d].nblocks > 0
  /\ dbs' = [dbs EXCEPT ![d].txn = FALSE, ![d].ts_nblocks = 0]
  /\ rc' = OK
  /\ UNCHANGED <<files, fds>>

\* txn_abort_master resizes first, and keeps the transaction if that fails.
edb_txn_abort(d) ==
  /\ dbs[d] # NULL /\ dbs[d].txn
  /\ UNCHANGED fds
  /\ LET size == FileSize(dbs[d].nblocks)
         n == dbs[d].ts_nblocks IN
       \/ /\ Target(d) \in File /\ CanResize(size, n, TRUE)
          /\ files' = [files EXCEPT ![Target(d)] = Resized(@, size, n)]
          /\ dbs' = [dbs EXCEPT ![d].nblocks = n, ![d].txn = FALSE,
                                   ![d].ts_nblocks = 0]
          /\ rc' = OK
       \/ io_resize(d, n) /\ rc' = ERROR

-----------------------------------------------------------------------------

\* Any file there may be: one of another program or a database, of any length.
AnyFile ==
  {file \in [blocks : 0 .. DiskSize, ragged : BOOLEAN, lists : BOOLEAN] :
     /\ file.ragged => file.blocks > 0
     /\ file.lists => file.blocks >= EDB_USER_DATA}

Init ==
  /\ files \in [File -> AnyFile \cup {Absent}]
  /\ fds = [i \in Fd |-> IF i = 0 THEN Host ELSE Free]
  /\ dbs = [d \in Db |-> NULL]
  /\ rc = OK

Opening(d, f, readonly, overwrite) ==
  \/ OpenFails(d, f, readonly, overwrite)
  \/ InitFails(d, f) /\ ~readonly /\ overwrite
  \/ edb_open(d, f, readonly, overwrite)

Calls(d) ==
  \/ edb_close(d)
  \/ edb_txn_begin(d) \/ BeginFaults(d)
  \/ edb_txn_commit(d) \/ edb_txn_abort(d)

Next ==
  \E d \in Db :
    \/ Calls(d) \/ Grow(d)
    \/ \E f \in File, readonly, overwrite \in BOOLEAN :
         Opening(d, f, readonly, overwrite)

Spec == Init /\ [][Next]_vars

-----------------------------------------------------------------------------

\* The values the C declarations and the code's use of them allow; a database
\* that is not mapped is in a transaction, which it can only abort.
FileIoTypeOK ==
  /\ files \in [File -> [blocks : -1 .. DiskSize, ragged : BOOLEAN,
                         lists : BOOLEAN]]
  /\ \A f \in File : /\ files[f].ragged => files[f].blocks > 0
                     /\ files[f].lists => files[f].blocks >= EDB_USER_DATA
  /\ fds \in [Fd -> {Free, Host} \cup File]
  /\ dbs \in [Db -> Edb \cup {NULL}]
  /\ \A d \in Db : (dbs[d] # NULL /\ dbs[d].nblocks = 0) => dbs[d].txn

\* However an open or a resize fails, every file the process still has open
\* belongs to a database it can close (the error paths of io_open, edb_open).
DescriptorsAreOwned ==
  \A i \in Fd : fds[i] \in File =>
    \E d \in Db : dbs[d] # NULL /\ dbs[d].h_file = i

\* Opening without overwrite changes no file that has something in it and
\* whose size in bytes fits in 32 bits, even when it fails half way, or the
\* file is not a database (io_open's flags, its first resize, edb_init).
OpenKeepsShortFile ==
  [][\A d \in Db, f \in File, readonly \in BOOLEAN :
       Opening(d, f, readonly, FALSE) /\ files[f].blocks \in 1 .. Width - 1
         => files'[f] = files[f]]_vars

\* Opening without overwrite changes no file that has something in it,
\* however long: overwriting is what destroys a database (edb.c:38).
OpenKeepsFile ==
  [][\A d \in Db, f \in File, readonly \in BOOLEAN :
       Opening(d, f, readonly, FALSE) /\ files[f].blocks > 0
         => files'[f] = files[f]]_vars

\* A database that is open and mapped has its file on its descriptor, all it
\* maps is in the file, and in it are the two lists every call relies on:
\* whatever failed before, in whatever transaction (a growth that failed may
\* leave the file longer).
OpenIsWhole ==
  \A d \in Db : dbs[d] # NULL /\ dbs[d].nblocks > 0 =>
    LET db == dbs[d] IN
      /\ fds[db.h_file] = db.file
      /\ db.nblocks <= files[db.file].blocks
      /\ files[db.file].lists

\* A database opened read-only refuses a transaction.
ReadOnlyRefuses ==
  [][\A d \in Db :
       (dbs[d] # NULL /\ dbs[d].asked /\ (edb_txn_begin(d) \/ BeginFaults(d)))
         => rc' = EDB_ERROR_READ_ONLY]_vars

\* A database that has been opened for writing has room for its roots.
OpensWithRoots ==
  \A d \in Db : dbs[d] # NULL /\ dbs[d].nblocks > 0
    => dbs[d].nblocks >= EDB_USER_DATA

\* The descriptor of an open database is open on its file.
KeepsItsFile ==
  \A d \in Db : dbs[d] # NULL => fds[dbs[d].h_file] = dbs[d].file

\* Growing the file, or failing to, keeps what is in it.
GrowKeepsFile ==
  [][\A d \in Db : Grow(d) =>
       \A f \in File : files'[f].blocks >= files[f].blocks]_vars
=============================================================================
