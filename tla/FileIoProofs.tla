---------------------------- MODULE FileIoProofs ----------------------------
(***************************************************************************)
(* Theorems about FileIo.tla and FileIoCallers.tla, for any number of      *)
(* files, databases and descriptors, any width of a size and any disk.     *)
(***************************************************************************)
EXTENDS FileIoCallers, WellFoundedInduction, TLAPS

FileRecord == [blocks : -1 .. DiskSize, ragged : BOOLEAN, lists : BOOLEAN]

\* A file that there may be.
Sized(file) ==
  /\ file \in FileRecord
  /\ file.ragged => file.blocks > 0
  /\ file.lists => file.blocks >= EDB_USER_DATA

FilesOK == files \in [File -> FileRecord] /\ \A f \in File : Sized(files[f])

FdsOK == fds \in [Fd -> {Free, Host} \cup File]

\* What is mapped, which may be less than nblocks says, was once on the disk.
DbOK(db) ==
  /\ db \in Edb
  /\ db.nblocks = 0 => db.txn
  /\ FileSize(db.nblocks) <= DiskSize

DbsOK ==
  /\ dbs \in [Db -> Edb \cup {NULL}]
  /\ \A d \in Db : dbs[d] # NULL => DbOK(dbs[d])

\* What a descriptor is open on can be mapped, for it was when it was opened.
OpenFilesAreEven ==
  \A i \in Fd : fds[i] \in File => ~files[fds[i]].ragged

Inv == FilesOK /\ FdsOK /\ DbsOK /\ OpenFilesAreEven

-----------------------------------------------------------------------------
(***************************************************************************)
(* Sizes.                                                                  *)
(***************************************************************************)

\* A size the code computes is below the width it has.
LEMMA FileSizeRange ==
  ASSUME NEW n \in Nat
  PROVE  FileSize(n) \in 0 .. Width - 1
BY FileIoAssumption DEF FileSize

\* One that fits in it is computed right.
LEMMA FileSizeOfFitting ==
  ASSUME NEW n \in 0 .. Width - 1
  PROVE  FileSize(n) = n
BY FileIoAssumption DEF FileSize

\* The file grows by every step next_power_of_two gives.
LEMMA GrownSizesGrow ==
  ASSUME NEW n \in Nat, NEW m \in GrownSizes(n)
  PROVE  m \in Nat /\ m > n
<1>1. PICK step \in NextPowers(n \div 8) : m = step * ((n + step) \div step)
  BY DEF GrownSizes
<1>2. step \in Nat /\ step > 0
  BY <1>1 DEF NextPowers
<1> DEFINE q == (n + step) \div step
<1>3. q \in Nat /\ step * q <= n + step /\ n + step < step * (q + 1)
  BY <1>2
<1>4. step * (q + 1) = step * q + step /\ step * q \in Nat
  BY <1>2, <1>3
<1> QED BY <1>1, <1>2, <1>3, <1>4

\* A file stays one whatever its length becomes,
LEMMA BlocksRecord ==
  ASSUME NEW file \in FileRecord, NEW m \in -1 .. DiskSize
  PROVE  [file EXCEPT !.blocks = m] \in FileRecord
BY DEF FileRecord

\* whether it holds the lists or not,
LEMMA ListsRecord ==
  ASSUME NEW file \in FileRecord, NEW l \in BOOLEAN
  PROVE  [file EXCEPT !.lists = l] \in FileRecord
BY DEF FileRecord

\* and when a resize sets both.
LEMMA CutRecord ==
  ASSUME NEW file \in FileRecord, NEW m \in 0 .. DiskSize, NEW l \in BOOLEAN,
         NEW c, c = [file EXCEPT !.blocks = m, !.lists = l]
  PROVE  c \in FileRecord
<1>1. m \in -1 .. DiskSize
  OBVIOUS
<1> QED BY <1>1, BlocksRecord, ListsRecord

\* io_resize leaves a file of whole blocks, no longer than the disk.
LEMMA ResizedSized ==
  ASSUME NEW file, Sized(file), ~file.ragged,
         NEW size \in Nat, NEW n \in Nat,
         size < FileSize(n) => FileSize(n) <= DiskSize,
         file.blocks <= DiskSize, size <= DiskSize
  PROVE  Sized(Resized(file, size, n)) /\ ~Resized(file, size, n).ragged
<1>1. FileSize(n) \in 0 .. Width - 1
  BY FileSizeRange
<1>2. CASE size < FileSize(n)
  BY <1>1, <1>2, FileIoAssumption
     DEF Resized, Filled, Sized, FileRecord, EDB_USER_DATA
<1>3. CASE size > FileSize(n)
  <2> DEFINE m == FileSize(n)
             l == file.lists /\ m >= EDB_USER_DATA
             c == [file EXCEPT !.blocks = m, !.lists = l]
  <2>1. Resized(file, size, n) = c
    BY <1>1, <1>3 DEF Resized, Cut
  <2>3. m \in 0 .. DiskSize
    BY <1>1, <1>3, FileIoAssumption
  <2>4. l \in BOOLEAN
    OBVIOUS
  <2>5. l => m >= EDB_USER_DATA
    OBVIOUS
  <2>6. file \in FileRecord
    BY DEF Sized
  <2>7. c = [file EXCEPT !.blocks = m, !.lists = l]
    OBVIOUS
  <2> HIDE DEF m, l, c
  <2>8. c \in FileRecord
    BY <2>3, <2>4, <2>6, <2>7, CutRecord, Zenon
  <2>9. c.blocks = m /\ c.ragged = file.ragged
    BY <2>6, <2>7 DEF FileRecord
  <2>10. c.lists => l
    BY <2>6, <2>7 DEF FileRecord
  <2>11. (c.lists => c.blocks >= EDB_USER_DATA) /\ ~c.ragged
    BY <2>5, <2>9, <2>10, Zenon
  <2> QED BY <2>1, <2>8, <2>11, Zenon DEF Sized
<1>4. CASE size = FileSize(n)
  BY <1>1, <1>4, FileIoAssumption DEF Resized
<1> QED BY <1>1, <1>2, <1>3, <1>4

\* A file that is filled no further than the disk reaches.
LEMMA HalfResizedSized ==
  ASSUME NEW file, Sized(file), ~file.ragged,
         NEW size \in 0 .. DiskSize, NEW n \in Nat,
         NEW h \in HalfResized(file, size, n), h.blocks <= DiskSize
  PROVE  Sized(h) /\ ~h.ragged
<1>1. CASE h = file
  BY <1>1
<1>2. CASE h = Resized(file, size, n)
  <2>1. file.blocks <= DiskSize
    BY FileIoAssumption DEF Sized, FileRecord
  <2>2. size < FileSize(n) => FileSize(n) <= DiskSize
    BY <1>2, FileSizeRange, FileIoAssumption
       DEF Resized, Filled, Sized, FileRecord
  <2> QED BY <1>2, <2>1, <2>2, ResizedSized, FileIoAssumption
<1> QED BY <1>1, <1>2 DEF HalfResized

-----------------------------------------------------------------------------
(***************************************************************************)
(* Updates of the state.                                                   *)
(***************************************************************************)

\* A call changes one file: the others stay as they were.
LEMMA FilesStep ==
  ASSUME FilesOK, NEW f \in File, NEW h, Sized(h), ~h.ragged,
         files' = [files EXCEPT ![f] = h]
  PROVE  FilesOK' /\ \A g \in File : ~files[g].ragged => ~files'[g].ragged
<1>1. h \in FileRecord
  BY DEF Sized
<1>2. files' \in [File -> FileRecord]
  BY <1>1 DEF FilesOK
<1>3. \A g \in File : files'[g] = IF g = f THEN h ELSE files[g]
  BY DEF FilesOK
<1>4. \A g \in File : Sized(files'[g])
  BY <1>3 DEF FilesOK
<1> QED BY <1>2, <1>3, <1>4 DEF FilesOK, Sized, FileRecord

\* Files stay even, and no more of them are open.
LEMMA StaysEven ==
  ASSUME Inv, FdsOK',
         \A f \in File : ~files[f].ragged => ~files'[f].ragged,
         \A i \in Fd : fds'[i] \in File =>
            fds'[i] = fds[i] \/ ~files'[fds'[i]].ragged
  PROVE  OpenFilesAreEven'
BY DEF Inv, OpenFilesAreEven

\* A call changes one database.
LEMMA DbsStep ==
  ASSUME DbsOK, NEW d \in Db, NEW db, DbOK(db), dbs' = [dbs EXCEPT ![d] = db]
  PROVE  DbsOK'
<1>1. db \in Edb
  BY DEF DbOK
<1>2. dbs' \in [Db -> Edb \cup {NULL}]
  BY <1>1 DEF DbsOK
<1>3. \A e \in Db : dbs'[e] = IF e = d THEN db ELSE dbs[e]
  BY DEF DbsOK
<1> QED BY <1>2, <1>3 DEF DbsOK

\* The fields a resize, a begin and an abort set keep their types.
LEMMA EdbUpdates ==
  ASSUME NEW db \in Edb, NEW n \in Nat, NEW l \in BOOLEAN
  PROVE  /\ [db EXCEPT !.nblocks = n] \in Edb
         /\ [db EXCEPT !.ts_nblocks = n] \in Edb
         /\ [db EXCEPT !.txn = l] \in Edb
BY DEF Edb

\* The descriptor the next open gets is a free one.
LEMMA LowestIsFree ==
  ASSUME FreeFds # {}
  PROVE  Lowest \in Fd /\ fds[Lowest] = Free
<1>1. FreeFds \subseteq Nat
  BY FileIoAssumption DEF FreeFds
<1>2. \E i \in FreeFds : \A j \in FreeFds : i <= j
  <2> DEFINE R == OpToRel(<, Nat)
  <2>1. PICK i \in FreeFds : \A j \in FreeFds : <<j, i>> \notin R
    <3> HIDE DEF R
    <3>1. IsWellFoundedOn(R, Nat)
      BY NatLessThanWellFounded DEF R
    <3> QED BY <1>1, <3>1, WFMin
  <2>2. ASSUME NEW j \in FreeFds PROVE i <= j
    <3>1. i \in Nat /\ j \in Nat /\ <<j, i>> \notin R
      BY <1>1, <2>1
    <3> QED BY <3>1 DEF OpToRel
  <2> QED BY <2>1, <2>2
<1>3. Lowest \in FreeFds
  BY <1>2 DEF Lowest
<1> QED BY <1>3 DEF FreeFds

-----------------------------------------------------------------------------
(***************************************************************************)
(* Opening and closing.                                                    *)
(***************************************************************************)

\* io_open spoils no file: it creates, truncates, or leaves it alone.
LEMMA OpenedSized ==
  ASSUME FilesOK, NEW f \in File, NEW overwrite \in BOOLEAN
  PROVE  /\ Sized(OpenedFile(f, overwrite))
         /\ OpenedFile(f, overwrite).blocks \in 0 .. DiskSize
         /\ files[f].blocks < 0 \/ overwrite \/ OpenedFile(f, overwrite) = files[f]
         /\ ~files[f].ragged => ~OpenedFile(f, overwrite).ragged
<1>1. Sized(Empty) /\ Empty.blocks = 0 /\ ~Empty.ragged
  BY FileIoAssumption DEF Empty, Sized, FileRecord, EDB_USER_DATA
<1>2. files[f] \in FileRecord /\ Sized(files[f])
  BY DEF FilesOK
<1>3. CASE overwrite \/ files[f].blocks < 0
  BY <1>1, <1>3, FileIoAssumption DEF OpenedFile
<1>4. CASE ~overwrite /\ ~(files[f].blocks < 0)
  <2>1. OpenedFile(f, overwrite) = files[f]
    BY <1>4 DEF OpenedFile
  <2>2. files[f].blocks \in 0 .. DiskSize
    BY <1>2, <1>4, FileIoAssumption DEF FileRecord
  <2> QED BY <1>2, <2>1, <2>2
<1> QED BY <1>3, <1>4

\* An even file that is opened and resized: only one whose size is computed
\* right stays as it is.
LEMMA MappedSized ==
  ASSUME NEW file, Sized(file), ~file.ragged, file.blocks \in 0 .. DiskSize,
         FileSize(InitialSize(file)) <= DiskSize
  PROVE  LET g == Resized(file, file.blocks, InitialSize(file)) IN
           /\ Sized(g) /\ ~g.ragged
           /\ file.blocks \in 1 .. Width - 1 => g = file
           /\ file.blocks = 0 => g.blocks = 1
<1>1. InitialSize(file) \in Nat
  BY FileIoAssumption DEF InitialSize
<1>2. file.blocks \in Nat /\ file.blocks <= DiskSize
  BY FileIoAssumption
<1> DEFINE g == Resized(file, file.blocks, InitialSize(file))
<1>3. Sized(g) /\ ~g.ragged
  BY <1>1, <1>2, ResizedSized
<1>4. ASSUME file.blocks \in 1 .. Width - 1 PROVE g = file
  <2>1. InitialSize(file) = file.blocks /\ FileSize(file.blocks) = file.blocks
    BY <1>4, FileSizeOfFitting DEF InitialSize
  <2> QED BY <1>2, <2>1 DEF Resized
<1>5. ASSUME file.blocks = 0 PROVE g.blocks = 1
  <2>1. InitialSize(file) = 1 /\ FileSize(1) = 1
    BY <1>5, FileSizeOfFitting, FileIoAssumption DEF InitialSize
  <2>2. g = Filled(file, 1)
    BY <1>5, <2>1 DEF Resized
  <2> QED BY <1>5, <2>2 DEF Filled, Sized, FileRecord
<1> QED BY <1>3, <1>4, <1>5

\* io_open fails, and leaves the files as they were or one of them opened.
LEMMA IoOpenFailsStep ==
  ASSUME FilesOK, NEW f \in File, NEW readonly \in BOOLEAN,
         NEW overwrite \in BOOLEAN, IoOpenFails(f, readonly, overwrite)
  PROVE  /\ FilesOK'
         /\ \A g \in File : ~files[g].ragged => ~files'[g].ragged
         /\ (~overwrite /\ files[f].blocks \in 1 .. Width - 1) => files' = files
<1> DEFINE file == OpenedFile(f, overwrite)
           mapped == Resized(file, file.blocks, InitialSize(file))
<1>1. CASE UNCHANGED files
  BY <1>1 DEF FilesOK
<1>2. Sized(file) /\ file.blocks \in 0 .. DiskSize
  BY OpenedSized
<1>3. ~overwrite /\ files[f].blocks \in 1 .. Width - 1 => file = files[f]
  BY OpenedSized, FileIoAssumption DEF FilesOK, FileRecord
<1>4. CASE files' = [files EXCEPT ![f] = file]
  <2>1. file.ragged => file = files[f]
    BY DEF OpenedFile, Empty
  <2>2. \A g \in File : files'[g] = IF g = f THEN file ELSE files[g]
    BY <1>4 DEF FilesOK
  <2>3. files' \in [File -> FileRecord]
    BY <1>2, <1>4 DEF FilesOK, Sized
  <2>4. FilesOK'
    BY <1>2, <2>2, <2>3 DEF FilesOK
  <2>5. (~overwrite /\ files[f].blocks \in 1 .. Width - 1) => files' = files
    BY <1>3, <1>4 DEF FilesOK
  <2> HIDE DEF file
  <2> QED BY <2>1, <2>2, <2>4, <2>5
<1>5. CASE /\ ~file.ragged /\ files' = [files EXCEPT ![f] = mapped]
           /\ CanChange(file.blocks, InitialSize(file), ~readonly)
  <2>1. /\ Sized(mapped) /\ ~mapped.ragged
        /\ file.blocks \in 1 .. Width - 1 => mapped = file
    BY <1>2, <1>5, MappedSized DEF CanChange
  <2>2. (~overwrite /\ files[f].blocks \in 1 .. Width - 1) => files' = files
    BY <1>3, <1>5, <2>1 DEF FilesOK
  <2> HIDE DEF mapped
  <2> QED BY <1>5, <2>1, <2>2, FilesStep
<1> QED BY <1>1, <1>4, <1>5 DEF IoOpenFails

\* io_open succeeds.
LEMMA IoOpensStep ==
  ASSUME FilesOK, NEW f \in File, NEW readonly \in BOOLEAN,
         NEW overwrite \in BOOLEAN, IoOpens(f, readonly, overwrite)
  PROVE  LET g == IoOpened(f, overwrite) IN
           /\ Sized(g) /\ ~g.ragged
           /\ (~overwrite /\ files[f].blocks \in 1 .. Width - 1) => g = files[f]
           /\ overwrite => g.blocks = 1
<1> DEFINE file == OpenedFile(f, overwrite)
<1>1. /\ Sized(file) /\ ~file.ragged /\ file.blocks \in 0 .. DiskSize
      /\ FileSize(InitialSize(file)) <= DiskSize
  BY OpenedSized DEF IoOpens, CanResize, CanChange
<1>2. (~overwrite /\ files[f].blocks \in 1 .. Width - 1) => file = files[f]
  BY OpenedSized, FileIoAssumption DEF FilesOK, FileRecord
<1>3. overwrite => file.blocks = 0
  BY DEF OpenedFile, Empty
<1>4. IoOpened(f, overwrite) = Resized(file, file.blocks, InitialSize(file))
  BY DEF IoOpened
<1> HIDE DEF file
<1> QED BY <1>1, <1>2, <1>3, <1>4, MappedSized

\* The blocks edb_open says are mapped.
LEMMA OpenedSize ==
  ASSUME FilesOK, NEW f \in File, NEW readonly \in BOOLEAN,
         NEW overwrite \in BOOLEAN, IoOpens(f, readonly, overwrite)
  PROVE  LET n == IF overwrite THEN EDB_USER_DATA
                  ELSE InitialSize(OpenedFile(f, FALSE))
         IN n \in Nat /\ n > 0 /\ FileSize(n) <= DiskSize
<1>1. CASE overwrite
  <2>1. FileSize(EDB_USER_DATA) = EDB_USER_DATA
    BY FileSizeOfFitting, FileIoAssumption DEF EDB_USER_DATA
  <2> QED BY <1>1, <2>1, FileIoAssumption DEF EDB_USER_DATA
<1>2. CASE ~overwrite
  <2> DEFINE file == OpenedFile(f, FALSE)
  <2>1. file.blocks \in 0 .. DiskSize
    BY OpenedSized
  <2>2. FileSize(InitialSize(file)) <= DiskSize
    BY <1>2 DEF IoOpens, CanResize, CanChange
  <2>3. InitialSize(file) \in Nat /\ InitialSize(file) > 0
    <3> HIDE DEF file
    <3> QED BY <2>1, FileIoAssumption DEF InitialSize
  <2> QED BY <1>2, <2>2, <2>3
<1> QED BY <1>1, <1>2

\* The root blocks fit.
LEMMA Root4Sized ==
  ASSUME FilesOK, NEW f \in File, IoOpens(f, FALSE, TRUE)
  PROVE  /\ \A h \in HalfResized(IoOpened(f, TRUE), FileSize(1), EDB_USER_DATA) :
              Sized(h) /\ ~h.ragged
         /\ Sized(Root4(f)) /\ ~Root4(f).ragged
         /\ Root4(f).blocks = EDB_USER_DATA
<1> DEFINE file == IoOpened(f, TRUE)
<1>1. Sized(file) /\ ~file.ragged /\ file.blocks = 1
  BY IoOpensStep
<1>2. FileSize(1) = 1 /\ FileSize(EDB_USER_DATA) = EDB_USER_DATA
  BY FileSizeOfFitting, FileIoAssumption DEF EDB_USER_DATA
<1>3. Root4(f) = Resized(file, 1, EDB_USER_DATA)
  BY <1>2 DEF Root4
<1> HIDE DEF file
<1>4. Root4(f) = Filled(file, EDB_USER_DATA)
  <2>1. 1 < EDB_USER_DATA
    BY DEF EDB_USER_DATA
  <2> QED BY <1>2, <1>3, <2>1 DEF Resized
<1>5. Sized(Root4(f)) /\ ~Root4(f).ragged
  <2>1. EDB_USER_DATA \in Nat /\ 1 \in Nat /\ 1 <= DiskSize
        /\ EDB_USER_DATA <= DiskSize
    BY FileIoAssumption DEF EDB_USER_DATA
  <2> QED BY <1>1, <1>2, <1>3, <2>1, ResizedSized
<1>6. Root4(f).blocks = EDB_USER_DATA
  BY <1>1, <1>4 DEF Filled, Sized, FileRecord, EDB_USER_DATA
<1>7. HalfResized(file, FileSize(1), EDB_USER_DATA) = {file, Root4(f)}
  BY <1>2, <1>3 DEF HalfResized
<1> QED BY <1>1, <1>5, <1>6, <1>7 DEF file

\* edb_init writes the lists to a file that has room for them.
LEMMA ListsSized ==
  ASSUME NEW file, Sized(file), file.blocks >= EDB_USER_DATA
  PROVE  LET g == [file EXCEPT !.lists = TRUE] IN
           Sized(g) /\ g.blocks = file.blocks /\ g.ragged = file.ragged
<1>1. file \in FileRecord
  BY DEF Sized
<1>2. [file EXCEPT !.lists = TRUE] \in FileRecord
  BY <1>1, ListsRecord
<1> QED BY <1>1, <1>2 DEF Sized, FileRecord

-----------------------------------------------------------------------------
(***************************************************************************)
(* The steps.                                                              *)
(***************************************************************************)

\* io_open fails.
LEMMA OpenFailsStep ==
  ASSUME Inv, NEW d \in Db, NEW f \in File, NEW readonly \in BOOLEAN,
         NEW overwrite \in BOOLEAN, OpenFails(d, f, readonly, overwrite)
  PROVE  Inv'
<1>1. FilesOK' /\ \A g \in File : ~files[g].ragged => ~files'[g].ragged
  BY IoOpenFailsStep DEF Inv, OpenFails
<1>2. fds' = [fds EXCEPT ![0] = Free] /\ dbs' = dbs
  BY DEF OpenFails, CloseZero
<1>3. FdsOK'
  BY <1>2 DEF Inv, FdsOK
<1>4. \A i \in Fd : fds'[i] \in File => fds'[i] = fds[i]
  BY <1>2, FileIoAssumption DEF Inv, FdsOK
<1>5. OpenFilesAreEven'
  BY <1>1, <1>3, <1>4, StaysEven
<1>6. DbsOK'
  BY <1>2 DEF Inv, DbsOK
<1> QED BY <1>1, <1>3, <1>5, <1>6 DEF Inv

\* io_open succeeds, and edb_init fails to get the four blocks.
LEMMA InitFailsStep ==
  ASSUME Inv, NEW d \in Db, NEW f \in File, InitFails(d, f)
  PROVE  Inv'
<1>1. PICK h \in HalfResized(IoOpened(f, TRUE), FileSize(1), EDB_USER_DATA) :
        files' = [files EXCEPT ![f] = h]
  BY DEF InitFails
<1>2. Sized(h) /\ ~h.ragged
  BY <1>1, Root4Sized DEF Inv, InitFails
<1>3. FilesOK' /\ \A g \in File : ~files[g].ragged => ~files'[g].ragged
  BY <1>1, <1>2, FilesStep DEF Inv
<1>4. UNCHANGED <<dbs, fds>>
  BY DEF InitFails, CloseAgain
<1>5. FdsOK' /\ DbsOK'
  BY <1>4 DEF Inv, FdsOK, DbsOK
<1>6. OpenFilesAreEven'
  BY <1>3, <1>4, <1>5, StaysEven
<1> QED BY <1>3, <1>5, <1>6 DEF Inv

\* edb_open succeeds.
LEMMA OpenStep ==
  ASSUME Inv, NEW d \in Db, NEW f \in File, NEW readonly \in BOOLEAN,
         NEW overwrite \in BOOLEAN, edb_open(d, f, readonly, overwrite)
  PROVE  Inv'
<1> DEFINE h == IF overwrite THEN [Root4(f) EXCEPT !.lists = TRUE]
                             ELSE IoOpened(f, FALSE)
           n == IF overwrite THEN EDB_USER_DATA
                             ELSE InitialSize(OpenedFile(f, FALSE))
           db == [h_file |-> Lowest, file |-> f, asked |-> readonly,
                  readonly |-> FALSE, nblocks |-> n,
                  txn |-> FALSE, ts_nblocks |-> 0]
<1>1. files' = [files EXCEPT ![f] = h]
  BY DEF edb_open
<1>2. Sized(h) /\ ~h.ragged
  <2>1. CASE overwrite
    <3>1. IoOpens(f, FALSE, TRUE)
      BY <2>1 DEF edb_open, IoOpens
    <3>2. Sized(Root4(f)) /\ ~Root4(f).ragged
          /\ Root4(f).blocks = EDB_USER_DATA
      BY <3>1, Root4Sized DEF Inv
    <3> QED BY <2>1, <3>2, ListsSized, FileIoAssumption DEF EDB_USER_DATA
  <2>2. CASE ~overwrite
    <3>1. IoOpens(f, readonly, FALSE)
      BY <2>2 DEF edb_open
    <3> QED BY <2>2, <3>1, IoOpensStep DEF Inv
  <2> QED BY <2>1, <2>2
<1> HIDE DEF h
<1>3. FilesOK' /\ \A g \in File : ~files[g].ragged => ~files'[g].ragged
  BY <1>1, <1>2, FilesStep DEF Inv
<1>4. files'[f] = h
  BY <1>1 DEF Inv, FilesOK
<1>5. Lowest \in Fd /\ fds' = [fds EXCEPT ![Lowest] = f]
  BY LowestIsFree DEF edb_open, IoOpens
<1>6. FdsOK'
  BY <1>5 DEF Inv, FdsOK
<1>7. OpenFilesAreEven'
  BY <1>2, <1>3, <1>4, <1>5, <1>6, StaysEven DEF Inv, FdsOK
<1>8. DbsOK'
  <2>1. n \in Nat /\ n > 0 /\ FileSize(n) <= DiskSize
    BY OpenedSize DEF Inv, edb_open
  <2>2. dbs' = [dbs EXCEPT ![d] = db]
    BY DEF edb_open
  <2> HIDE DEF n
  <2>3. DbOK(db)
    BY <1>5, <2>1 DEF DbOK, Edb
  <2> HIDE DEF db
  <2> QED BY <2>2, <2>3, DbsStep DEF Inv
<1> QED BY <1>3, <1>6, <1>7, <1>8 DEF Inv

\* edb_close.
LEMMA CloseStep ==
  ASSUME Inv, NEW d \in Db, edb_close(d)
  PROVE  Inv'
<1>1. CASE UNCHANGED <<files, fds, dbs>>
  BY <1>1 DEF Inv, FilesOK, FdsOK, DbsOK, OpenFilesAreEven
<1>2. CASE /\ fds' = [fds EXCEPT ![dbs[d].h_file] = Free]
           /\ dbs' = [dbs EXCEPT ![d] = NULL]
           /\ UNCHANGED files
  <2>1. FilesOK' /\ \A g \in File : ~files[g].ragged => ~files'[g].ragged
    BY <1>2 DEF Inv, FilesOK
  <2>2. FdsOK'
    BY <1>2 DEF Inv, FdsOK
  <2>3. \A i \in Fd : fds'[i] \in File => fds'[i] = fds[i]
    BY <1>2, FileIoAssumption DEF Inv, FdsOK
  <2>4. OpenFilesAreEven'
    BY <2>1, <2>2, <2>3, StaysEven
  <2>5. DbsOK'
    BY <1>2 DEF Inv, DbsOK
  <2> QED BY <2>1, <2>2, <2>4, <2>5 DEF Inv
<1> QED BY <1>1, <1>2 DEF edb_close

\* A transaction begins, commits or ends with an abort: the mapping is not
\* smaller than a block, and what is kept of it fits.
LEMMA TxnUpdate ==
  ASSUME NEW db, DbOK(db), NEW n \in Nat, n > 0, FileSize(n) <= DiskSize,
         NEW m \in Nat, NEW l \in BOOLEAN,
         NEW e, e = [db EXCEPT !.nblocks = n, !.txn = l, !.ts_nblocks = m]
  PROVE  DbOK(e)
<1>1. db \in Edb
  BY DEF DbOK
<1>2. e \in Edb
  BY <1>1, EdbUpdates
<1>3. e.nblocks = n /\ e.ts_nblocks = m
  BY <1>1 DEF Edb
<1> QED BY <1>2, <1>3 DEF DbOK

\* A database that loses its mapping in a transaction can still abort.
LEMMA UnmappedUpdate ==
  ASSUME NEW db, DbOK(db), db.txn,
         NEW e, e = [db EXCEPT !.nblocks = 0]
  PROVE  DbOK(e)
<1>1. db \in Edb /\ FileSize(0) <= DiskSize
  BY FileSizeOfFitting, FileIoAssumption DEF DbOK
<1>2. e \in Edb
  BY <1>1, EdbUpdates
<1>3. e.nblocks = 0 /\ e.txn = db.txn
  BY <1>1 DEF Edb
<1> QED BY <1>1, <1>2, <1>3 DEF DbOK

\* What the states tell of an open database.
LEMMA OpenDb ==
  ASSUME DbsOK, NEW d \in Db, dbs[d] # NULL
  PROVE  /\ DbOK(dbs[d]) /\ dbs[d] \in Edb
         /\ dbs[d].h_file \in Fd
         /\ dbs[d].nblocks \in Nat /\ dbs[d].ts_nblocks \in Nat
         /\ FileSize(dbs[d].nblocks) \in 0 .. DiskSize
<1>1. DbOK(dbs[d])
  BY DEF DbsOK
<1>2. dbs[d].nblocks \in Nat
  BY <1>1 DEF DbOK, Edb
<1>3. FileSize(dbs[d].nblocks) \in 0 .. DiskSize
  BY <1>1, <1>2, FileSizeRange, FileIoAssumption DEF DbOK
<1> QED BY <1>1, <1>3 DEF DbOK, Edb

\* The file on a database's descriptor, resized as io_resize does it.
LEMMA TargetSized ==
  ASSUME Inv, NEW d \in Db, dbs[d] # NULL, Target(d) \in File
  PROVE  /\ Sized(files[Target(d)]) /\ ~files[Target(d)].ragged
         /\ files[Target(d)].blocks <= DiskSize
<1>1. dbs[d].h_file \in Fd
  BY OpenDb DEF Inv
<1>2. Sized(files[Target(d)]) /\ ~files[Target(d)].ragged
  BY <1>1 DEF Inv, FilesOK, OpenFilesAreEven, Target
<1> QED BY <1>2, FileIoAssumption DEF Sized, FileRecord

\* What io_resize does to the file behind the descriptor.
LEMMA ResizeFiles ==
  ASSUME Inv, NEW d \in Db, dbs[d] # NULL, Target(d) \in File,
         NEW n \in Nat, CanResize(FileSize(dbs[d].nblocks), n, TRUE),
         files' = [files EXCEPT ![Target(d)] =
                     Resized(@, FileSize(dbs[d].nblocks), n)]
  PROVE  FilesOK' /\ \A g \in File : ~files[g].ragged => ~files'[g].ragged
<1> DEFINE size == FileSize(dbs[d].nblocks)
           h == Resized(files[Target(d)], size, n)
<1>1. size \in 0 .. DiskSize
  BY OpenDb DEF Inv
<1>2. FileSize(n) <= DiskSize
  BY DEF CanResize, CanChange
<1>3. Sized(h) /\ ~h.ragged
  <2>1. size \in Nat /\ size <= DiskSize
    BY <1>1, FileIoAssumption
  <2> HIDE DEF size
  <2> QED BY <1>2, <2>1, TargetSized, ResizedSized
<1>4. files' = [files EXCEPT ![Target(d)] = h]
  BY DEF Inv, FilesOK
<1> HIDE DEF h
<1> QED BY <1>3, <1>4, FilesStep DEF Inv

\* io_resize in a transaction, from a growth or an abort.
LEMMA ResizeStep ==
  ASSUME Inv, NEW d \in Db, dbs[d] # NULL, dbs[d].txn, NEW n \in Nat,
         io_resize(d, n), UNCHANGED fds
  PROVE  Inv'
<1> DEFINE size == FileSize(dbs[d].nblocks)
<1>1. size \in 0 .. DiskSize
  BY OpenDb DEF Inv
<1>2. FdsOK'
  BY DEF Inv, FdsOK
<1>3. ASSUME Unmapped(d)
      PROVE  DbsOK'
  <2> DEFINE e == [dbs[d] EXCEPT !.nblocks = 0]
  <2>1. DbOK(dbs[d])
    BY OpenDb DEF Inv
  <2>2. DbOK(e)
    BY <2>1, UnmappedUpdate
  <2>3. dbs' = [dbs EXCEPT ![d] = e]
    BY <1>3 DEF Unmapped, Inv, DbsOK
  <2> HIDE DEF e
  <2> QED BY <2>2, <2>3, DbsStep DEF Inv
<1>4. CASE /\ Target(d) \in File
           /\ CanResize(size, n, TRUE)
           /\ files' = [files EXCEPT ![Target(d)] =
                          Resized(files[Target(d)], size, n)]
           /\ dbs' = [dbs EXCEPT ![d].nblocks = n]
  <2>1. FilesOK' /\ \A g \in File : ~files[g].ragged => ~files'[g].ragged
    BY <1>4, ResizeFiles
  <2>2. n # 0 /\ FileSize(n) <= DiskSize
    BY <1>4, FileSizeOfFitting, FileIoAssumption DEF CanResize, CanChange
  <2>3. DbsOK'
    <3> DEFINE e == [dbs[d] EXCEPT !.nblocks = n]
    <3>1. DbOK(dbs[d]) /\ dbs[d] \in Edb
      BY OpenDb DEF Inv
    <3>3. e \in Edb
      BY <3>1, EdbUpdates
    <3>4. e.nblocks = n
      BY <3>1 DEF Edb
    <3>5. DbOK(e)
      BY <2>2, <3>1, <3>3, <3>4 DEF DbOK
    <3>6. dbs' = [dbs EXCEPT ![d] = e]
      BY <1>4 DEF Inv, DbsOK
    <3> HIDE DEF e
    <3> QED BY <3>5, <3>6, DbsStep DEF Inv
  <2>4. OpenFilesAreEven'
    BY <1>2, <2>1, StaysEven
  <2> QED BY <1>2, <2>1, <2>3, <2>4 DEF Inv
<1>5. CASE /\ Target(d) \in File
           /\ files' \in {[files EXCEPT ![Target(d)] = h] :
                            h \in HalfResized(files[Target(d)], size, n)}
           /\ files'[Target(d)].blocks <= DiskSize
           /\ Unmapped(d)
  <2>1. PICK h \in HalfResized(files[Target(d)], size, n) :
          files' = [files EXCEPT ![Target(d)] = h]
    BY <1>5
  <2>2. files'[Target(d)] = h
    BY <1>5, <2>1 DEF Inv, FilesOK
  <2>3. Sized(h) /\ ~h.ragged
    <3>1. h.blocks <= DiskSize
      BY <1>5, <2>2
    <3> HIDE DEF size
    <3> QED BY <1>1, <1>5, <3>1, TargetSized, HalfResizedSized
  <2>4. FilesOK' /\ \A g \in File : ~files[g].ragged => ~files'[g].ragged
    BY <1>5, <2>1, <2>3, FilesStep DEF Inv
  <2>5. OpenFilesAreEven'
    BY <1>2, <2>4, StaysEven
  <2> QED BY <1>2, <1>3, <1>5, <2>4, <2>5 DEF Inv
<1>6. CASE Target(d) \notin File /\ Unmapped(d) /\ UNCHANGED files
  BY <1>2, <1>3, <1>6 DEF Inv, FilesOK, OpenFilesAreEven
<1> QED BY <1>4, <1>5, <1>6 DEF io_resize

\* An allocation that has to grow the file, whether it can or not.
LEMMA GrowStep ==
  ASSUME Inv, NEW d \in Db, Grow(d)
  PROVE  Inv'
<1>1. PICK n \in GrownSizes(dbs[d].nblocks) : io_resize(d, n)
  BY DEF Grow
<1>2. n \in Nat
  BY <1>1, OpenDb, GrownSizesGrow DEF Inv, Grow
<1> QED BY <1>1, <1>2, ResizeStep DEF Grow

\* edb_txn_begin.
LEMMA BeginStep ==
  ASSUME Inv, NEW d \in Db, edb_txn_begin(d)
  PROVE  Inv'
<1> DEFINE e == [dbs[d] EXCEPT !.txn = TRUE, !.ts_nblocks = dbs[d].nblocks]
<1>1. FilesOK' /\ FdsOK' /\ OpenFilesAreEven'
  BY DEF edb_txn_begin, Inv, FilesOK, FdsOK, OpenFilesAreEven
<1>2. CASE UNCHANGED dbs
  BY <1>1, <1>2 DEF Inv, DbsOK
<1>3. CASE dbs' = [dbs EXCEPT ![d].txn = TRUE, ![d].ts_nblocks = dbs[d].nblocks]
  <2>1. DbOK(dbs[d]) /\ dbs[d] \in Edb
    BY OpenDb DEF Inv, edb_txn_begin
  <2>2. e \in Edb
    BY <2>1, EdbUpdates DEF DbOK, Edb
  <2>3. /\ e.nblocks = dbs[d].nblocks /\ e.ts_nblocks = dbs[d].nblocks
        /\ e.txn
    BY <2>1 DEF Edb
  <2>4. DbOK(e)
    BY <2>1, <2>2, <2>3 DEF DbOK
  <2>5. dbs' = [dbs EXCEPT ![d] = e]
    BY <1>3 DEF Inv, DbsOK
  <2> HIDE DEF e
  <2>6. DbsOK'
    BY <2>4, <2>5, DbsStep DEF Inv, edb_txn_begin
  <2> QED BY <1>1, <2>6 DEF Inv
<1> QED BY <1>2, <1>3 DEF edb_txn_begin

\* edb_txn_begin of a database whose mapping does not take the store: the
\* process is gone.
LEMMA FaultStep ==
  ASSUME Inv, NEW d \in Db, BeginFaults(d)
  PROVE  Inv'
<1>1. FilesOK' /\ FdsOK' /\ DbsOK'
  BY DEF BeginFaults, Inv, FilesOK, FdsOK, DbsOK
<1>2. \A i \in Fd : fds'[i] \notin File
  BY FileIoAssumption DEF BeginFaults
<1> QED BY <1>1, <1>2 DEF Inv, OpenFilesAreEven

\* edb_txn_commit.
LEMMA CommitStep ==
  ASSUME Inv, NEW d \in Db, edb_txn_commit(d)
  PROVE  Inv'
<1> DEFINE e == [dbs[d] EXCEPT !.txn = FALSE, !.ts_nblocks = 0]
<1>1. FilesOK' /\ FdsOK' /\ OpenFilesAreEven'
  BY DEF edb_txn_commit, Inv, FilesOK, FdsOK, OpenFilesAreEven
<1>2. DbOK(dbs[d]) /\ dbs[d] \in Edb
  BY OpenDb DEF Inv, edb_txn_commit
<1>3. e \in Edb
  BY <1>2, EdbUpdates
<1>4. e.nblocks = dbs[d].nblocks /\ e.ts_nblocks = 0
  BY <1>2 DEF Edb
<1>5. DbOK(e)
  BY <1>2, <1>3, <1>4 DEF DbOK, edb_txn_commit, Edb
<1>6. dbs' = [dbs EXCEPT ![d] = e]
  BY DEF edb_txn_commit, Inv, DbsOK
<1> HIDE DEF e
<1>7. DbsOK'
  BY <1>5, <1>6, DbsStep DEF Inv, edb_txn_commit
<1> QED BY <1>1, <1>7 DEF Inv

\* edb_txn_abort, whether io_resize can cut the file or not.
LEMMA AbortStep ==
  ASSUME Inv, NEW d \in Db, edb_txn_abort(d)
  PROVE  Inv'
<1> DEFINE size == FileSize(dbs[d].nblocks)
           n == dbs[d].ts_nblocks
           e == [dbs[d] EXCEPT !.nblocks = n, !.txn = FALSE, !.ts_nblocks = 0]
<1>1. n \in Nat
  BY OpenDb DEF Inv, edb_txn_abort
<1>3. CASE io_resize(d, n)
  BY <1>1, <1>3, ResizeStep DEF edb_txn_abort
<1>4. CASE /\ Target(d) \in File /\ CanResize(size, n, TRUE)
           /\ files' = [files EXCEPT ![Target(d)] = Resized(@, size, n)]
           /\ dbs' = [dbs EXCEPT ![d].nblocks = n, ![d].txn = FALSE,
                                    ![d].ts_nblocks = 0]
  <2>1. FilesOK' /\ \A g \in File : ~files[g].ragged => ~files'[g].ragged
    BY <1>1, <1>4, ResizeFiles DEF edb_txn_abort
  <2>2. n > 0 /\ FileSize(n) <= DiskSize
    BY <1>1, <1>4, FileSizeOfFitting, FileIoAssumption DEF CanResize, CanChange
  <2>3. DbOK(dbs[d]) /\ dbs[d] \in Edb
    BY OpenDb DEF Inv, edb_txn_abort
  <2>4. dbs' = [dbs EXCEPT ![d] = e]
    BY <1>4 DEF Inv, DbsOK
  <2> HIDE DEF n
  <2>6. DbOK(e)
    BY <1>1, <2>2, <2>3, TxnUpdate
  <2> HIDE DEF e
  <2>7. DbsOK'
    BY <2>4, <2>6, DbsStep DEF Inv, edb_txn_abort
  <2>8. FdsOK'
    BY DEF edb_txn_abort, Inv, FdsOK
  <2>9. OpenFilesAreEven'
    BY <2>1, <2>8, StaysEven DEF edb_txn_abort
  <2> QED BY <2>1, <2>7, <2>8, <2>9 DEF Inv
<1> QED BY <1>3, <1>4 DEF edb_txn_abort

-----------------------------------------------------------------------------
(***************************************************************************)
(* The theorems.                                                           *)
(***************************************************************************)

\* Before the first call.
LEMMA InitInv == Init => Inv
<1> SUFFICES ASSUME Init PROVE Inv
  OBVIOUS
<1>1. \A file \in AnyFile \cup {Absent} : Sized(file)
  <2>1. Sized(Absent)
    BY FileIoAssumption DEF Absent, Sized, FileRecord
  <2>2. ASSUME NEW file \in AnyFile PROVE Sized(file)
    <3>1. /\ file \in [blocks : 0 .. DiskSize, ragged : BOOLEAN, lists : BOOLEAN]
          /\ file.ragged => file.blocks > 0
          /\ file.lists => file.blocks >= EDB_USER_DATA
      BY DEF AnyFile
    <3>2. file \in FileRecord
      BY <3>1, FileIoAssumption DEF FileRecord
    <3> QED BY <3>1, <3>2 DEF Sized
  <2> QED BY <2>1, <2>2
<1>2. FilesOK
  <2>1. \A f \in File : Sized(files[f])
    BY <1>1 DEF Init
  <2>2. \A f \in File : files[f] \in FileRecord
    BY <2>1 DEF Sized
  <2>3. files = [f \in File |-> files[f]]
    BY DEF Init
  <2> QED BY <2>1, <2>2, <2>3 DEF FilesOK
<1>3. FdsOK /\ DbsOK
  BY DEF Init, FdsOK, DbsOK
<1>4. OpenFilesAreEven
  BY FileIoAssumption DEF Init, OpenFilesAreEven
<1> QED BY <1>2, <1>3, <1>4 DEF Inv

\* Each way an open can go.
LEMMA OpeningInv ==
  ASSUME Inv, NEW d \in Db, NEW f \in File, NEW readonly \in BOOLEAN,
         NEW overwrite \in BOOLEAN, Opening(d, f, readonly, overwrite)
  PROVE  Inv'
<1>1. CASE OpenFails(d, f, readonly, overwrite)
  BY <1>1, OpenFailsStep
<1>2. CASE InitFails(d, f)
  BY <1>2, InitFailsStep
<1>3. CASE edb_open(d, f, readonly, overwrite)
  BY <1>3, OpenStep
<1> QED BY <1>1, <1>2, <1>3 DEF Opening

\* Each call on an open database.
LEMMA CallsInv ==
  ASSUME Inv, NEW d \in Db, Calls(d)
  PROVE  Inv'
<1>1. CASE edb_close(d)
  BY <1>1, CloseStep
<1>2. CASE edb_txn_begin(d) \/ BeginFaults(d)
  BY <1>2, BeginStep, FaultStep
<1>3. CASE edb_txn_commit(d) \/ edb_txn_abort(d)
  BY <1>3, CommitStep, AbortStep
<1> QED BY <1>1, <1>2, <1>3 DEF Calls

\* The invariant survives every step.
LEMMA NextInv == Inv /\ [Next]_vars => Inv'
<1> SUFFICES ASSUME Inv, [Next]_vars PROVE Inv'
  OBVIOUS
<1>1. CASE UNCHANGED vars
  BY <1>1 DEF vars, Inv, FilesOK, FdsOK, DbsOK, OpenFilesAreEven
<1>2. CASE Next
  BY <1>2, OpeningInv, CallsInv, GrowStep DEF Next
<1> QED BY <1>1, <1>2

\* However opens and resizes fail, the invariant holds.
THEOREM FileIoInvariance == Spec => []Inv
<1>1. Init => Inv
  BY InitInv
<1>2. Inv /\ [Next]_vars => Inv'
  BY NextInv
<1> QED BY <1>1, <1>2, PTL DEF Spec

\* The state keeps the types of the C declarations, and a database that is not
\* mapped (after a failed io_resize) is in a transaction, which can only abort.
THEOREM FileIoTypeCorrect == Spec => []FileIoTypeOK
<1>1. Inv => FileIoTypeOK
  <2> SUFFICES ASSUME Inv PROVE FileIoTypeOK
    OBVIOUS
  <2>1. files \in [File -> [blocks : -1 .. DiskSize, ragged : BOOLEAN,
                            lists : BOOLEAN]]
    BY DEF Inv, FilesOK, FileRecord
  <2>2. \A f \in File : /\ files[f].ragged => files[f].blocks > 0
                        /\ files[f].lists => files[f].blocks >= EDB_USER_DATA
    BY DEF Inv, FilesOK, Sized
  <2>3. \A d \in Db : (dbs[d] # NULL /\ dbs[d].nblocks = 0) => dbs[d].txn
    BY DEF Inv, DbsOK, DbOK
  <2> QED BY <2>1, <2>2, <2>3 DEF FileIoTypeOK, Inv, FdsOK, DbsOK
<1> QED BY <1>1, FileIoInvariance, PTL

\* No open or close, however it fails, leaves a file open that belongs to no
\* database (the error paths of io_open and edb_open).
THEOREM DescriptorsOwned == Spec => []DescriptorsAreOwned
<1>1. Init => DescriptorsAreOwned
  BY FileIoAssumption DEF Init, DescriptorsAreOwned
<1>2. Inv /\ Inv' /\ DescriptorsAreOwned /\ [Next]_vars => DescriptorsAreOwned'
  <2> SUFFICES ASSUME Inv, Inv', DescriptorsAreOwned, [Next]_vars,
                      NEW i \in Fd, fds'[i] \in File
               PROVE  \E d \in Db : dbs'[d] # NULL /\ dbs'[d].h_file = i
    BY DEF DescriptorsAreOwned
  <2>1. CASE UNCHANGED <<fds, dbs>>
    BY <2>1 DEF DescriptorsAreOwned
  <2>2. ASSUME NEW d \in Db, NEW f \in File, InitFails(d, f)
        PROVE  UNCHANGED <<fds, dbs>>
    BY <2>2 DEF InitFails, CloseAgain
  <2>3. ASSUME NEW d \in Db, NEW f \in File, NEW readonly \in BOOLEAN,
               NEW overwrite \in BOOLEAN, OpenFails(d, f, readonly, overwrite)
        PROVE  \E e \in Db : dbs'[e] # NULL /\ dbs'[e].h_file = i
    <3>1. fds[i] \in File /\ dbs' = dbs
      BY <2>3, FileIoAssumption
         DEF OpenFails, CloseZero, Inv, FdsOK
    <3> QED BY <3>1 DEF DescriptorsAreOwned
  <2>4. ASSUME NEW d \in Db, NEW f \in File, NEW readonly \in BOOLEAN,
               NEW overwrite \in BOOLEAN, edb_open(d, f, readonly, overwrite)
        PROVE  \E e \in Db : dbs'[e] # NULL /\ dbs'[e].h_file = i
    <3> DEFINE n == IF overwrite THEN EDB_USER_DATA
                                 ELSE InitialSize(OpenedFile(f, FALSE))
               db == [h_file |-> Lowest, file |-> f, asked |-> readonly,
                      readonly |-> FALSE, nblocks |-> n,
                      txn |-> FALSE, ts_nblocks |-> 0]
    <3>1. dbs' = [dbs EXCEPT ![d] = db] /\ dbs[d] = NULL
      BY <2>4 DEF edb_open
    <3>2. db.h_file = Lowest
      OBVIOUS
    <3>3. db \in Edb
      <4>1. n \in Nat
        BY <2>4, OpenedSize DEF edb_open, Inv
      <4>2. Lowest \in Fd
        BY <2>4, LowestIsFree DEF edb_open, IoOpens
      <4> HIDE DEF n
      <4> QED BY <4>1, <4>2 DEF Edb
    <3>4. dbs'[d] = db /\ dbs'[d] # NULL
      BY <3>1, <3>3, FileIoAssumption DEF Inv, DbsOK
    <3>5. fds' = [fds EXCEPT ![Lowest] = f]
      BY <2>4 DEF edb_open
    <3> HIDE DEF db
    <3>6. CASE i = Lowest
      BY <3>2, <3>4, <3>6
    <3>7. CASE i # Lowest
      <4>1. PICK e \in Db : dbs[e] # NULL /\ dbs[e].h_file = i
        BY <3>5, <3>7 DEF DescriptorsAreOwned, Inv, FdsOK
      <4>2. dbs'[e] = dbs[e]
        BY <3>1, <4>1 DEF Inv, DbsOK
      <4> QED BY <4>1, <4>2
    <3> QED BY <3>6, <3>7
  <2>5. ASSUME NEW d \in Db, edb_close(d)
        PROVE  \E e \in Db : dbs'[e] # NULL /\ dbs'[e].h_file = i
    <3>1. CASE UNCHANGED <<files, fds, dbs>>
      BY <3>1 DEF DescriptorsAreOwned
    <3>2. CASE /\ fds' = [fds EXCEPT ![dbs[d].h_file] = Free]
               /\ dbs' = [dbs EXCEPT ![d] = NULL]
      <4>1. i # dbs[d].h_file /\ fds[i] \in File
        BY <3>2, FileIoAssumption DEF Inv, FdsOK
      <4>2. PICK e \in Db : dbs[e] # NULL /\ dbs[e].h_file = i
        BY <4>1 DEF DescriptorsAreOwned
      <4>3. dbs'[e] = dbs[e]
        BY <3>2, <4>1, <4>2 DEF Inv, DbsOK
      <4> QED BY <4>2, <4>3
    <3> QED BY <2>5, <3>1, <3>2 DEF edb_close
  <2>6. ASSUME NEW d \in Db, BeginFaults(d)
        PROVE  \E e \in Db : dbs'[e] # NULL /\ dbs'[e].h_file = i
    <3>1. fds'[i] \in {Host, Free}
      BY <2>6 DEF BeginFaults
    <3> QED BY <3>1, FileIoAssumption
  <2>7. ASSUME NEW d \in Db, dbs[d] # NULL, UNCHANGED fds,
               \/ edb_txn_begin(d) \/ Grow(d)
               \/ edb_txn_commit(d) \/ edb_txn_abort(d)
        PROVE  \E e \in Db : dbs'[e] # NULL /\ dbs'[e].h_file = i
    <3>1. PICK e \in Db : dbs[e] # NULL /\ dbs[e].h_file = i
      BY <2>7 DEF DescriptorsAreOwned
    <3>2. dbs[d] \in Edb
      BY <2>7, OpenDb DEF Inv
    <3>3. /\ dbs'[d].h_file = dbs[d].h_file
          /\ dbs'[d] # NULL
          /\ \A c \in Db : c # d => dbs'[c] = dbs[c]
      <4> DEFINE Kept(db) == db \in Edb /\ db.h_file = dbs[d].h_file
      <4>1. ASSUME NEW db, Kept(db), dbs' = [dbs EXCEPT ![d] = db]
            PROVE  /\ dbs'[d].h_file = dbs[d].h_file
                   /\ dbs'[d] # NULL
                   /\ \A c \in Db : c # d => dbs'[c] = dbs[c]
        <5>1. dbs'[d] = db /\ \A c \in Db : c # d => dbs'[c] = dbs[c]
          BY <4>1 DEF Inv, DbsOK
        <5> QED BY <4>1, <5>1, FileIoAssumption
      <4>2. CASE UNCHANGED dbs
        BY <2>7, <4>2
      <4>3. CASE edb_txn_begin(d) /\ ~UNCHANGED dbs
        <5> DEFINE db == [dbs[d] EXCEPT !.txn = TRUE,
                                        !.ts_nblocks = dbs[d].nblocks]
        <5>1. Kept(db)
          BY <3>2, EdbUpdates DEF Edb
        <5>2. dbs' = [dbs EXCEPT ![d] = db]
          BY <4>3 DEF edb_txn_begin, Inv, DbsOK
        <5> HIDE DEF db, Kept
        <5> QED BY <4>1, <5>1, <5>2
      <4>4. ASSUME NEW n \in Nat, io_resize(d, n)
            PROVE  \E m \in Nat :
                     dbs' = [dbs EXCEPT ![d] = [dbs[d] EXCEPT !.nblocks = m]]
        <5>1. CASE Unmapped(d)
          BY <5>1 DEF Unmapped, Inv, DbsOK
        <5>2. CASE dbs' = [dbs EXCEPT ![d].nblocks = n]
          BY <5>2 DEF Inv, DbsOK
        <5> QED BY <4>4, <5>1, <5>2 DEF io_resize
      <4>5. ASSUME NEW n \in Nat, io_resize(d, n)
            PROVE  \E db : Kept(db) /\ dbs' = [dbs EXCEPT ![d] = db]
        <5>1. PICK m \in Nat :
                dbs' = [dbs EXCEPT ![d] = [dbs[d] EXCEPT !.nblocks = m]]
          BY <4>4, <4>5
        <5>2. Kept([dbs[d] EXCEPT !.nblocks = m])
          BY <3>2, EdbUpdates DEF Edb
        <5> HIDE DEF Kept
        <5> QED BY <5>1, <5>2
      <4>6. CASE Grow(d)
        <5>1. PICK n \in GrownSizes(dbs[d].nblocks) : io_resize(d, n)
          BY <4>6 DEF Grow
        <5>2. n \in Nat
          BY <2>7, <5>1, OpenDb, GrownSizesGrow DEF Inv
        <5>3. PICK db : Kept(db) /\ dbs' = [dbs EXCEPT ![d] = db]
          BY <4>5, <5>1, <5>2
        <5> HIDE DEF Kept
        <5> QED BY <4>1, <5>3
      <4>7. CASE edb_txn_commit(d)
        <5> DEFINE db == [dbs[d] EXCEPT !.txn = FALSE, !.ts_nblocks = 0]
        <5>1. Kept(db)
          <6>1. db \in Edb
            BY <3>2, EdbUpdates
          <6> QED BY <3>2, <6>1 DEF Edb
        <5>2. dbs' = [dbs EXCEPT ![d] = db]
          BY <4>7 DEF edb_txn_commit, Inv, DbsOK
        <5> HIDE DEF db, Kept
        <5> QED BY <4>1, <5>1, <5>2
      <4>8. CASE edb_txn_abort(d)
        <5>1. dbs[d].ts_nblocks \in Nat
          BY <2>7, OpenDb DEF Inv
        <5>2. CASE io_resize(d, dbs[d].ts_nblocks)
          <6>1. PICK db : Kept(db) /\ dbs' = [dbs EXCEPT ![d] = db]
            BY <4>5, <5>1, <5>2
          <6> HIDE DEF Kept
          <6> QED BY <4>1, <6>1
        <5>3. CASE dbs' = [dbs EXCEPT ![d].nblocks = dbs[d].ts_nblocks,
                                      ![d].txn = FALSE, ![d].ts_nblocks = 0]
          <6> DEFINE db == [dbs[d] EXCEPT !.nblocks = dbs[d].ts_nblocks,
                                          !.txn = FALSE, !.ts_nblocks = 0]
          <6>1. Kept(db)
            <7>1. db \in Edb
              BY <3>2, <5>1, EdbUpdates
            <7> QED BY <3>2, <7>1 DEF Edb
          <6>2. dbs' = [dbs EXCEPT ![d] = db]
            BY <5>3 DEF Inv, DbsOK
          <6> HIDE DEF db, Kept
          <6> QED BY <4>1, <6>1, <6>2
        <5> QED BY <4>8, <5>2, <5>3 DEF edb_txn_abort
      <4> QED BY <2>7, <4>2, <4>3, <4>6, <4>7, <4>8
    <3> QED BY <3>1, <3>3
  <2>8. ASSUME NEW d \in Db, Calls(d) \/ Grow(d)
        PROVE  \E e \in Db : dbs'[e] # NULL /\ dbs'[e].h_file = i
    <3>1. CASE edb_close(d) \/ BeginFaults(d)
      BY <2>5, <2>6, <3>1
    <3>2. CASE edb_txn_begin(d) \/ Grow(d) \/ edb_txn_commit(d) \/ edb_txn_abort(d)
      <4>1. dbs[d] # NULL /\ UNCHANGED fds
        BY <3>2 DEF edb_txn_begin, Grow, edb_txn_commit, edb_txn_abort
      <4> QED BY <2>7, <3>2, <4>1
    <3> QED BY <2>8, <3>1, <3>2 DEF Calls
  <2>9. ASSUME NEW d \in Db, NEW f \in File, NEW readonly \in BOOLEAN,
               NEW overwrite \in BOOLEAN, Opening(d, f, readonly, overwrite)
        PROVE  \E e \in Db : dbs'[e] # NULL /\ dbs'[e].h_file = i
    <3>1. CASE InitFails(d, f)
      BY <2>1, <2>2, <3>1
    <3> QED BY <2>3, <2>4, <2>9, <3>1 DEF Opening
  <2>10. CASE UNCHANGED vars
    BY <2>1, <2>10 DEF vars
  <2> QED BY <2>8, <2>9, <2>10 DEF Next
<1> QED BY <1>1, <1>2, FileIoInvariance, PTL DEF Spec

\* Opening without overwrite changes no file that has something in it, up to
\* the length whose size in bytes 32 bits hold, even when it fails (io_open's
\* O_TRUNC, its resize, the error path): a longer one may be cut
\* (MCFileIoLong.cfg).
THEOREM OpenKeepsShortFiles == Spec => OpenKeepsShortFile
<1>1. Inv /\ [Next]_vars =>
        [\A d \in Db, f \in File, readonly \in BOOLEAN :
           Opening(d, f, readonly, FALSE) /\ files[f].blocks \in 1 .. Width - 1
             => files'[f] = files[f]]_vars
  <2> SUFFICES ASSUME Inv, NEW d \in Db, NEW f \in File,
                      NEW readonly \in BOOLEAN,
                      Opening(d, f, readonly, FALSE),
                      files[f].blocks \in 1 .. Width - 1
               PROVE  files'[f] = files[f]
    OBVIOUS
  <2>1. CASE OpenFails(d, f, readonly, FALSE)
    BY <2>1, IoOpenFailsStep DEF OpenFails, Inv
  <2>2. CASE edb_open(d, f, readonly, FALSE)
    BY <2>2, IoOpensStep DEF edb_open, Inv, FilesOK
  <2> QED BY <2>1, <2>2 DEF Opening
<1> QED BY <1>1, FileIoInvariance, PTL DEF Spec, OpenKeepsShortFile

-----------------------------------------------------------------------------
(***************************************************************************)
(* The caller that works finds every database whole: its files stay        *)
(* shorter than the width, so every size is computed as it is.             *)
(***************************************************************************)

\* At most one database is open, on its file, with the lists; what it maps,
\* and what an abort would map again, is there and has room for the lists.
OneOpen == \A d, e \in Db : dbs[d] # NULL /\ dbs[e] # NULL => d = e

\* Database db, whose file is file.
WholeDb(db, file) ==
  /\ file.lists
  /\ db.nblocks <= file.blocks /\ db.nblocks < Width
  /\ db.nblocks > 0 => db.nblocks >= EDB_USER_DATA
  /\ db.txn => /\ db.ts_nblocks >= EDB_USER_DATA
               /\ db.ts_nblocks <= file.blocks /\ db.ts_nblocks < Width
               /\ db.nblocks > 0 => db.ts_nblocks <= db.nblocks

Whole(d) ==
  LET db == dbs[d] IN
    db # NULL => fds[db.h_file] = db.file /\ WholeDb(db, files[db.file])

AllWhole == \A d \in Db : Whole(d)

WorkingInv == OneOpen /\ AllWhole

-----------------------------------------------------------------------------
(***************************************************************************)
(* Resizing the file of the database that is open.                         *)
(***************************************************************************)

\* A database of a working caller has its own file's descriptor.
LEMMA OnItsFile ==
  ASSUME Inv, WorkingInv, NEW d \in Db, dbs[d] # NULL
  PROVE  /\ Target(d) = dbs[d].file /\ dbs[d].file \in File
         /\ WholeDb(dbs[d], files[dbs[d].file])
         /\ files[dbs[d].file] \in FileRecord
         /\ files[dbs[d].file].blocks <= DiskSize
<1>1. dbs[d] \in Edb
  BY OpenDb DEF Inv
<1>2. dbs[d].file \in File
  BY <1>1 DEF Edb
<1>3. Target(d) = dbs[d].file /\ WholeDb(dbs[d], files[dbs[d].file])
  BY DEF WorkingInv, AllWhole, Whole, Target
<1>4. files[dbs[d].file] \in FileRecord
  BY <1>2 DEF Inv, FilesOK
<1> QED BY <1>2, <1>3, <1>4, FileIoAssumption DEF FileRecord

\* A file with the lists, resized to n blocks by a database that maps m, keeps
\* the lists and has n blocks, and is not cut unless the mapping is.
LEMMA ResizedWhole ==
  ASSUME NEW file \in FileRecord, file.lists,
         NEW m \in Nat, m <= file.blocks,
         NEW n \in EDB_USER_DATA .. Width - 1
  PROVE  LET g == Resized(file, m, n) IN
           /\ g.lists /\ g.blocks \in Int /\ g.blocks >= n
           /\ g.blocks >= file.blocks \/ n < m
<1>1. n \in 0 .. Width - 1 /\ n >= EDB_USER_DATA
  BY FileIoAssumption DEF EDB_USER_DATA
<1>2. FileSize(n) = n
  BY <1>1, FileSizeOfFitting
<1>3. CASE m < n
  <2>1. Resized(file, m, n) = Filled(file, n)
    BY <1>2, <1>3 DEF Resized
  <2>2. Filled(file, n).lists
    BY DEF Filled, FileRecord
  <2>3. /\ Filled(file, n).blocks \in Int
        /\ Filled(file, n).blocks >= n /\ Filled(file, n).blocks >= file.blocks
    BY <1>1, FileIoAssumption DEF Filled, FileRecord
  <2> QED BY <2>1, <2>2, <2>3
<1>4. CASE m > n
  <2>1. Resized(file, m, n) = Cut(file, n)
    BY <1>1, <1>2, <1>4, FileIoAssumption DEF Resized
  <2>2. Cut(file, n).lists
    BY <1>1 DEF Cut, FileRecord
  <2>3. Cut(file, n).blocks = n
    BY DEF Cut, FileRecord
  <2> QED BY <1>1, <1>4, <2>1, <2>2, <2>3
<1>5. CASE m = n
  <2>1. Resized(file, m, n) = file
    BY <1>2, <1>5 DEF Resized
  <2> QED BY <1>5, <2>1, FileIoAssumption DEF FileRecord
<1> QED BY <1>1, <1>3, <1>4, <1>5, FileIoAssumption

-----------------------------------------------------------------------------
(***************************************************************************)
(* Updates of the only database that is open.                              *)
(***************************************************************************)

\* With one database open, no other is.
LEMMA OthersClosed ==
  ASSUME OneOpen, NEW d \in Db, dbs[d] # NULL
  PROVE  \A e \in Db : e # d => dbs[e] = NULL
BY DEF OneOpen

\* The database stays open and its descriptor on its file.
LEMMA WholeStep ==
  ASSUME Inv, WorkingInv, NEW d \in Db, dbs[d] # NULL,
         NEW db, db \in Edb, dbs' = [dbs EXCEPT ![d] = db], UNCHANGED fds,
         db.h_file = dbs[d].h_file, db.file = dbs[d].file,
         WholeDb(db, files'[db.file])
  PROVE  WorkingInv'
<1>1. \A e \in Db : dbs'[e] = IF e = d THEN db ELSE NULL
  BY OthersClosed DEF WorkingInv, Inv, DbsOK
<1>2. fds[dbs[d].h_file] = dbs[d].file
  BY DEF WorkingInv, AllWhole, Whole
<1>3. OneOpen'
  BY <1>1 DEF OneOpen
<1>4. Whole(d)'
  BY <1>1, <1>2 DEF Whole
<1>5. \A e \in Db : Whole(e)'
  BY <1>1, <1>4 DEF Whole
<1> QED BY <1>3, <1>5 DEF WorkingInv, AllWhole

\* Which fields the updates of a database set, and which they keep.
LEMMA EdbFields ==
  ASSUME NEW db \in Edb, NEW n, NEW m, NEW l
  PROVE  LET u == [db EXCEPT !.nblocks = n]
             b == [db EXCEPT !.txn = l, !.ts_nblocks = m]
             a == [db EXCEPT !.nblocks = n, !.txn = l, !.ts_nblocks = m]
         IN /\ u.h_file = db.h_file /\ u.file = db.file /\ u.nblocks = n
            /\ u.ts_nblocks = db.ts_nblocks /\ u.txn = db.txn
            /\ b.h_file = db.h_file /\ b.file = db.file
            /\ b.nblocks = db.nblocks /\ b.ts_nblocks = m /\ b.txn = l
            /\ a.h_file = db.h_file /\ a.file = db.file
            /\ a.nblocks = n /\ a.ts_nblocks = m /\ a.txn = l
BY DEF Edb

-----------------------------------------------------------------------------
(***************************************************************************)
(* The calls.                                                              *)
(***************************************************************************)

\* io_resize to n blocks, in a transaction: either n are mapped, or none are
\* and what an abort would map again is still there.
LEMMA ResizeWhole ==
  ASSUME Inv, WorkingInv, NEW d \in Db, dbs[d] # NULL, dbs[d].txn,
         NEW n \in EDB_USER_DATA .. Width - 1, dbs[d].ts_nblocks <= n,
         io_resize(d, n), UNCHANGED fds
  PROVE  WorkingInv'
<1> DEFINE db == dbs[d]
           file == files[db.file]
           m == db.nblocks
<1>1. /\ Target(d) = db.file /\ db.file \in File /\ file \in FileRecord
      /\ WholeDb(db, file)
  BY OnItsFile
<1>2. db \in Edb /\ m \in Nat /\ FileSize(m) = m
  <2>1. db \in Edb /\ m \in Nat /\ m < Width
    BY <1>1, OpenDb DEF Inv, WholeDb
  <2> HIDE DEF db, m
  <2> QED BY <2>1, FileSizeOfFitting, FileIoAssumption
<1>3. file.lists /\ m <= file.blocks
  BY <1>1 DEF WholeDb
<1>4. db.ts_nblocks >= EDB_USER_DATA /\ db.ts_nblocks <= file.blocks
      /\ db.ts_nblocks \in Nat /\ db.ts_nblocks < Width
      /\ file.blocks \in Int /\ n \in Nat /\ n < Width
  BY <1>1, <1>2, FileIoAssumption DEF WholeDb, Edb, FileRecord, EDB_USER_DATA
<1> HIDE DEF db, file, m
<1>5. LET g == Resized(file, m, n) IN
        /\ g.lists /\ g.blocks \in Int /\ g.blocks >= n
        /\ g.blocks >= file.blocks \/ n < m
  BY <1>1, <1>2, <1>3, ResizedWhole
<1>6. CASE /\ files' = [files EXCEPT ![db.file] = Resized(file, m, n)]
           /\ dbs' = [dbs EXCEPT ![d].nblocks = n]
  <2> DEFINE e == [db EXCEPT !.nblocks = n]
  <2>2. e \in Edb
    BY <1>2, <1>4, EdbUpdates
  <2>3. /\ e.h_file = db.h_file /\ e.file = db.file /\ e.nblocks = n
        /\ e.ts_nblocks = db.ts_nblocks
    BY <1>2, EdbFields
  <2>4. dbs' = [dbs EXCEPT ![d] = e]
    BY <1>6 DEF db, Inv, DbsOK
  <2>5. files'[db.file] = Resized(file, m, n)
    BY <1>1, <1>6 DEF Inv, FilesOK
  <2> HIDE DEF e
  <2>6. files'[db.file].blocks \in Int
    BY <1>4, <1>5, <2>5
  <2>7. WholeDb(e, files'[db.file])
    BY <1>4, <1>5, <2>3, <2>5, <2>6 DEF WholeDb, db
  <2> QED BY <2>2, <2>3, <2>4, <2>7, WholeStep DEF db
<1>7. CASE /\ files' \in {[files EXCEPT ![db.file] = h] :
                            h \in HalfResized(file, m, n)}
           /\ Unmapped(d)
  <2> DEFINE e == [db EXCEPT !.nblocks = 0]
  <2>2. e \in Edb
    BY <1>2, EdbUpdates
  <2>3. /\ e.h_file = db.h_file /\ e.file = db.file /\ e.nblocks = 0
        /\ e.ts_nblocks = db.ts_nblocks
    BY <1>2, EdbFields
  <2>4. dbs' = [dbs EXCEPT ![d] = e]
    BY <1>7 DEF Unmapped, db, Inv, DbsOK
  <2>5. files'[db.file] \in {file, Resized(file, m, n)}
    BY <1>1, <1>7 DEF Inv, FilesOK, HalfResized
  <2> HIDE DEF e
  <2>6. files'[db.file].blocks \in Int
    BY <1>4, <1>5, <2>5
  <2>7. WholeDb(e, files'[db.file])
    BY <1>3, <1>4, <1>5, <2>3, <2>5, <2>6, FileIoAssumption
       DEF WholeDb, db, EDB_USER_DATA
  <2> QED BY <2>2, <2>3, <2>4, <2>7, WholeStep DEF db
<1> QED BY <1>1, <1>2, <1>6, <1>7 DEF io_resize, db, file, m

\* Each call on an open database keeps descriptor, mapping and file together.
LEMMA CallsWhole ==
  ASSUME Inv, WorkingInv, NEW d \in Db,
         Calls(d) \/ (Grow(d) /\ GrowsShort(d))
  PROVE  WorkingInv'
<1>1. CASE edb_close(d)
  <2>1. CASE UNCHANGED <<files, fds, dbs>>
    BY <2>1 DEF WorkingInv, OneOpen, AllWhole, Whole
  <2>2. CASE dbs' = [dbs EXCEPT ![d] = NULL]
    <3>1. dbs[d] # NULL
      BY <1>1 DEF edb_close
    <3>2. \A e \in Db : dbs'[e] = NULL
      BY <2>2, <3>1, OthersClosed DEF WorkingInv, Inv, DbsOK
    <3> QED BY <3>2 DEF WorkingInv, OneOpen, AllWhole, Whole
  <2> QED BY <1>1, <2>1, <2>2 DEF edb_close
<1>2. CASE edb_txn_begin(d)
  <2> DEFINE e == [dbs[d] EXCEPT !.txn = TRUE, !.ts_nblocks = dbs[d].nblocks]
  <2>1. dbs[d] # NULL /\ UNCHANGED <<files, fds>>
    BY <1>2 DEF edb_txn_begin
  <2>2. dbs[d] \in Edb /\ DbOK(dbs[d]) /\ dbs[d].nblocks \in Nat
    BY <2>1, OpenDb DEF Inv
  <2>3. WholeDb(dbs[d], files[dbs[d].file])
    BY <2>1, OnItsFile
  <2>4. CASE UNCHANGED dbs
    BY <2>1, <2>4 DEF WorkingInv, OneOpen, AllWhole, Whole
  <2>5. CASE dbs' = [dbs EXCEPT ![d].txn = TRUE, ![d].ts_nblocks = dbs[d].nblocks]
    <3>1. dbs' = [dbs EXCEPT ![d] = e]
      BY <2>5 DEF Inv, DbsOK
    <3>2. e \in Edb
      BY <2>2, EdbUpdates
    <3>3. /\ e.h_file = dbs[d].h_file /\ e.file = dbs[d].file
          /\ e.nblocks = dbs[d].nblocks /\ e.ts_nblocks = dbs[d].nblocks
      BY <2>2, EdbFields
    <3>4. dbs[d].nblocks > 0
      BY <1>2, <2>2 DEF edb_txn_begin, DbOK
    <3> HIDE DEF e
    <3>5. WholeDb(e, files'[e.file])
      BY <2>1, <2>2, <2>3, <3>3, <3>4 DEF WholeDb
    <3> QED BY <2>1, <3>1, <3>2, <3>3, <3>5, WholeStep
  <2> QED BY <1>2, <2>4, <2>5 DEF edb_txn_begin
<1>3. CASE BeginFaults(d)
  <2>1. \A e \in Db : dbs'[e] = NULL
    BY <1>3 DEF BeginFaults
  <2> QED BY <2>1 DEF WorkingInv, OneOpen, AllWhole, Whole
<1>4. CASE Grow(d) /\ GrowsShort(d)
  <2>1. dbs[d] # NULL /\ dbs[d].txn /\ dbs[d].nblocks > 0 /\ UNCHANGED fds
    BY <1>4 DEF Grow
  <2>2. PICK n \in GrownSizes(dbs[d].nblocks) : io_resize(d, n)
    BY <1>4 DEF Grow
  <2>3. dbs[d].nblocks \in Nat /\ dbs[d].ts_nblocks \in Nat
    BY <2>1, OpenDb DEF Inv
  <2>4. dbs[d].nblocks >= EDB_USER_DATA /\ dbs[d].ts_nblocks <= dbs[d].nblocks
    BY <2>1, OnItsFile DEF WholeDb
  <2>5. n \in Nat /\ n > dbs[d].nblocks /\ n < Width
    BY <1>4, <2>2, <2>3, GrownSizesGrow DEF GrowsShort
  <2>6. n \in EDB_USER_DATA .. Width - 1 /\ dbs[d].ts_nblocks <= n
    BY <2>3, <2>4, <2>5, FileIoAssumption DEF EDB_USER_DATA
  <2> QED BY <2>1, <2>2, <2>6, ResizeWhole
<1>5. CASE edb_txn_commit(d)
  <2> DEFINE e == [dbs[d] EXCEPT !.txn = FALSE, !.ts_nblocks = 0]
  <2>1. dbs[d] # NULL /\ UNCHANGED <<files, fds>>
    BY <1>5 DEF edb_txn_commit
  <2>2. dbs[d] \in Edb
    BY <2>1, OpenDb DEF Inv
  <2>3. WholeDb(dbs[d], files[dbs[d].file])
    BY <2>1, OnItsFile
  <2>4. dbs' = [dbs EXCEPT ![d] = e]
    BY <1>5 DEF edb_txn_commit, Inv, DbsOK
  <2>5. e \in Edb
    BY <2>2, EdbUpdates
  <2>6. /\ e.h_file = dbs[d].h_file /\ e.file = dbs[d].file
        /\ e.nblocks = dbs[d].nblocks /\ e.txn = FALSE
    BY <2>2, EdbFields
  <2> HIDE DEF e
  <2>7. WholeDb(e, files'[e.file])
    BY <2>1, <2>3, <2>6 DEF WholeDb
  <2> QED BY <2>1, <2>4, <2>5, <2>6, <2>7, WholeStep
<1>6. CASE edb_txn_abort(d)
  <2> DEFINE n == dbs[d].ts_nblocks
             m == dbs[d].nblocks
             file == files[dbs[d].file]
             e == [dbs[d] EXCEPT !.nblocks = n, !.txn = FALSE, !.ts_nblocks = 0]
  <2>1. dbs[d] # NULL /\ dbs[d].txn /\ UNCHANGED fds
    BY <1>6 DEF edb_txn_abort
  <2>2. dbs[d] \in Edb /\ n \in Nat /\ m \in Nat
    BY <2>1, OpenDb DEF Inv
  <2>3. /\ Target(d) = dbs[d].file /\ dbs[d].file \in File
        /\ file \in FileRecord /\ WholeDb(dbs[d], file)
    BY <2>1, OnItsFile
  <2>4. /\ n >= EDB_USER_DATA /\ n < Width /\ n <= file.blocks
        /\ file.lists /\ m <= file.blocks /\ m < Width
    BY <2>1, <2>3 DEF WholeDb
  <2>5. n \in EDB_USER_DATA .. Width - 1 /\ FileSize(m) = m
    <3> HIDE DEF n, m, file
    <3>1. n \in EDB_USER_DATA .. Width - 1 /\ m \in 0 .. Width - 1
      BY <2>2, <2>4, FileIoAssumption DEF EDB_USER_DATA
    <3> QED BY <3>1, FileSizeOfFitting
  <2>6. CASE io_resize(d, n)
    <3>1. dbs[d].ts_nblocks <= n
      BY <2>2
    <3> QED BY <2>1, <2>5, <2>6, <3>1, ResizeWhole
  <2>7. CASE /\ files' = [files EXCEPT ![dbs[d].file] = Resized(@, m, n)]
             /\ dbs' = [dbs EXCEPT ![d].nblocks = n, ![d].txn = FALSE,
                                   ![d].ts_nblocks = 0]
    <3>1. dbs' = [dbs EXCEPT ![d] = e]
      BY <2>7 DEF Inv, DbsOK
    <3>3. e \in Edb
      BY <2>2, EdbUpdates
    <3>4. /\ e.h_file = dbs[d].h_file /\ e.file = dbs[d].file
          /\ e.nblocks = n /\ e.txn = FALSE
      BY <2>2, EdbFields
    <3>5. files'[dbs[d].file] = Resized(file, m, n)
      BY <2>3, <2>7 DEF Inv, FilesOK
    <3> HIDE DEF e, n, m, file
    <3>6. Resized(file, m, n).lists /\ Resized(file, m, n).blocks >= n
      BY <2>2, <2>3, <2>4, <2>5, ResizedWhole
    <3>7. WholeDb(e, files'[e.file])
      BY <2>4, <3>4, <3>5, <3>6 DEF WholeDb
    <3> QED BY <2>1, <3>1, <3>3, <3>4, <3>7, WholeStep
  <2> QED BY <1>6, <2>3, <2>5, <2>6, <2>7 DEF edb_txn_abort
<1> QED BY <1>1, <1>2, <1>3, <1>4, <1>5, <1>6 DEF Calls

\* With nothing open there is nothing to keep together.
LEMMA NoneOpenWhole ==
  ASSUME \A e \in Db : dbs[e] = NULL
  PROVE  WorkingInv
BY DEF WorkingInv, OneOpen, AllWhole, Whole

\* A working caller opens only when nothing is open, and finds a whole file.
LEMMA OpeningWhole ==
  ASSUME Inv, OneAtATime, NEW d \in Db, NEW f \in File,
         NEW overwrite \in BOOLEAN, OverwritesNew(f, overwrite),
         OpensShort(f, overwrite), Opening(d, f, FALSE, overwrite)
  PROVE  WorkingInv'
<1>1. CASE OpenFails(d, f, FALSE, overwrite) \/ InitFails(d, f)
  <2>1. dbs' = dbs
    BY <1>1 DEF OpenFails, InitFails, CloseZero, CloseAgain
  <2> QED BY <2>1, NoneOpenWhole DEF OneAtATime, WorkingInv, OneOpen, AllWhole,
                                     Whole
<1>2. CASE edb_open(d, f, FALSE, overwrite)
  <2> DEFINE n == IF overwrite THEN EDB_USER_DATA
                               ELSE InitialSize(OpenedFile(f, FALSE))
             db == [h_file |-> Lowest, file |-> f, asked |-> FALSE,
                    readonly |-> FALSE, nblocks |-> n,
                    txn |-> FALSE, ts_nblocks |-> 0]
  <2>1. IoOpens(f, FALSE, overwrite)
    BY <1>2 DEF edb_open
  <2>2. /\ files'[f].lists /\ n = files'[f].blocks
        /\ n >= EDB_USER_DATA /\ n < Width
    <3>1. files'[f] = IF overwrite THEN [Root4(f) EXCEPT !.lists = TRUE]
                                   ELSE IoOpened(f, FALSE)
      BY <1>2 DEF edb_open, Inv, FilesOK
    <3>2. CASE overwrite
      <4>1. Sized(Root4(f)) /\ Root4(f).blocks = EDB_USER_DATA
        BY <2>1, <3>2, Root4Sized DEF Inv
      <4>2. files'[f] = [Root4(f) EXCEPT !.lists = TRUE]
        BY <3>1, <3>2, Zenon
      <4>3. files'[f].lists
        BY <4>1, <4>2 DEF Sized, FileRecord
      <4>4. files'[f].blocks = EDB_USER_DATA
        BY <4>1, <4>2, ListsSized DEF EDB_USER_DATA
      <4> QED BY <3>2, <4>3, <4>4, FileIoAssumption DEF EDB_USER_DATA
    <3>3. CASE ~overwrite
      <4>1. files'[f] = IoOpened(f, FALSE)
        BY <3>1, <3>3, Zenon
      <4>2. files[f].lists /\ files[f].blocks >= EDB_USER_DATA
            /\ files[f] \in FileRecord
        BY <3>3 DEF OverwritesNew, Inv, FilesOK, Sized
      <4>3. files[f].blocks < Width /\ files[f].blocks \in 1 .. Width - 1
        BY <3>3, <4>2, FileIoAssumption DEF OpensShort, EDB_USER_DATA, FileRecord
      <4>4. IoOpens(f, FALSE, FALSE)
        BY <2>1, <3>3
      <4>5. IoOpened(f, FALSE) = files[f]
        BY <4>3, <4>4, IoOpensStep DEF Inv
      <4>6. n = files[f].blocks
        BY <3>3, <4>3, FileIoAssumption DEF OpenedFile, InitialSize
      <4> QED BY <4>1, <4>2, <4>3, <4>5, <4>6
    <3> QED BY <3>2, <3>3
  <2>3. dbs' = [dbs EXCEPT ![d] = db] /\ fds' = [fds EXCEPT ![Lowest] = f]
    BY <1>2 DEF edb_open
  <2>4. Lowest \in Fd
    BY <2>1, LowestIsFree DEF IoOpens
  <2>5. /\ db.h_file = Lowest /\ db.file = f /\ db.nblocks = n
        /\ db.txn = FALSE
    OBVIOUS
  <2> HIDE DEF db, n
  <2>6. \A e \in Db : dbs'[e] = IF e = d THEN db ELSE NULL
    BY <2>3 DEF OneAtATime, Inv, DbsOK
  <2>7. OneOpen'
    BY <2>6 DEF OneOpen
  <2>8. fds'[db.h_file] = db.file
    BY <2>3, <2>4, <2>5 DEF Inv, FdsOK
  <2>9. files'[f].blocks \in Int
    <3>1. Inv'
      BY <1>2, OpenStep
    <3> QED BY <3>1 DEF Inv, FilesOK, FileRecord
  <2>10. WholeDb(db, files'[f])
    BY <2>2, <2>5, <2>9 DEF WholeDb
  <2>11. \A e \in Db : Whole(e)'
    BY <2>5, <2>6, <2>8, <2>10 DEF Whole
  <2> QED BY <2>7, <2>11 DEF WorkingInv, AllWhole
<1> QED BY <1>1, <1>2 DEF Opening

-----------------------------------------------------------------------------

CallersInv == Inv /\ (caller = "working" => WorkingInv)

\* The stronger invariant survives every step of such a caller.
LEMMA CallersNextInv ==
  ASSUME CallersInv, [CallersNext]_callers
  PROVE  CallersInv'
<1>1. CASE UNCHANGED callers
  BY <1>1 DEF callers, vars, CallersInv, Inv, FilesOK, FdsOK, DbsOK,
              OpenFilesAreEven, WorkingInv, OneOpen, AllWhole, Whole
<1>2. CASE CallersNext
  <2>1. caller' = caller
    BY <1>2 DEF CallersNext
  <2>2. ASSUME NEW d \in Db, Calls(d) \/ (Grow(d) /\ MayGrow(d))
        PROVE  CallersInv'
    BY <2>1, <2>2, CallsInv, GrowStep, CallsWhole DEF CallersInv, MayGrow
  <2>3. ASSUME NEW d \in Db, NEW f \in File, NEW readonly \in BOOLEAN,
               NEW overwrite \in BOOLEAN, MayOpen(f, readonly, overwrite),
               Opening(d, f, readonly, overwrite)
        PROVE  CallersInv'
    <3>1. Inv'
      BY <2>3, OpeningInv DEF CallersInv
    <3>2. ASSUME caller = "working" PROVE WorkingInv'
      <4>1. /\ OneAtATime /\ OverwritesNew(f, overwrite) /\ ~readonly
            /\ OpensShort(f, overwrite)
        BY <2>3, <3>2 DEF MayOpen
      <4>2. Opening(d, f, FALSE, overwrite)
        BY <2>3, <4>1
      <4> QED BY <4>1, <4>2, OpeningWhole DEF CallersInv
    <3> QED BY <2>1, <3>1, <3>2 DEF CallersInv
  <2> QED BY <1>2, <2>2, <2>3 DEF CallersNext
<1> QED BY <1>1, <1>2

\* A caller that opens as the code expects, and whose files stay below 4 GB,
\* always finds what it has mapped on its descriptor, in its file, with both
\* lists, whichever of io_open, edb_init and io_resize fail on the way.
THEOREM WorkingFindsWhole == CallersSpec => []WorkingOpenIsWhole
<1>1. CallersInit => CallersInv
  BY InitInv, NoneOpenWhole DEF CallersInit, CallersInv, Init
<1>2. CallersInv /\ [CallersNext]_callers => CallersInv'
  BY CallersNextInv
<1>3. CallersInv => WorkingOpenIsWhole
  BY DEF CallersInv, WorkingOpenIsWhole, OpenIsWhole, WorkingInv, AllWhole,
         Whole, WholeDb
<1> QED BY <1>1, <1>2, <1>3, PTL DEF CallersSpec
=============================================================================
