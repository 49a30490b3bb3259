---------------------------- MODULE MCFileReport ----------------------------
(***************************************************************************)
(* Small instances of FileReport for TLC, and what comments of the code   *)
(* say of it.                                                               *)
(***************************************************************************)
EXTENDS FileReport

CONSTANTS f1, f2

\* Sizes in units of a quarter of the range of an int: 1 GiB in the build.
SmallFiles == [f \in Files |-> 1]
OneLargeFile == [f \in Files |-> IF f = f1 THEN 1 ELSE 3]

Symmetry == Permutations(Files)

\* The indexes that validation remembers denote, when the statistics are
\* settled by them, the files whose status it changed ("Used to indicate which
\* meaningful file status has been changed", Validator.cpp:270).
ChangedIndexesDenote ==
    main.pc = "check" /\ main.rem = 0 =>
        \A m \in main.changed :
            /\ m.idx \in 1..Len(checked_files)
            /\ checked_files[m.idx].file = m.file

\* A restart brings back every file that was stored ("Restore enclave all
\* metadata", Identity.cpp:953, id_restore_metadata).
StoredFilesAreRestored ==
    Names(db.files) \ {NoFile} \subseteq Names(Loaded(db))
=============================================================================
