--------------------------- MODULE MCEnclaveTasks ---------------------------
(***************************************************************************)
(* A small instance of EnclaveTasks for TLC.                                 *)
(***************************************************************************)
EXTENDS EnclaveTasks, TLC

CONSTANTS h, l, u

\* Three threads. h serves a client, l makes the tasks of low priority, and u
\* stands for several, whose calls it makes one after the other: it starts the
\* process, with an upgrade or without, reports and runs the main loop.
Worker ==
    h :> {"seal_file"}
      @@ l :> {"srd_increase"}
      @@ u :> {"restore_from_upgrade", "gen_and_upload_work_report",
              "main_loop"}
=============================================================================
