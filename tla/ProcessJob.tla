------------------------------ MODULE ProcessJob ------------------------------
(***************************************************************************)
(* process_job and its two callers.  process_job (compression_local.c,    *)
(* lines 65-97, and its copy in compression_local_core.c, lines 67-99)    *)
(* submits one job to the work queue, then polls                          *)
(* doca_workq_progress_retrieve while it returns DOCA_ERROR_AGAIN,         *)
(* sleeping between polls, with no timeout.  The device runs a queued job  *)
(* concurrently with the thread and posts an event carrying the job's own *)
(* result.  Each program runs a compress job and then a decompress job,    *)
(* each in compress_file, on a work queue initialised for it:             *)
(*   sample    src/doca-compression/compression_local.c main: both jobs on *)
(*             the device; the library is torn down and initialised again  *)
(*             between them;                                               *)
(*   passthru  src/bdev-passthru-compress/compress/compression_local_main.c*)
(*             main: argv picks zlib or the device for each job, and       *)
(*             doca_compress_init's result is ignored.                     *)
(* Every library call may fail; its outcome is chosen by \E.  Buffers and *)
(* data are left out (DocaCompress, CompressPassthru): the order of the   *)
(* thread's calls and the device's progress is what is kept.              *)
(***************************************************************************)
JobIds  == {"compress", "decompress"}
Methods == {"HW", "SW"}

VARIABLES
  prog,    \* which main runs: "sample", "passthru"
  method,  \* method[j]: the job runs on the device ("HW") or in zlib ("SW")
  pc,      \* the thread: "start", "init", "setup", "submit", "poll" (in
           \* process_job), "release" (process_job returned), "reinit", "exit"
  cur,     \* the job main is running
  job,     \* job[j]: "none", "queued", or the result its event carries
           \* ("SUCCESS", "FAILED") once the device ran it
  got,     \* got[j]: the result of the event process_job retrieved for j
  wq_error,\* the work queue has failed: every retrieve returns an error
  ret,     \* what the current process_job call returned: "none", "submit",
           \* "retrieve", "job", "ok", or "again"
  slept,   \* the current call polled and slept at least once
  core,    \* the work queue, context and mmaps: "live", "destroyed"
  lost,    \* the core objects were destroyed with a job still queued
  exit     \* main's return: "none", "SUCCESS", "FAILURE", "ABORT"

vars == <<prog, method, pc, cur, job, got, wq_error, ret, slept, core, lost, exit>>

TypeOK ==
  /\ prog \in {"sample", "passthru"} /\ method \in [JobIds -> Methods]
  /\ pc \in {"start", "init", "setup", "submit", "poll", "release", "reinit", "exit"}
  /\ cur \in JobIds
  /\ job \in [JobIds -> {"none", "queued", "SUCCESS", "FAILED"}]
  /\ got \in [JobIds -> {"none", "SUCCESS", "FAILED"}] /\ wq_error \in BOOLEAN
  /\ ret \in {"none", "submit", "retrieve", "job", "ok", "again"}
  /\ slept \in BOOLEAN /\ lost \in BOOLEAN
  /\ core \in {"live", "destroyed"}
  /\ exit \in {"none", "SUCCESS", "FAILURE", "ABORT"}

Completed(j) == job[j] \in {"SUCCESS", "FAILED"}

\* file_compression_cleanup: the work queue goes, with whatever it holds.
LostAtCleanup == lost \/ \E j \in JobIds : job[j] = "queued"

Cleanup == core' = "destroyed" /\ lost' = LostAtCleanup

\* main returns rc after file_compression_cleanup.
ExitAfterCleanup(rc) == pc' = "exit" /\ exit' = rc /\ Cleanup

\* A compress_file that failed before any job exists.
SetupFailed ==
  IF prog = "sample" THEN ExitAfterCleanup("FAILURE")
  ELSE pc' = "exit" /\ exit' = "FAILURE" /\ UNCHANGED <<core, lost>>

(***************************************************************************)
(* What the caller does with compress_file's result ok.                   *)
(* sample (compression_local.c main, lines 614-651): a failure makes main  *)
(* clean up and fail; a compressed file goes on to the re-initialisation;  *)
(* a decompressed one is compared with the checksum (lines 486-497), a    *)
(* mismatch failing too, and main then cleans up and returns.             *)
(* passthru (compression_local_main.c, lines 70-110): a failure or a      *)
(* checksum mismatch returns -1 without doca_compress_cleanup; a          *)
(* compressed file is followed by doca_compress_cleanup and the           *)
(* decompression's doca_compress_init; a decompressed one by              *)
(* doca_compress_cleanup and a normal return.                             *)
(***************************************************************************)
AfterCompressFile(ok) ==
  CASE prog = "sample" ->
         CASE ~ok                -> ExitAfterCleanup("FAILURE") /\ UNCHANGED cur
           [] cur = "compress"   -> pc' = "reinit" /\ UNCHANGED <<cur, core, lost, exit>>
           [] OTHER              -> \E same \in BOOLEAN : UNCHANGED cur /\
                                      ExitAfterCleanup(IF same THEN "SUCCESS" ELSE "FAILURE")
    [] OTHER ->
         CASE ~ok                -> pc' = "exit" /\ exit' = "FAILURE"
                                      /\ UNCHANGED <<cur, core, lost>>
           [] cur = "compress"   -> pc' = "init" /\ cur' = "decompress" /\ Cleanup
                                      /\ UNCHANGED exit
           [] OTHER              -> \E same \in BOOLEAN : UNCHANGED cur /\
                                      IF same THEN ExitAfterCleanup("SUCCESS")
                                      ELSE pc' = "exit" /\ exit' = "FAILURE" /\ UNCHANGED <<core, lost>>

(***************************************************************************)
(* compress_file: the calloc of the destination, then zlib or the device. *)
(* zlib: the passthru's inflate never accepts the raw stream main writes   *)
(* (CompressPassthru!decompress_file_sw), deflate may succeed.  Device:    *)
(* compress_file_hw up to the job (compression_local.c lines 166-201),    *)
(* every call of which fails on a work queue that does not exist.         *)
(***************************************************************************)
Setup ==
  /\ pc = "setup"
  /\ \E ok \in BOOLEAN :
       IF method[cur] = "SW"
       THEN /\ ok => cur = "compress"
            /\ AfterCompressFile(ok) /\ UNCHANGED <<ret, slept>>
       ELSE /\ ok => core = "live"
            /\ IF ok THEN pc' = "submit" /\ ret' = "none" /\ slept' = FALSE
                          /\ UNCHANGED <<cur, core, lost, exit>>
               ELSE SetupFailed /\ UNCHANGED <<cur, ret, slept>>
  /\ UNCHANGED <<prog, method, job, got, wq_error>>

\* Lines 75-80: doca_workq_submit; its error is returned.
Submit ==
  /\ pc = "submit"
  /\ \E ok \in BOOLEAN :
       IF ok THEN pc' = "poll" /\ job' = [job EXCEPT ![cur] = "queued"] /\ UNCHANGED ret
       ELSE pc' = "release" /\ ret' = "submit" /\ UNCHANGED job
  /\ UNCHANGED <<prog, method, cur, got, wq_error, slept, core, lost, exit>>

\* The device runs a queued job and posts its event (DOCA, not in this
\* repository).
DeviceRun(j) ==
  /\ job[j] = "queued"
  /\ \E res \in {"SUCCESS", "FAILED"} : job' = [job EXCEPT ![j] = res]
  /\ UNCHANGED <<prog, method, pc, cur, got, wq_error, ret, slept, core, lost, exit>>

\* What one doca_workq_progress_retrieve returns: the event once the device
\* posted it, DOCA_ERROR_AGAIN before, and another error once the work
\* queue has failed.
RetrieveResults == {"event", "again", "error"}

RetrievePossible(r) ==
  CASE wq_error   -> r = "error"
    [] OTHER      -> r # "error" /\ ((r = "event") <=> Completed(cur) /\ got[cur] = "none")

\* The work queue fails (DOCA, not in this repository).
WorkqError ==
  /\ core = "live" /\ ~wq_error
  /\ wq_error' = TRUE
  /\ UNCHANGED <<prog, method, pc, cur, job, got, ret, slept, core, lost, exit>>

\* Mutant: event.result.u64 is not looked at.
FinishIgnoringEvent(r) ==
  /\ ret' = IF r = "error" THEN "retrieve" ELSE "ok"
  /\ pc' = "release"
  /\ got' = IF r = "event" THEN [got EXCEPT ![cur] = job[cur]] ELSE got

\* Lines 88-96 for a retrieve that ended the loop.
Finish(r) ==
  /\ ret' = CASE r = "error"              -> "retrieve"
              [] job[cur] = "SUCCESS"     -> "ok"
              [] OTHER                    -> "job"
  /\ pc' = "release"
  /\ got' = IF r = "event" THEN [got EXCEPT ![cur] = job[cur]] ELSE got

\* Mutant: the loop also retries a failed retrieve (while result != SUCCESS).
process_job_retries_errors(r) ==
  IF r \in {"again", "error"} THEN slept' = TRUE /\ UNCHANGED <<pc, got, ret>>
  ELSE Finish(r) /\ UNCHANGED slept

\* Mutant: one retrieve instead of a loop (if for while).
process_job_polls_once(r) ==
  IF r = "again" THEN pc' = "release" /\ ret' = "again" /\ UNCHANGED got /\ slept' = TRUE
  ELSE Finish(r) /\ UNCHANGED slept

\* Lines 83-86: nanosleep and poll again on DOCA_ERROR_AGAIN only.
process_job_poll(r) ==
  IF r = "again" THEN slept' = TRUE /\ UNCHANGED <<pc, got, ret>>
  ELSE Finish(r) /\ UNCHANGED slept

Poll ==
  /\ pc = "poll"
  /\ \E r \in RetrieveResults : RetrievePossible(r) /\ process_job_poll(r)
  /\ UNCHANGED <<prog, method, cur, job, wq_error, core, lost, exit>>

(***************************************************************************)
(* After process_job, compress_file_hw drops its buffer references (lines *)
(* 215-225).  The passthru copy then writes its byte counts to a file      *)
(* from a stack buffer (compression_local_core.c, lines 243-255), which    *)
(* write_local_file frees when the write fails: the program may abort     *)
(* there.  compress_file_hw's result is process_job's.                   *)
(***************************************************************************)
Release ==
  /\ pc = "release"
  /\ \E abort \in BOOLEAN :
       /\ abort => prog = "passthru" /\ ret = "ok"
       /\ IF abort THEN pc' = "exit" /\ exit' = "ABORT" /\ UNCHANGED <<cur, core, lost>>
          ELSE AfterCompressFile(ret = "ok")
  /\ UNCHANGED <<prog, method, job, got, wq_error, ret, slept>>

\* Lines 623-630: file_compression_cleanup, then file_compression_init,
\* which destroys what it created when it fails.
Reinit ==
  /\ pc = "reinit"
  /\ lost' = LostAtCleanup
  /\ \E ok \in BOOLEAN :
       IF ok THEN pc' = "setup" /\ cur' = "decompress" /\ core' = "live" /\ UNCHANGED exit
       ELSE pc' = "exit" /\ exit' = "FAILURE" /\ core' = "destroyed" /\ UNCHANGED cur
  /\ wq_error' = FALSE
  /\ UNCHANGED <<prog, method, job, got, ret, slept>>

\* main's first steps.  sample (lines 583-607): the logger backend and
\* file_compression_init; either failing ends main.  passthru (lines
\* 45-64): argv selects the methods, the compression defaulting to zlib
\* and the decompression to the device; a bad argument ends main.
Start ==
  /\ pc = "start"
  /\ prog = "sample" =>
       /\ \E ok \in BOOLEAN :
            IF ok THEN pc' = "setup" /\ core' = "live" /\ UNCHANGED exit
            ELSE pc' = "exit" /\ exit' = "FAILURE" /\ UNCHANGED core
       /\ UNCHANGED method
  /\ prog = "passthru" =>
       /\ \E cm, dm \in Methods \cup {"bad"} :
            IF "bad" \in {cm, dm} THEN pc' = "exit" /\ exit' = "FAILURE" /\ UNCHANGED method
            ELSE /\ pc' = "init" /\ UNCHANGED exit
                 /\ method' = [j \in JobIds |-> IF j = "compress" THEN cm ELSE dm]
       /\ UNCHANGED core
  /\ UNCHANGED <<prog, cur, job, got, wq_error, ret, slept, lost>>

\* passthru, lines 70 and 91: doca_compress_init, whose result is ignored;
\* a failed initialisation leaves no work queue.
LibInit ==
  /\ pc = "init"
  /\ pc' = "setup"
  /\ core' \in {"live", "destroyed"}
  /\ wq_error' = FALSE
  /\ UNCHANGED <<prog, method, cur, job, got, ret, slept, lost, exit>>

Init ==
  /\ prog \in {"sample", "passthru"}
  /\ method = [j \in JobIds |-> "HW"]
  /\ pc = "start" /\ cur = "compress"
  /\ job = [j \in JobIds |-> "none"] /\ got = [j \in JobIds |-> "none"]
  /\ wq_error = FALSE /\ ret = "none" /\ slept = FALSE
  /\ core = "destroyed" /\ lost = FALSE /\ exit = "none"

Next ==
  \/ Start \/ LibInit \/ Setup \/ Submit \/ (\E j \in JobIds : DeviceRun(j))
  \/ WorkqError \/ Poll \/ Release \/ Reinit

(***************************************************************************)
(* Fairness: the device completes a queued job, and main's thread, which  *)
(* only sleeps between polls, keeps running.  The first is not a property *)
(* of this code: a device that never posts the event hangs process_job,   *)
(* since the loop has no timeout.                                         *)
(***************************************************************************)
Spec ==
  /\ Init /\ [][Next]_vars
  /\ \A j \in JobIds : WF_vars(DeviceRun(j))
  /\ WF_vars(Start \/ LibInit \/ Setup \/ Submit \/ Poll \/ Release \/ Reinit)

-----------------------------------------------------------------------------
(* process_job returns success only for a job the device ran successfully *)
(* and whose event this call retrieved; a failed job or retrieve is never *)
(* reported as success (lines 88-94); main reports success only after    *)
(* every job it ran on the device was retrieved so.                       *)
ResultIsJobResult ==
  /\ pc = "release" /\ ret = "ok" => got[cur] = "SUCCESS"
  /\ exit = "SUCCESS" => \A j \in JobIds : method[j] = "HW" => got[j] = "SUCCESS"

(* Once a job is submitted process_job eventually returns, whatever the   *)
(* retrieve calls return in between, given that the device runs the job;  *)
(* and main then always returns.                                           *)
ProcessJobReturns == (pc = "poll" ~> pc = "release") /\ <>(pc = "exit")

(* Each call of the polling loop implements the one-step outcome           *)
(* DocaCompress uses for process_job: it returns once, with one of those  *)
(* outcomes.                                                               *)
Outcome == INSTANCE JobOutcome WITH
  busy <- pc \in {"submit", "poll"},
  ret  <- ret
RefinesJobOutcome == Outcome!Spec

(* The core objects are never destroyed with a job still queued on the    *)
(* device (file_compression_cleanup after a failed retrieve).             *)
NoJobLostAtCleanup == ~lost
=============================================================================
