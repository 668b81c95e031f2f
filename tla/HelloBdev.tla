------------------------------ MODULE HelloBdev ------------------------------
(***************************************************************************)
(* The hello_bdev sample (src/bdev-passthru-compress/hello_world/          *)
(* hello_bdev.c) in its compiled workload, LARGE_FILE: the input file is   *)
(* written to a bdev in buff_size chunks by one submission loop, read back *)
(* by a second loop once every write has completed, and written out to a  *)
(* file.  Everything runs on one SPDK thread; bdev I/O completions arrive  *)
(* later, one callback at a time, in any order.                            *)
(*                                                                         *)
(* Each C function is an operator from the program state s (one record) to *)
(* the next, so that a callback can call hello_read, spdk_bdev_free_io can *)
(* run an io_wait continuation, and the step stays one action, as in the  *)
(* code.  Sizes and offsets are in bytes of the abstract unit BuffSize.    *)
(***************************************************************************)
EXTENDS Integers, FiniteSets

CONSTANTS
  BuffSize,       \* hello_context->buff_size = MAX_BLOCK_SIZE
  FileSizes,      \* possible sizes of input_file (file_in_size)
  PoolSize,       \* spdk_bdev_io objects the channel can hold at once
  SubmitMayFail   \* whether spdk_bdev_read/write may fail hard (not -ENOMEM)

ASSUME BuffSize \in Nat \ {0}
ASSUME FileSizes \subseteq Nat /\ PoolSize \in Nat
ASSUME SubmitMayFail \in BOOLEAN

VARIABLE s

(***************************************************************************)
(* s.started       hello_start has run                                     *)
(* s.file_in_size  bytes read from input_file                              *)
(* s.bdev_write_offset, s.bdev_read_offset, s.file_write_offset,           *)
(* s.file_read_offset: the four globals of the same names                  *)
(* s.writes, s.reads: offsets of bdev I/Os submitted and not completed     *)
(* s.free_ios      spdk_bdev_io objects left in the channel's pool         *)
(* s.io_wait       the continuation in hello_context->bdev_io_wait         *)
(* s.stops, s.exit_rc: spdk_app_stop calls and the rc it was last given    *)
(* s.puts          spdk_put_io_channel (+ spdk_bdev_close) calls           *)
(* History, no code counterpart: s.write_sent (offsets ever submitted for  *)
(* writing), s.written (written successfully), s.read_ok (read            *)
(* successfully).                                                          *)
(***************************************************************************)
MaxOffset == IF FileSizes = {} THEN 0
             ELSE CHOOSE m \in FileSizes : \A f \in FileSizes : f <= m
Offsets == {k * BuffSize : k \in 0 .. (MaxOffset + BuffSize - 1) \div BuffSize}

\* The chunk offsets of the input file.
Chunks(st) == {o \in Offsets : o < st.file_in_size}

TypeOK ==
  /\ s.started \in BOOLEAN
  /\ s.file_in_size \in FileSizes
  /\ {s.bdev_write_offset, s.bdev_read_offset,
      s.file_write_offset, s.file_read_offset} \subseteq Nat
  /\ s.writes \subseteq Offsets /\ s.reads \subseteq Offsets
  /\ s.free_ios \in 0 .. PoolSize
  /\ s.io_wait \in {"none", "hello_write", "hello_read"}
  /\ s.stops \in Nat /\ s.exit_rc \in {0, -1} /\ s.puts \in Nat
  /\ s.write_sent \subseteq Offsets /\ s.written \subseteq Offsets
  /\ s.read_ok \subseteq Offsets

\* spdk_app_stop (framework): the application's rc is the last one given.
spdk_app_stop(st, rc) == [st EXCEPT !.stops = @ + 1, !.exit_rc = rc]

\* spdk_put_io_channel and the spdk_bdev_close that always follows it.
put_channel_and_close(st) == [st EXCEPT !.puts = @ + 1]

(***************************************************************************)
(* The submission loop shared by hello_write and hello_read (lines 264-270 *)
(* and 171-177): submit at every offset below file_in_size, advancing the  *)
(* offset whatever spdk_bdev_write/read returned; rc keeps only the last   *)
(* return ("OK" stands for 0).  A submission takes a bdev_io from the      *)
(* pool, or returns -ENOMEM when the pool is empty; offsets in errs fail   *)
(* hard.                                                                   *)
(***************************************************************************)
RECURSIVE SubmitLoop(_, _, _, _, _, _)
SubmitLoop(off, size, free, sent, rc, errs) ==
  IF off >= size THEN [off |-> off, free |-> free, sent |-> sent, rc |-> rc]
  ELSE IF free = 0 THEN SubmitLoop(off + BuffSize, size, free, sent, "ENOMEM", errs)
  ELSE IF off \in errs THEN SubmitLoop(off + BuffSize, size, free, sent, "EIO", errs)
  ELSE SubmitLoop(off + BuffSize, size, free - 1, sent \cup {off}, "OK", errs)

\* After a loop: -ENOMEM queues the function itself on io_wait, any other
\* error tears down and stops the application with -1.
AfterLoop(st, rc, self) ==
  CASE rc = "ENOMEM" -> [st EXCEPT !.io_wait = self]
    [] rc = "EIO"    -> spdk_app_stop(put_channel_and_close(st), -1)
    [] OTHER         -> st

hello_write(st, errs) ==
  LET l == SubmitLoop(st.bdev_write_offset, st.file_in_size, st.free_ios, {}, "OK", errs)
  IN  AfterLoop([st EXCEPT !.bdev_write_offset = l.off, !.free_ios = l.free,
                           !.writes = @ \cup l.sent, !.write_sent = @ \cup l.sent],
                l.rc, "hello_write")

hello_read(st, errs) ==
  LET l == SubmitLoop(st.bdev_read_offset, st.file_in_size, st.free_ios, {}, "OK", errs)
  IN  AfterLoop([st EXCEPT !.bdev_read_offset = l.off, !.free_ios = l.free,
                           !.reads = @ \cup l.sent],
                l.rc, "hello_read")

(***************************************************************************)
(* spdk_bdev_free_io (framework): the bdev_io goes back to the channel's   *)
(* cache and, while the io_wait queue is not empty, its entries run right  *)
(* there, inside the call.                                                 *)
(***************************************************************************)
spdk_bdev_free_io(st, errs) ==
  LET st1 == [st EXCEPT !.free_ios = @ + 1, !.io_wait = "none"]
  IN  CASE st.io_wait = "hello_write" -> hello_write(st1, errs)
        [] st.io_wait = "hello_read"  -> hello_read(st1, errs)
        [] OTHER                      -> [st EXCEPT !.free_ios = @ + 1]

\* Mutant: the last chunk's completion is not waited for.
all_written_but_one(st) == st.file_write_offset >= st.file_in_size - BuffSize

\* Line 237: every write has completed.
all_written(st) == st.file_write_offset >= st.file_in_size

\* Mutant: the last chunk's completion is not waited for.
all_read_but_one(st) == st.file_read_offset >= st.file_in_size - BuffSize

\* Line 123: every read has completed.
all_read(st) == st.file_read_offset >= st.file_in_size

\* write_complete, LARGE_FILE branch.
write_complete(st, off, success, errs) ==
  LET st0 == [st EXCEPT !.writes = @ \ {off}]
      st1 == [spdk_bdev_free_io(st0, errs) EXCEPT !.file_write_offset = @ + BuffSize,
                                                  !.written = @ \cup {off}]
  IN  IF ~success THEN spdk_app_stop(put_channel_and_close(st0), -1)
      ELSE IF all_written(st1) THEN hello_read(st1, errs)
      ELSE st1

\* Mutant: every read completion frees its bdev_io, and the last one frees
\* it a second time at line 127.
read_complete_double_free(st, off, success, out_ok, errs) ==
  LET st0 == [st EXCEPT !.reads = @ \ {off}, !.file_read_offset = @ + BuffSize,
                        !.read_ok = IF success THEN @ \cup {off} ELSE @,
                        !.free_ios = @ + 1]
      st1 == spdk_bdev_free_io(st0, errs)
  IN  IF ~all_read(st0) THEN st0
      ELSE IF ~out_ok THEN spdk_app_stop(st1, -1)
      ELSE spdk_app_stop(put_channel_and_close(st1), 0)

(***************************************************************************)
(* read_complete, LARGE_FILE branch: success is only logged (under         *)
(* PROG_DEBUG); the bdev_io is freed only by the completion that finds all *)
(* reads done, which then writes output_file (fopen may fail: out_ok) and  *)
(* stops the application.                                                  *)
(***************************************************************************)
read_complete(st, off, success, out_ok, errs) ==
  LET st0 == [st EXCEPT !.reads = @ \ {off}, !.file_read_offset = @ + BuffSize,
                        !.read_ok = IF success THEN @ \cup {off} ELSE @]
      st1 == spdk_bdev_free_io(st0, errs)
  IN  IF ~all_read(st0) THEN st0
      ELSE IF ~out_ok THEN spdk_app_stop(st1, -1)
      ELSE spdk_app_stop(put_channel_and_close(st1), 0)

(***************************************************************************)
(* hello_start: open the bdev, read input_file into input_data, get an I/O *)
(* channel, then hello_write.  outcome names the first call that fails.    *)
(***************************************************************************)
StartOutcomes == {"ok", "open_ext", "fopen", "get_io_channel"}

hello_start(st, outcome, errs) ==
  LET st0 == [st EXCEPT !.started = TRUE]
  IN  CASE outcome = "open_ext"       -> spdk_app_stop(st0, -1)
        [] outcome = "fopen"          -> spdk_app_stop(st0, -1)
        [] outcome = "get_io_channel" -> spdk_app_stop(st0, -1)
        [] OTHER                      -> hello_write(st0, errs)

\* The offsets whose submission may fail hard in one step.
ErrSets == IF SubmitMayFail THEN SUBSET Offsets ELSE {{}}

Start ==
  /\ ~s.started
  /\ \E outcome \in StartOutcomes, errs \in ErrSets : s' = hello_start(s, outcome, errs)

WriteComplete ==
  \E off \in s.writes, success \in BOOLEAN, errs \in ErrSets :
    s' = write_complete(s, off, success, errs)

ReadComplete ==
  \E off \in s.reads, success, out_ok \in BOOLEAN, errs \in ErrSets :
    s' = read_complete(s, off, success, out_ok, errs)

Init ==
  \E size \in FileSizes :
    s = [started |-> FALSE, file_in_size |-> size,
         bdev_write_offset |-> 0, bdev_read_offset |-> 0,
         file_write_offset |-> 0, file_read_offset |-> 0,
         writes |-> {}, reads |-> {}, free_ios |-> PoolSize, io_wait |-> "none",
         stops |-> 0, exit_rc |-> 0, puts |-> 0,
         write_sent |-> {}, written |-> {}, read_ok |-> {}]

Next == Start \/ WriteComplete \/ ReadComplete

(***************************************************************************)
(* spdk_app_start runs hello_start, and every submitted bdev I/O completes *)
(* (the bdev layer guarantees a completion callback).                      *)
(***************************************************************************)
Spec == Init /\ [][Next]_s /\ WF_s(Start) /\ WF_s(WriteComplete) /\ WF_s(ReadComplete)


-----------------------------------------------------------------------------
(***************************************************************************)
(* Properties                                                              *)
(***************************************************************************)

(* The read-back starts only once every chunk of the file has been written *)
(* successfully and no write is still in flight: write_complete counts     *)
(* only successful completions before calling hello_read, whatever order   *)
(* the completions arrive in.                                              *)
ReadsOnlyAfterAllWritten ==
  s.bdev_read_offset > 0 => Chunks(s) \subseteq s.written /\ s.writes = {}

(* When the application stops with 0 the channel is released with no I/O   *)
(* outstanding on it: read_complete stops only after the last read has     *)
(* completed.                                                              *)
CleanSuccessfulExit ==
  s.stops > 0 /\ s.exit_rc = 0 => s.writes = {} /\ s.reads = {}

(* Every chunk the write loop has moved past was submitted: the loop never *)
(* skips part of the file.                                                 *)
NoChunkSkipped ==
  \A o \in Chunks(s) : o < s.bdev_write_offset => o \in s.write_sent

(* An exit code of 0 means every chunk was read back successfully (the     *)
(* non-LARGE_FILE branch of read_complete stops with success ? 0 : -1).    *)
SuccessfulExitReadEverything ==
  s.stops > 0 /\ s.exit_rc = 0 => Chunks(s) \subseteq s.read_ok

(* The I/O channel is released, and the bdev closed, at most once.         *)
ChannelReleasedOnce == s.puts <= 1

(* The application eventually stops (spdk_app_stop is called).            *)
AppEventuallyStops == <>(s.stops > 0)

=============================================================================
