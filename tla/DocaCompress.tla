---------------------------- MODULE DocaCompress ----------------------------
(***************************************************************************)
(* The DOCA compression sample (src/doca-compression/compression_local.c): *)
(* main compresses input.txt into input-comp.txt on the DOCA device, tears *)
(* the library down, initialises it again and decompresses input-comp.txt  *)
(* into input-decomp.txt, comparing the checksum the device reports with  *)
(* the one the compression reported.  The program is sequential: one      *)
(* action per phase of main, each containing every call main makes in it. *)
(* What the model keeps is the ownership of what the program creates and   *)
(* frees (the compress context, the DOCA core objects, the heap buffers),  *)
(* the output files, and every error path; each DOCA or libc call that can *)
(* fail is an input chosen by \E.  Data is abstracted to its quality:      *)
(* "good" (what it should be), "truncated" (a short write) or "garbage".  *)
(*                                                                         *)
(* main always sets compress_method = COMPRESS_DEFLATE_HW before calling   *)
(* file_compressor (line 612), and file_decompressor passes HW itself      *)
(* (line 482): the zlib branch of compress_file is unreachable and is not  *)
(* modelled.                                                               *)
(***************************************************************************)
EXTENDS Naturals

VARIABLE s

Phases == {"comp", "decomp"}
\* <<phase, "dst">>: calloc of compress_file (line 340);
\* <<phase, "job">>: calloc of populate_dst_buf (line 113).
Bufs == Phases \X {"dst", "job"}
\* "stale": a file left by an earlier run, of some other input.
Contents == {"none", "good", "truncated", "garbage", "stale"}
\* The NULL pointer.
NULL == <<"none", "none">>

(***************************************************************************)
(* s.pc          the phase of main that runs next                          *)
(* s.method      app_cfg.compress_method                                   *)
(* s.ctx         the doca_compress context: "none", "live", "freed"        *)
(* s.core        state->dev/workq/mmaps/buf_inv (init_core_objects):       *)
(*               "none", "partial" (init failed half way), "live", "freed" *)
(* s.heap[b]     "none", "live" or "freed"                                 *)
(* s.cf          the caller's compressed_file / decompressed_file pointer: *)
(*               a buffer of s.heap or NULL                                 *)
(* s.checksum    main's checksum, written by file_compressor              *)
(* s.input       contents of input.txt ("none": missing or unreadable)    *)
(* s.comp_file, s.decomp_file: contents of input-comp.txt, input-decomp.txt*)
(* s.exit        main's return: "none", "SUCCESS", "FAILURE", "ABORT"      *)
(* History, no code counterpart: s.written[f] (what this run wrote to f),  *)
(* s.double_free, s.bad_destroy (an object   *)
(* destroyed that was not live), s.hw_on_dead (a device job built on      *)
(* objects that are not live).                                             *)
(***************************************************************************)
TypeOK ==
  /\ s.pc \in {"start", "compress", "decompress", "done"}
  /\ s.method \in {"HW", "SW"}
  /\ s.ctx \in {"none", "live", "freed"}
  /\ s.core \in {"none", "partial", "live", "freed"}
  /\ s.heap \in [Bufs -> {"none", "live", "freed"}]
  /\ s.cf \in Bufs \cup {NULL}
  /\ s.checksum \in Contents
  /\ s.input \in {"none", "good"}
  /\ s.comp_file \in Contents /\ s.decomp_file \in Contents
  /\ s.exit \in {"none", "SUCCESS", "FAILURE", "ABORT"}
  /\ s.written \in [{"comp_file", "decomp_file"} -> Contents]
  /\ s.double_free \in BOOLEAN /\ s.bad_destroy \in BOOLEAN
  /\ s.hw_on_dead \in BOOLEAN

\* free(ptr): free(NULL) does nothing; a second free is recorded.
free_buf(st) ==
  CASE st.cf = NULL             -> st
    [] st.heap[st.cf] = "live"  -> [st EXCEPT !.heap[st.cf] = "freed"]
    [] OTHER                    -> [st EXCEPT !.double_free = TRUE]

\* destroy_core_objects and doca_compress_destroy (samples/common.c, DOCA).
destroy_core_objects(st) ==
  IF st.core \in {"partial", "live"} THEN [st EXCEPT !.core = "freed"]
  ELSE [st EXCEPT !.bad_destroy = TRUE]

doca_compress_destroy(st) ==
  IF st.ctx = "live" THEN [st EXCEPT !.ctx = "freed"]
  ELSE [st EXCEPT !.bad_destroy = TRUE]

(***************************************************************************)
(* file_compression_init.  outcome names the call that fails: "create"    *)
(* (doca_compress_create), "device" (open_doca_device_with_capabilities), *)
(* "core" (init_core_objects, which leaves what it opened for             *)
(* destroy_core_objects), or "ok".                                        *)
(***************************************************************************)
InitOutcomes == {"create", "device", "core", "ok"}

\* Mutant: the label's guard tests the software method.
destroy_core_objs_sw_only(st) ==
  IF st.method = "SW" THEN destroy_core_objects(st) ELSE st

\* Label destroy_core_objs: core objects exist only for the hardware method.
destroy_core_objs(st) ==
  IF st.method = "HW" THEN destroy_core_objects(st) ELSE st

file_compression_init(st, outcome) ==
  LET st0 == [st EXCEPT !.ctx = "live"]
  IN  CASE outcome = "create" -> [st |-> st, ok |-> FALSE]
        [] outcome = "device" ->
             [st |-> doca_compress_destroy([st0 EXCEPT !.method = "HW"]), ok |-> FALSE]
        [] outcome = "core"   ->
             [st |-> doca_compress_destroy(destroy_core_objs([st0 EXCEPT !.core = "partial"])),
              ok |-> FALSE]
        [] OTHER              -> [st |-> [st0 EXCEPT !.core = "live"], ok |-> TRUE]

file_compression_cleanup(st) == doca_compress_destroy(destroy_core_objects(st))

(***************************************************************************)
(* compress_file_hw.  step names the first call that fails, in the order   *)
(* of the code, or "ok".  The source mmap steps (lines 168-191) fail       *)
(* before any buffer exists; populate_dst_buf allocates its own buffer     *)
(* (the calloc result goes to its local parameter, line 113, not to the    *)
(* caller's *compressed_file), frees it on the memrange/start failures and *)
(* keeps it otherwise; process_job fails on submit, on retrieve or with   *)
(* the job's result.  On success the caller's pointer is overwritten with  *)
(* the head of the destination doca_buf (line 223).                       *)
(***************************************************************************)
SrcSteps == {"src_memrange", "src_free_cb", "src_start", "src_buf"}
DstSteps == {"dst_alloc", "dst_memrange", "dst_start", "dst_buf"}
process_job == {"submit", "retrieve", "job"}
HwSteps == SrcSteps \cup DstSteps \cup process_job \cup {"ok"}

populate_dst_buf(st, p, step) ==
  CASE step = "dst_alloc"                    -> st
    [] step \in {"dst_memrange", "dst_start"} -> [st EXCEPT !.heap[<<p, "job">>] = "freed"]
    [] OTHER                                  -> [st EXCEPT !.heap[<<p, "job">>] = "live"]

\* The device output of a job on input of quality src: a stale file is
\* another run's valid output, a truncated one decompresses to garbage.
DeviceOutput(src) == IF src = "truncated" THEN "garbage" ELSE src

compress_file_hw(st, p, step, src) ==
  LET st0 == [st EXCEPT !.hw_on_dead = @ \/ st.ctx # "live" \/ st.core # "live"]
      st1 == IF step \in SrcSteps THEN st0 ELSE populate_dst_buf(st0, p, step)
  IN  [st    |-> IF step = "ok" THEN [st1 EXCEPT !.cf = <<p, "job">>] ELSE st1,
       ok    |-> step = "ok",
       out   |-> DeviceOutput(src),
       chksum |-> DeviceOutput(src)]

\* compress_file: allocate the destination (alloc = FALSE: calloc fails),
\* then the hardware path.
compress_file(st, p, alloc, step, src) ==
  IF ~alloc THEN [st |-> [st EXCEPT !.cf = NULL], ok |-> FALSE,
                  out |-> "none", chksum |-> "none"]
  ELSE compress_file_hw([st EXCEPT !.heap[<<p, "dst">>] = "live", !.cf = <<p, "dst">>],
                        p, step, src)

(***************************************************************************)
(* write_local_file: open fails ("open", the file is left as it was),     *)
(* write is short ("short", the file was truncated by O_TRUNC), or the     *)
(* whole buffer is written.  Both failures free the buffer passed in.      *)
(***************************************************************************)
WriteOutcomes == {"open", "short", "ok"}

write_local_file(st, file, w, data) ==
  CASE w = "open"  -> free_buf(st)
    [] w = "short" -> [free_buf(st) EXCEPT ![file] = "truncated", !.written[file] = "truncated"]
    [] OTHER       -> [st EXCEPT ![file] = data, !.written[file] = data]

(***************************************************************************)
(* What the calls of one compressor/decompressor run return: read_local_   *)
(* file, calloc at line 340, the step of compress_file_hw that fails,     *)
(* write_local_file, and what a double free does (undefined: the program   *)
(* aborts or carries on).  read_local_file fails on a missing input; its   *)
(* result is ignored (lines 433, 477), and compress_file then runs on a    *)
(* NULL buffer of uninitialised length: calloc of that length may fail,   *)
(* otherwise setting the source memory range to NULL does.                 *)
(***************************************************************************)
RunOutcomes(input) ==
  {o \in [read : BOOLEAN, alloc : BOOLEAN, step : HwSteps,
          write : WriteOutcomes, abort : BOOLEAN] :
     /\ input = "none" => ~o.read
     /\ ~o.read => ~o.alloc \/ o.step = "src_memrange"}

\* The data read_local_file maps.
ReadData(input, o) == IF o.read THEN input ELSE "none"

\* file_compressor: write_local_file's result is ignored (line 456).
file_compressor(st, o) ==
  LET c == compress_file(st, "comp", o.alloc, o.step, ReadData(st.input, o))
  IN  IF ~c.ok THEN [st |-> free_buf(c.st), ok |-> FALSE]
      ELSE [st |-> write_local_file([c.st EXCEPT !.checksum = c.chksum],
                                    "comp_file", o.write, c.out),
            ok |-> TRUE]

\* Mutant: the checksum comparison is dropped.
checksum_matches_always(c, st) == TRUE

\* Line 495: the device's checksum of the output against the compressor's.
checksum_matches(c, st) == c.chksum = st.checksum

\* file_decompressor: after write_local_file, decompressed_file is freed
\* again (line 508) whether or not write_local_file already freed it.
file_decompressor(st, o) ==
  LET c == compress_file(st, "decomp", o.alloc, o.step, ReadData(st.comp_file, o))
  IN  IF ~c.ok \/ ~checksum_matches(c, st) THEN [st |-> free_buf(c.st), ok |-> FALSE]
      ELSE [st |-> free_buf(write_local_file(c.st, "decomp_file", o.write, c.out)),
            ok |-> TRUE]

\* main returns rc.
Finish(st, rc) == [st EXCEPT !.pc = "done", !.exit = rc]

\* A double free that aborts the program ends it there.
Aborted(st, o) == st.double_free /\ o.abort

(***************************************************************************)
(* main, lines 583-607: register the logger backend, initialise.           *)
(***************************************************************************)
Start ==
  /\ s.pc = "start"
  /\ \E logger \in BOOLEAN, io \in InitOutcomes :
       LET i == file_compression_init(s, io)
       IN  s' = CASE ~logger -> Finish(s, "FAILURE")
                  [] ~i.ok   -> Finish(i.st, "FAILURE")
                  [] OTHER   -> [i.st EXCEPT !.pc = "compress"]

\* Mutant: a failed re-initialisation is also cleaned up.
reinit_for_decompress_cleanup_on_failure(st, io) ==
  LET i == file_compression_init(file_compression_cleanup(st), io)
  IN  IF i.ok THEN [i.st EXCEPT !.pc = "decompress"]
      ELSE Finish(file_compression_cleanup(i.st), "FAILURE")

\* Mutant: the library is torn down and not initialised again.
reinit_for_decompress_skipped(st, io) ==
  [file_compression_cleanup(st) EXCEPT !.pc = "decompress"]

\* Lines 623-630: for the hardware method, tear down and initialise again.
reinit_for_decompress(st, io) ==
  IF st.method = "HW"
  THEN LET i == file_compression_init(file_compression_cleanup(st), io)
       IN  IF i.ok THEN [i.st EXCEPT !.pc = "decompress"] ELSE Finish(i.st, "FAILURE")
  ELSE [st EXCEPT !.pc = "decompress"]

\* main, lines 609-630: compress input.txt into input-comp.txt.
Compress ==
  /\ s.pc = "compress"
  /\ \E o \in RunOutcomes(s.input), io \in InitOutcomes :
       LET c == file_compressor([s EXCEPT !.method = "HW"], o)
       IN  s' = IF ~c.ok THEN Finish(file_compression_cleanup(c.st), "FAILURE")
                ELSE reinit_for_decompress(c.st, io)

\* main, lines 632-651: decompress input-comp.txt into input-decomp.txt.
Decompress ==
  /\ s.pc = "decompress"
  /\ \E o \in RunOutcomes(s.comp_file) :
       LET d == file_decompressor([s EXCEPT !.method = "HW"], o)
       IN  s' = CASE Aborted(d.st, o) -> Finish(d.st, "ABORT")
                  [] ~d.ok            -> Finish(file_compression_cleanup(d.st), "FAILURE")
                  [] OTHER            -> Finish(file_compression_cleanup(d.st), "SUCCESS")

\* input.txt may be missing; the output files may be left by an earlier run.
Init ==
  \E input \in {"none", "good"}, comp, decomp \in {"none", "good", "stale"} :
  s = [pc |-> "start", method |-> "HW", ctx |-> "none", core |-> "none",
       heap |-> [b \in Bufs |-> "none"], cf |-> NULL, checksum |-> "none",
       input |-> input, comp_file |-> comp, decomp_file |-> decomp, exit |-> "none",
       written |-> [f \in {"comp_file", "decomp_file"} |-> "none"], double_free |-> FALSE, bad_destroy |-> FALSE, hw_on_dead |-> FALSE]

Next == Start \/ Compress \/ Decompress

Spec == Init /\ [][Next]_s

-----------------------------------------------------------------------------
(***************************************************************************)
(* Properties                                                              *)
(***************************************************************************)

(* Whatever call fails, main returns with the compress context and the     *)
(* DOCA core objects released: every error path of file_compression_init  *)
(* and of main tears down what was created before it.                      *)
ObjectsReleasedOnExit ==
  s.pc = "done" /\ s.exit # "ABORT" => s.ctx # "live" /\ s.core \notin {"partial", "live"}

(* No object is destroyed twice or before it was created: main's teardown *)
(* between compression and decompression, and the error paths after it,   *)
(* never destroy what file_compression_init already destroyed.            *)
DestroyOnlyLive == ~s.bad_destroy

(* Device jobs are built only on a live context and live core objects,     *)
(* across the teardown and re-initialisation between the two phases.       *)
HwJobsOnLiveObjects == ~s.hw_on_dead

(* input-decomp.txt only ever receives the original data: output           *)
(* decompressed from a damaged (short write) or stale input-comp.txt is    *)
(* caught by the checksum comparison at line 495 before it is written.     *)
DecompressedOutputIsOriginal == s.written.decomp_file \in {"none", "good", "truncated"}

(* No heap buffer is freed twice.                                          *)
NoDoubleFree == ~s.double_free

(* When main returns, every buffer it allocated has been freed.            *)
NoLeakAtExit == s.pc = "done" => \A b \in Bufs : s.heap[b] # "live"

====
