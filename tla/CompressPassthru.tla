--------------------------- MODULE CompressPassthru ---------------------------
(***************************************************************************)
(* The compression copy used by the passthru bdev                          *)
(* (src/bdev-passthru-compress/compress/): main in                          *)
(* compression_local_main.c reads input_files with read_local_file_naive, *)
(* compresses it with compress_file (zlib or DOCA, argv[1]), writes        *)
(* input_file_comp, reads it back, decompresses it (argv[2]) and, if the   *)
(* checksums agree, writes input_file_decomp.  main ignores what           *)
(* read_local_file_naive, doca_compress_init and write_local_file return. *)
(*                                                                         *)
(* One action per phase of main, each holding every call of that phase.   *)
(* Every call that can fail is an input chosen by \E.  Data is a label of  *)
(* what a buffer or file means: "good" (the input), "partial" (the input   *)
(* read with every chunk copied to offset 0), "empty" (zero bytes),        *)
(* "stale" (an earlier run's file), "noise" (a corrupted stream or a short *)
(* write).  A deflate stream is labelled by what it inflates to, so a     *)
(* successful compress or decompress job keeps the label, and a checksum   *)
(* is the label of the data it was computed over.                         *)
(***************************************************************************)
EXTENDS Naturals, Sequences

\* Contents input_files may have: "none" (missing), "small", "large" (more
\* than the 1 MiB chunk of read_local_file_naive).
CONSTANT Inputs

VARIABLE s

NULL  == "NULL"
STACK == "stack"     \* char buf[100] of compress_file_hw (line 244)
\* in_*: read of input_files, cin_*: read of input_file_comp (line 467, 470);
\* *_dst: calloc of compress_file (line 417); *_job: populate_dst_buf's (115).
Bufs == {"in_chunk", "in_data", "cin_chunk", "cin_data",
         "comp_dst", "comp_job", "dec_dst", "dec_job"}
Data == {"none", "good", "partial", "empty", "stale", "noise"}
Files == [data : Data, tail : BOOLEAN]

(***************************************************************************)
(* s.pc, s.cm, s.dm  phase of main, compress_method, decompress_method     *)
(* s.ctx           compress context: none/live/freed                       *)
(* s.core          core objects (device, mmaps, inventory, workq): none/live *)
(* s.heap[b]         none/live/freed                                       *)
(* s.fd              label of the bytes at file_data ("null": NULL)         *)
(* s.cf, s.cf_data   compressed_file and what its stream inflates to        *)
(* s.df              decompressed_file                                     *)
(* s.original_checksum, s.checksum                                         *)
(* s.input, s.comp, s.decomp  the files; tail: bytes past the last write   *)
(* History: s.failed (some call failed), s.written (what main passed to    *)
(* the write of input_file_decomp), s.double_free, s.invalid_free,         *)
(* s.uaf, s.bad_destroy (a context destroyed that is not live).           *)
(***************************************************************************)
TypeOK ==
  /\ s.pc \in {"args", "compress", "decompress", "done"}
  /\ s.cm \in {"HW", "SW"} /\ s.dm \in {"HW", "SW"}
  /\ s.ctx \in {"none", "live", "freed"} /\ s.core \in {"none", "live"}
  /\ s.heap \in [Bufs -> {"none", "live", "freed"}]
  /\ s.fd \in Data \cup {"null"}
  /\ s.cf \in Bufs \cup {NULL} /\ s.cf_data \in Data
  /\ s.df \in Bufs \cup {NULL}
  /\ s.original_checksum \in Data /\ s.checksum \in Data
  /\ s.input \in Inputs /\ s.comp \in Files /\ s.decomp \in Files
  /\ s.exit \in {"none", "SUCCESS", "FAILURE", "ABORT"}
  /\ s.written \in Data
  /\ {s.failed, s.double_free, s.invalid_free, s.uaf,
      s.bad_destroy} \subseteq BOOLEAN

\* free(p): the stack buffer is not heap memory; a freed buffer is freed twice.
free_ptr(st, p) ==
  CASE p = NULL                -> st
    [] p = STACK               -> [st EXCEPT !.invalid_free = TRUE]
    [] st.heap[p] = "live"     -> [st EXCEPT !.heap[p] = "freed"]
    [] OTHER                   -> [st EXCEPT !.double_free = TRUE]

(***************************************************************************)
(* read_local_file_naive of a file whose data is d.  r names the check     *)
(* that fails: "open", "fstat", "size" (empty or over MAX_FILE_SIZE), or   *)
(* "ok".  big: the file is over the 1 MiB chunk, so the memcpy to offset 0 *)
(* (line 475) leaves the last chunk at the start and the rest of the       *)
(* malloc uninitialised.  On failure *file_data is left as it was.  The   *)
(* chunk buffer and the FILE are never released.                          *)
(***************************************************************************)
ReadOutcomes == {"open", "fstat", "size", "ok"}

read_local_file_naive(st, b, d, big, r) ==
  IF r # "ok" THEN [st |-> st, ok |-> FALSE, data |-> "none"]
  ELSE [st   |-> [st EXCEPT !.heap[b \o "_chunk"] = "live", !.heap[b \o "_data"] = "live"],
        ok   |-> TRUE,
        data |-> IF ~big THEN d ELSE IF d = "good" THEN "partial" ELSE "noise"]

(***************************************************************************)
(* doca_compress_init: lg = FALSE is a failing                              *)
(* doca_log_create_standard_backend; i names the call of                  *)
(* file_compression_init that fails.  The goto labels run                  *)
(* destroy_core_objects and doca_compress_destroy on what was created.    *)
(***************************************************************************)
InitOutcomes == {"create", "device", "core", "ok"}

\* destroy_core_objects (DOCA samples/common.c) destroys the members that
\* are not NULL and sets them to NULL.  doca_compress_destroy leaves the
\* caller's compress_ctx and state->ctx pointing at the destroyed context.
destroy_core_objects(st) == [st EXCEPT !.core = "none"]

doca_compress_destroy(st) ==
  CASE st.ctx = "live"  -> [st EXCEPT !.ctx = "freed"]
    [] st.ctx = "freed" -> [st EXCEPT !.bad_destroy = TRUE]
    [] OTHER            -> st

file_compression_init(st, i) ==
  LET st0 == [st EXCEPT !.ctx = "live"]
  IN  CASE i = "create" -> st
        [] i = "device" -> doca_compress_destroy(st0)
        [] i = "core"   -> doca_compress_destroy(destroy_core_objects([st0 EXCEPT !.core = "live"]))
        [] OTHER        -> [st0 EXCEPT !.core = "live"]

doca_compress_init(st, lg, i) == IF lg THEN file_compression_init(st, i) ELSE st

file_compression_cleanup(st) == doca_compress_destroy(destroy_core_objects(st))

doca_compress_cleanup(st) == file_compression_cleanup(st)

WriteOutcomes == {"open", "short", "ok"}

\* write_local_file: opens without O_TRUNC, frees file_data when open or
\* write fails.  A short write leaves a broken file.
write_local_file(st, f, p, d, w) ==
  IF w = "ok" THEN [st EXCEPT ![f].data = d]
  ELSE LET st1 == free_ptr(st, p)
       IN  IF w = "open" THEN st1 ELSE [st1 EXCEPT ![f].data = "noise"]

(***************************************************************************)
(* compress_file_hw.  step names the first call that fails, in the order   *)
(* of the code, or "ok".  Source mmap steps (lines 179-208) come before    *)
(* any buffer; populate_dst_buf callocs into its local parameter (line     *)
(* 115), frees it on the memrange and start failures, and on the           *)
(* set_free_cb failure munmaps *dst_buffer (the zeroed first word: a no-op)*)
(* and keeps it.  On success *compressed_file becomes the head of that     *)
(* buffer (line 240), and "compress_size" is written from the stack buffer *)
(* buf, which write_local_file frees when it fails (sw): freeing a stack   *)
(* address is undefined, glibc aborts or carries on (abort).  With no     *)
(* core objects (NULL mmaps), or a NULL source, the first memrange fails.  *)
(***************************************************************************)
SrcSteps == {"src_memrange", "src_free_cb", "src_start", "src_buf"}
DstSteps == {"dst_alloc", "dst_memrange", "dst_free_cb", "dst_start", "dst_buf"}
process_job == {"submit", "retrieve", "job"}
HwSteps == SrcSteps \cup DstSteps \cup process_job \cup {"ok"}

populate_dst_buf(st, p, step) ==
  CASE step = "dst_alloc"                     -> st
    [] step \in {"dst_memrange", "dst_start"} -> [st EXCEPT !.heap[p \o "_job"] = "freed"]
    [] OTHER                                  -> [st EXCEPT !.heap[p \o "_job"] = "live"]

HwStepPossible(st, method, src, step) ==
  method = "HW" /\ (st.core = "none" \/ src = "null") => step = "src_memrange"


compress_file_hw(st, p, src, step, sw, abort) ==
  LET st1 == IF step \in SrcSteps THEN st ELSE populate_dst_buf(st, p, step)
      st2 == IF sw = "ok" THEN st1 ELSE free_ptr(st1, STACK)
  IN  IF step # "ok" THEN [st |-> st1, ok |-> FALSE, abort |-> FALSE, chksum |-> "none"]
      ELSE [st |-> [st2 EXCEPT !.cf = p \o "_job"], ok |-> TRUE,
            abort |-> sw # "ok" /\ abort, chksum |-> src]

(***************************************************************************)
(* compress_file.  The destination is calloc'ed first (line 417; alloc =   *)
(* FALSE: it fails).  zlib compress: checksum of the source, then a raw    *)
(* deflate (windowBits -MAX_WBITS, line 324); with file_data NULL and the  *)
(* uninitialised file_len of main (zlen: it happens to be 0) the stream is *)
(* empty, otherwise deflate rejects the NULL input.  zlib decompress:      *)
(* inflateInit2 with MAX_WBITS (line 271) expects a zlib header that the   *)
(* raw stream does not have, and inflate fails.  The result pointer is     *)
(* returned in field cf.                                                   *)
(***************************************************************************)
\* calculate_checksum_sw: crc32 and adler32 of a NULL buffer are those of
\* no bytes.
calculate_checksum_sw(src) == IF src = "null" THEN "empty" ELSE src

\* compress_file_sw: deflate fails only on the NULL input with a length.
compress_file_sw(src, zlen) == src # "null" \/ zlen

\* decompress_file_sw: no stream main produces has a zlib header.
decompress_file_sw(src) == FALSE

compress_file(st, p, compress, method, src, alloc, step, sw, abort, zlen) ==
  LET dst == p \o "_dst"
      st0 == [st EXCEPT !.heap[dst] = "live", !.cf = dst]
  IN  CASE ~alloc ->
             [st |-> [st EXCEPT !.cf = NULL], ok |-> FALSE, abort |-> FALSE, chksum |-> "none"]
        [] method = "SW" /\ compress ->
             [st |-> st0, ok |-> compress_file_sw(src, zlen), abort |-> FALSE,
              chksum |-> calculate_checksum_sw(src)]
        [] method = "SW" ->
             [st |-> st0, ok |-> decompress_file_sw(src), abort |-> FALSE, chksum |-> "none"]
        [] OTHER -> compress_file_hw(st0, p, src, step, sw, abort)


\* The comparison of line 99.
checksums_match_always(a, b) == TRUE
checksums_match(a, b) == a = b

\* Mutant: the decompression error path also releases compressed_file.
decompress_failure_frees_both(st) ==
  [free_ptr(free_ptr(st, st.df), st.cf) EXCEPT !.pc = "done", !.exit = "FAILURE"]

\* Lines 94-103: free(decompressed_file); return -1.
decompress_failure(st) ==
  [free_ptr(st, st.df) EXCEPT !.pc = "done", !.exit = "FAILURE"]

(***************************************************************************)
(* main.  Inputs a call of a phase does not reach are fixed to success     *)
(* (Reached), so that s.failed records only calls that ran and failed.     *)
(***************************************************************************)
Args == {"none", "hw", "sw", "bad"}
Method(a, default) == CASE a = "hw" -> "HW" [] a = "sw" -> "SW" [] OTHER -> default

\* Lines 45-64: argv[1] and argv[2] select the methods.
ParseArgs ==
  /\ s.pc = "args"
  /\ \E a1, a2 \in Args :
       /\ a2 # "none" => a1 # "none"
       /\ s' = IF "bad" \in {a1, a2}
               THEN [s EXCEPT !.pc = "done", !.exit = "FAILURE", !.failed = TRUE]
               ELSE [s EXCEPT !.pc = "compress", !.cm = Method(a1, "SW"),
                              !.dm = Method(a2, "HW")]

Reached(method, lg, i, step, sw, abort, zlen, src) ==
  /\ ~lg => i = "ok"
  /\ method = "SW" => step = "ok" /\ sw = "ok"
  /\ sw = "ok" => ~abort
  /\ zlen => src = "null"

Failed(r, lg, i, alloc, step, sw, w) ==
  r # "ok" \/ ~lg \/ i # "ok" \/ ~alloc \/ step # "ok" \/ sw # "ok" \/ w # "ok"

\* Lines 66-82: read the input, init, compress; on failure free and return
\* -1, otherwise clean up and write input_file_comp.
Compress ==
  /\ s.pc = "compress"
  /\ \E r \in ReadOutcomes, lg \in BOOLEAN, i \in InitOutcomes, alloc \in BOOLEAN,
        step \in HwSteps, sw \in WriteOutcomes, abort \in BOOLEAN,
        zlen \in BOOLEAN, w \in WriteOutcomes :
       LET rd  == read_local_file_naive(s, "in", "good", s.input = "large", r)
           st1 == [rd.st EXCEPT !.fd = IF rd.ok THEN rd.data ELSE "null"]
           st2 == doca_compress_init(st1, lg, i)
           cr  == compress_file(st2, "comp", TRUE, s.cm, st1.fd, alloc, step, sw, abort, zlen)
           st3 == doca_compress_cleanup(cr.st)
           st4 == write_local_file(st3, "comp", st3.cf, cr.chksum, w)
       IN  /\ s.input = "none" => r = "open"
           /\ Reached(s.cm, lg, i, step, sw, abort, zlen, st1.fd)
           /\ HwStepPossible(st2, s.cm, st1.fd, step)
           /\ ~cr.ok \/ cr.abort => w = "ok"
           /\ s' = CASE ~cr.ok   -> [free_ptr(cr.st, cr.st.cf) EXCEPT !.pc = "done",
                                       !.exit = "FAILURE", !.failed = TRUE]
                     [] cr.abort -> [cr.st EXCEPT !.pc = "done", !.exit = "ABORT"]
                     [] OTHER    -> [st4 EXCEPT !.pc = "decompress", !.cf_data = cr.chksum,
                                       !.original_checksum = cr.chksum,
                                       !.failed = Failed(r, lg, i, alloc, step, sw, w)]

(***************************************************************************)
(* Lines 87-113.  When the read of input_file_comp fails, compressed_file  *)
(* still points at the compression's buffer, which the write freed if it  *)
(* failed: the job then reads freed memory, whose bytes are still the      *)
(* stream or have been reused (uaf_data).                                  *)
(***************************************************************************)
Decompress ==
  /\ s.pc = "decompress"
  /\ \E r \in ReadOutcomes, big \in BOOLEAN, lg \in BOOLEAN, i \in InitOutcomes,
        alloc \in BOOLEAN, step \in HwSteps, sw \in WriteOutcomes, abort \in BOOLEAN,
        w \in WriteOutcomes, uaf_data \in {s.cf_data, "noise"} :
       LET rd   == read_local_file_naive(s, "cin", s.comp.data, big, r)
           dead == ~rd.ok /\ s.heap[s.cf] # "live"
           src  == CASE rd.ok -> rd.data [] dead -> uaf_data [] OTHER -> s.cf_data
           st1  == IF rd.ok THEN [rd.st EXCEPT !.cf = "cin_data", !.cf_data = rd.data]
                   ELSE [s EXCEPT !.uaf = @ \/ dead]
           st2  == doca_compress_init(st1, lg, i)
           cr   == compress_file(st2, "dec", FALSE, s.dm, src, alloc, step, sw, abort, FALSE)
           st3  == [cr.st EXCEPT !.df = cr.st.cf, !.cf = st1.cf, !.checksum = cr.chksum,
                      !.failed = @ \/ Failed(r, lg, i, alloc, step, sw, w)]
           st4  == doca_compress_cleanup(st3)
       IN  /\ big => s.input = "large"
           /\ s.comp.data = "none" => r = "open"
           /\ ~dead => uaf_data = s.cf_data
           /\ Reached(s.dm, lg, i, step, sw, abort, FALSE, src)
           /\ HwStepPossible(st2, s.dm, src, step)
           /\ ~cr.ok \/ cr.abort \/ ~checksums_match(cr.chksum, s.original_checksum) => w = "ok"
           /\ s' = CASE ~cr.ok   -> decompress_failure(st3)
                     [] cr.abort -> [st3 EXCEPT !.pc = "done", !.exit = "ABORT"]
                     [] ~checksums_match(cr.chksum, s.original_checksum) -> decompress_failure(st3)
                     [] OTHER    -> [write_local_file(st4, "decomp", st4.df, cr.chksum, w)
                                       EXCEPT !.pc = "done", !.exit = "SUCCESS",
                                              !.written = cr.chksum]

LeftOver == {[data |-> "none", tail |-> FALSE]} \cup [data : {"stale"}, tail : BOOLEAN]

Init ==
  \E in \in Inputs, comp, decomp \in LeftOver :
    s = [pc |-> "args", cm |-> "SW", dm |-> "HW", ctx |-> "none", core |-> "none",
         heap |-> [b \in Bufs |-> "none"], fd |-> "null", cf |-> NULL,
         cf_data |-> "none", df |-> NULL, original_checksum |-> "none",
         checksum |-> "none", input |-> in, comp |-> comp, decomp |-> decomp,
         exit |-> "none", written |-> "none", failed |-> FALSE,
         double_free |-> FALSE, invalid_free |-> FALSE, uaf |-> FALSE,
         bad_destroy |-> FALSE]

Next == ParseArgs \/ Compress \/ Decompress

Spec == Init /\ [][Next]_s

(***************************************************************************)
(* Properties.                                                             *)
(***************************************************************************)

\* The data main hands to the write of input_file_decomp is never an earlier
\* run's file nor a corrupted stream: the checksum comparison of line 99
\* catches a stale input_file_comp, a freed compressed_file and a broken read.
NoForeignOutput == s.written \notin {"stale", "noise"}

\* No heap buffer is freed twice on any error path of main.
NoDoubleFree == ~s.double_free

\* doca_compress_destroy is only called on a live context: main ignores what
\* doca_compress_init returns (lines 70, 91) and cleans up regardless.
DestroyOnlyLive == ~s.bad_destroy

\* free is only called on heap memory (compress_file_hw line 253).
NoInvalidFree == ~s.invalid_free

\* When main wrote input_file_decomp in full, the file holds exactly that
\* data, with nothing of an earlier file after it (write_local_file, 535).
DecompressedFileIsExact ==
  s.written # "none" /\ s.decomp.data = s.written => ~s.decomp.tail

\* When read_local_file_naive read the input (lines 440-487) and main
\* exits successfully, the data compressed, and checksummed, is the input
\* file's: every chunk lands at its own offset (line 475).
CompressedDataIsInput ==
  s.exit = "SUCCESS" /\ s.fd # "null" => s.original_checksum = "good"

\* main exits successfully only when the input was read: a failed
\* read_local_file_naive leaves file_data NULL and file_len uninitialised
\* (lines 37-38, 67) and compress_file still runs on them.
SuccessMeansInputRead == s.exit = "SUCCESS" => s.fd # "null"

\* main fails only when some call it made failed (zlib inflate, line 271).
FailureOnlyFromFailedCall == s.pc = "done" /\ s.exit = "FAILURE" => s.failed
====
