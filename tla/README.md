# TLA+ models of FlexBSO

This directory holds TLA+ models of the C code under `src/`, the TLC
configurations that check them, and `PROJECT.json`, which lists every
component, run, mutant, source mapping, finding and hazard.

## The system

The repository has three independent programs.

- **RAID-1 module** (`src/raid/raid1.c`). It is an SPDK `raid_bdev` module
  that mirrors writes to every base bdev and sends each read to the least
  loaded mirror. It plugs into the generic RAID framework (`bdev_raid.c`),
  which is not in this repository. `spec.md` describes that framework.
  - Per raid I/O channel, which means per SPDK thread, the module keeps one
    counter per base bdev: `read_blocks_outstanding[i]`.
  - A request is a `struct raid_bdev_io`. Its fields
    `base_bdev_io_remaining`, `base_bdev_io_submitted` and
    `base_bdev_io_status` are shared with the framework's aggregator
    `raid_bdev_io_complete_part`.
  - A submission can return `-ENOMEM`. The request is then parked with
    `raid_bdev_queue_io_wait` and resubmitted by `_raid1_submit_rw_request`.
  - A base bdev can vanish from the channel (`base_channel[i] == NULL`) at
    any time. The framework stops that once only `base_bdevs_constraint`
    (1) mirror would be left.
  - Sub-I/O completions come back later, one callback at a time, in any
    order.
  - `raid1_start` sizes the array and registers `r1info` as an SPDK
    io_device, whose per-thread channel holds the counters; `raid1_stop`
    unregisters it, and SPDK calls back once every thread has put its
    channel, which reports the stop and frees `r1info`.
- **hello_bdev** (`src/bdev-passthru-compress/hello_world/hello_bdev.c`).
  It is a test driver. It reads a file, writes it to a bdev in `buff_size`
  chunks, reads the chunks back once every write has completed, and writes
  them to an output file. Everything runs on one SPDK thread.
  - Two submission loops start the I/O: `hello_write` and `hello_read`.
  - Two callbacks handle completions: `write_complete` and `read_complete`.
  - The global offsets `bdev_write_offset`, `bdev_read_offset`,
    `file_write_offset` and `file_read_offset` coordinate them.
  - On `-ENOMEM` the loop function itself is queued with
    `spdk_bdev_queue_io_wait`. The framework runs it inside the next
    `spdk_bdev_free_io`.
  - `workload` is the constant `LARGE_FILE`, so the STRING and MULTI_BLOCK
    branches are dead code. `hello_reset_zone` is never called.
- **DOCA compression sample** (`src/doca-compression/compression_local.c`),
  and a near-copy split into a library and a main
  (`src/bdev-passthru-compress/compress/`). It compresses or decompresses a
  file with DOCA hardware, or with zlib as a fallback. It submits a job and
  polls for the result (`process_job`), and has init and cleanup paths.

## Modules

| Module | Models | State | Actions |
|---|---|---|---|
| `Raid1` | raid1.c I/O path on one channel, plus the framework's aggregator (from spec.md) | `base_channel`, `read_blocks_outstanding`, `raid_io[r]` (remaining, submitted, status, phase, plus history), `inflight` (sub-I/Os) | `SubmitRequest`, `Retry` (`_raid1_submit_rw_request`), `raid1_read_bdev_io_completion`, `raid1_write_bdev_io_completion`, `RemoveBaseBdev`, `ReuseIo` |
| `Raid1Lifecycle` | raid1.c 237-319: `raid1_start`, channel get/put, `raid1_stop`, `raid1_io_device_unregister_done`, and SPDK's io_device (from spec.md) | `phase`, `present`, `size`, `data_size`, `blockcnt`, `r1info`, `device`, `unreg_cb`, `channel[t]`, `stop_done` | `raid1_start`, `raid1_get_io_channel(t)`, `PutIoChannel(t)`, `raid1_stop`, `UnregisterDone` |
| `DocaCompress` | compression_local.c: main and every function it calls | one record `s`: phase of main, compress context, core objects, heap buffers, caller's buffer pointer, checksum, the three files' contents, exit code, plus history | `Start`, `Compress` (lines 609-630), `Decompress` (lines 632-651) |
| `CompressPassthru` | compress/compression_local_main.c: main and every function of compression_local_core.c it calls | one record `s`: methods, context, core objects, heap buffers, main's `file_data`, `compressed_file`, `decompressed_file` pointers and what they hold, both checksums, the three files (contents plus a tail left by an earlier, longer file), exit code, plus history | `ParseArgs` (lines 45-64), `Compress` (66-85), `Decompress` (87-113) |
| `CompressLibrary` | the API of compression_local_core.h that main does not call, with its callers `file_compress` and `file_decompress` (compression_local_main.c:19-29): `doca_compress_init`, `doca_compress` (`file_compressor`), `doca_decompress` (`file_decompressor`), `doca_compress_cleanup`, `read_local_file_mmap`; operators of `CompressPassthru` through `P == INSTANCE CompressPassthru` | one record `s` with the fields of `CompressPassthru` those operators use, the callers' next call (`pc`), mmapped files | `InitCall`, `CompressCall`, `CleanupCall` (in `file_compress`), `InitCall`, `DecompressCall`, `CleanupCall` (in `file_decompress`) |
| `ProcessJob` | `process_job` (compression_local.c 65-97, and its copy in compression_local_core.c) with both mains that reach it: the sample's (device for both jobs, re-initialisation between them) and the passthru's (argv picks zlib or the device per job, `doca_compress_init` unchecked); the device and the work queue as concurrent actors | `prog`, `method[j]`, `pc` of main's thread, current job `cur`, `job[j]` on the device, `got[j]` (the event retrieved), `wq_error`, `ret`, `slept`, `core`, `exit`, history `lost` | `Start`, `LibInit`, `Setup` (compress_file up to the job), `Submit`, `Poll` (one `doca_workq_progress_retrieve`), `Release`, `Reinit`; environment `DeviceRun(j)`, `WorkqError` |
| `JobOutcome` | what `DocaCompress` and `CompressPassthru` assume of `process_job`, abstract: a call returns once with one outcome | `busy`, `ret` | `Call`, `Return` |
| `HelloBdev` | hello_bdev.c, LARGE_FILE workload | one record `s` holding the globals, in-flight offsets, pool of free bdev_ios, the io_wait slot, stop/put counts, plus history | `Start` (`hello_start`), `WriteComplete`, `ReadComplete` |

How the modules correspond to the code:

- Each C function is an operator with the function's name. A callback that
  calls another function, such as `write_complete`, which calls `hello_read`,
  or `spdk_bdev_free_io`, which runs the io_wait continuation, composes those
  operators within a single step. The whole handler is therefore one action,
  as it is one uninterrupted run on the reactor.
- In `Raid1`, the write loop is computed in closed form. `stop` is the first
  present slot, from `base_bdev_io_submitted` on, whose `writev` fails.
  Slots before it are either skipped (and credited) or submitted.
  Completions cannot interleave with the loop, so one credit for all the
  skipped slots equals the code's one credit per slot.
- The read router is the recursive operator `ScanReadBaseBdev`, a
  translation of the `for` loop at raid1.c:98-104, sentinels included.
- `Raid1Lifecycle` has one array and threads `t1`, `t2`. SPDK's io_device
  is modelled by its observable rules: `spdk_get_io_channel` gives a
  thread one channel while the device is registered, and the unregister
  callback runs once no channel is held.
- `ProcessJob` implements `JobOutcome`: `Outcome` instantiates it with
  `busy` as "main's thread is in `process_job`" and `ret` as the call's
  return value, and `RefinesJobOutcome` is `Outcome!Spec`. A poll that gets
  `DOCA_ERROR_AGAIN` is a stuttering step of `JobOutcome`. This is what
  lets `DocaCompress` and `CompressPassthru` treat `process_job` as one
  step whose outcome is submit, retrieve or job failure, or success.
- Data is abstracted away. Payloads do not appear, and a read carries only
  its length. File sizes and offsets are multiples of an abstract
  `BuffSize`.

## Runs

| Run | cfg | Result | Shows |
|---|---|---|---|
| raid1_core | `MC_Raid1.cfg` | pass, ~103k states | See the properties below. |
| raid1_lifecycle | `MC_Raid1Lifecycle.cfg` | pass, 616 states | `CapacityFitsEveryMirror`: after start every slot's `data_size` is `blockcnt`, and no present mirror is smaller. `InfoFreedAfterLastChannel`: `r1info` is freed once, after `raid_bdev_module_stop_done` and after the last thread put its channel. `StopCompletes`: a stop that `raid1_stop` left pending is eventually reported. |
| raid1_capacity_absent | `..._Capacity.cfg` | violation | With an absent slot whose `data_size` is 0, `raid1_start` sets `blockcnt` to 0: the minimum runs over every slot (raid1.c:273), not over the present mirrors spec.md 3 and 4.5 name. |
| hello_core | `MC_HelloBdev.cfg` | pass, 155 states | The read-back starts only after every chunk has been written successfully. A 0 exit leaves no I/O in flight. |
| hello_skipped_chunk | `MC_HelloBdev_NoChunkSkipped.cfg` | violation | On `-ENOMEM` the loop still advances the offset. The io_wait retry resumes past the chunk, the chunk is never written, and the program hangs. |
| hello_double_teardown | `..._ChannelReleasedOnce.cfg` | violation | A hard submit error tears down the channel. A failing in-flight write then tears it down again. |
| compress_core | `MC_DocaCompress.cfg` | pass, 234 states | Over every failing call, main releases the context and core objects once, builds device jobs only on live objects, and never writes a wrongly decompressed file. |
| compress_double_free | `MC_DocaCompress_NoDoubleFree.cfg` | violation | A failed write of input-decomp.txt frees the buffer twice. `write_local_file` frees it, and line 508 frees it again. main then returns success with no output. |
| passthru_core | `MC_CompressPassthru.cfg` | pass, ~12k states | Over every failing call, a missing, small or over-1-MiB input and leftover output files, the checksum comparison of main:99 keeps stale, corrupted or freed-memory data out of input_file_decomp, and no error path frees a buffer twice. |
| library_core | `MC_CompressLibrary.cfg` | pass, 3849 states | `NoForeignOutput`: running `file_compress` and then `file_decompress`, `doca_compress` succeeds although the write of input-comp.txt failed (line 587), and the checksum comparison of `file_decompressor` still keeps a leftover or broken file out of input-decomp.txt. |
| process_job | `MC_ProcessJob.cfg` | pass, 396 states | `ResultIsJobResult`: `process_job` returns success only for a job whose retrieved event carries success, and main exits 0 only when every device job did. `ProcessJobReturns`: once submitted, `process_job` returns and main then exits, given that the device completes its jobs, whatever the retrieve calls return, a failed work queue included. `RefinesJobOutcome`: each call returns once, with an outcome of `JobOutcome`. |
| passthru_large_input | `..._CompressedDataIsInput.cfg` | violation | `read_local_file_naive` copies every chunk to offset 0; an input over 1 MiB is corrupted, round-trips, and main exits 0. |

Properties of raid1_core:

- `ReadCountersMatchInflight`: every counter equals the blocks of the reads
  in flight on that slot.
- `CreditsMatchOutstanding`: `base_bdev_io_remaining` equals the credits
  still owed. These are the sub-I/Os in flight, plus the unpassed slots of a
  write queued on `-ENOMEM`. A completed request owes nothing and was
  completed exactly once.
- `FinalStatusReflectsFailures`: a request completes SUCCESS iff none of its
  sub-I/Os failed.
- `NoDuplicateSubmission`: no mirror gets the same write twice across
  retries.
- `ReadSelectionIsLeastLoaded`: a read goes to the lowest-index present slot
  among the least loaded ones.
- `EveryRequestCompletes`: a new request eventually completes.

Every property of a passing run has a mutant in `PROJECT.json`. Each mutant
is a plausible bug that TLC catches: a counter decremented per I/O, a
re-armed remaining count, a completion status dropped, a lagging submitted index,
`<=` in the router, an off-by-one batch credit, a premature "all written" or
"all read" test, a double free, a dropped checksum comparison, or an extra free on an error path; in the lifecycle, a capacity loop that
skips slot 0, `r1info` freed in `raid1_stop`, and an unregister without its
callback; in the library API, a `file_decompressor` without the checksum
comparison; in `process_job`,
a result taken without looking at `event.result.u64`, a loop that also
retries failed retrieves (it hangs on a failed work queue), and an `if` in
place of the `while` (it returns `DOCA_ERROR_AGAIN`).

## Bounds

`MC_Raid1` uses the following bounds:

- 3 base bdevs. This is enough to have an absent slot between two present
  ones, and a removal that still leaves 2 mirrors.
- 2 requests. This gives routing and counters that interact across requests.
- Read lengths {1, 2}. Different lengths make a per-I/O decrement
  distinguishable from a per-block one.
- At most 1 `-ENOMEM` per request (`MaxNoMem`). This is enough for a retry
  to resume a partially submitted write.

`ReuseIo` recycles completed contexts, so each request slot runs many
requests.

`MC_Raid1Lifecycle` uses 3 slots, 2 threads, mirror sizes {1000, 1200} (the
pair of spec.md 8) and absent sizes {0, 1200}, so an absent slot may be
smaller or larger than every mirror. `UINT64_MAX` stands as 4096, above
every size. The capacity violation run takes absent sizes {0}.

`MC_HelloBdev` uses `BuffSize = 2`, file sizes {0, 3, 4, 5, 6} and a pool
of 2 bdev_ios. This covers:

- a partial last chunk (3, 5);
- more chunks than the pool holds (5, 6), which forces `-ENOMEM`;
- a file that fits exactly (4).

`DocaCompress` and `CompressPassthru` are sequential, so a run of main is at
most four steps; what grows the state space is the choice of failing call
in each phase. `MC_CompressPassthru.cfg` sets `Inputs = {"none", "small",
"large"}`: a missing input, one that fits in a chunk, and one over the
1 MiB chunk, the three cases `read_local_file_naive` treats differently.
Each leftover output file is absent, shorter than the new one, or longer.
The violation cfgs narrow `Inputs`, so that the trace shows the defect the
run is about.

`ProcessJob` is bounded by the programs themselves: two jobs, each
submitted once. Its states come from the interleaving of main's thread
with the device (a job may complete before the first poll or after many)
and with a work-queue failure at any point, times each failing call and
each argv choice.

## Fairness

`Raid1` assumes weak fairness on the following:

- submission;
- the io_wait continuation, which the bdev layer fires once a bdev_io is
  freed (spec.md 4.4);
- every sub-I/O completion. The bdev layer always calls the completion
  callback, and there is no cancellation (spec.md 5).

Removal and reuse are not required to happen.

`Raid1Lifecycle` assumes weak fairness on putting a channel once the array
is stopping (the framework destroys its raid channels on stop, spec.md 4.5)
and on SPDK finishing an unregister whose channels are gone. Nothing forces
the start or the stop. A stopped or failed array has no further step
(`CHECK_DEADLOCK FALSE`). `ProcessJob` assumes weak fairness on the device
completing each queued job and on main's thread, which only sleeps between
polls. The first is the hardware's promise, not this code's: `process_job`
has no timeout, and without it the loop may poll forever. The work queue
is not required to fail. main's return is final (`CHECK_DEADLOCK FALSE`),
though the device may still finish a job after it. `HelloBdev` assumes weak
fairness on the start and on the completions. Its passing run checks only
invariants, because the program may legitimately stop after
`spdk_app_stop` (`CHECK_DEADLOCK FALSE`).

## Other defects found while modelling

These properties are defined in the modules and TLC finds each violated
by a one-property cfg written the same way as the runs above; they are not
kept as runs.

- `HelloBdev!SuccessfulExitReadEverything`: in LARGE_FILE mode
  `read_complete` never looks at `success`, so failed reads still lead to
  exit 0.
- `HelloBdev!AppEventuallyStops`: an empty input file leads to no I/O and
  no `spdk_app_stop`; the program never exits.
- `DocaCompress!NoLeakAtExit`: `populate_dst_buf` allocates into its local
  parameter (compression_local.c:113), and line 223 then overwrites the
  caller's pointer to `compress_file`'s buffer, which leaks.
- `CompressPassthru!DestroyOnlyLive`: a failing `doca_compress_init`
  destroys its new context; main ignores the result and
  `doca_compress_cleanup` destroys it again.
- `CompressPassthru!FailureOnlyFromFailedCall`: with `argv[2] = sw` and no
  call failing, decompression fails: inflate expects a zlib header that raw
  deflate does not write.
- `CompressPassthru!DecompressedFileIsExact`: `write_local_file` opens
  without `O_TRUNC`, so a longer earlier input_file_decomp keeps its tail
  after a successful run.
- `CompressLibrary!NoDoubleFree`: when `write_local_file` fails in
  `file_decompressor` it frees `decompressed_file`, and line 633 frees it
  again.
- `CompressLibrary!SuccessMeansInputCompressed`: `file_compressor` ignores
  `read_local_file_mmap` (line 572); with input.txt missing it compresses
  a NULL buffer of uninitialised length, and if that length is 0 the round
  trip succeeds and input-decomp.txt is written, empty.
- `CompressLibrary!ContextReleasedOnce`: when `doca_compress` fails it runs
  `file_compression_cleanup` itself (compression_local_core.c:744), and
  `file_compress` (compression_local_main.c:22) then calls
  `doca_compress_cleanup` on the same context, which is destroyed twice;
  `doca_decompress` (line 764) and `file_decompress` repeat it.
- `CompressPassthru!SuccessMeansInputRead`: main ignores a failed
  `read_local_file_naive` (compression_local_main.c:67-71); with the input
  missing `compress_file` runs on the NULL `file_data` and its
  uninitialised length, and main can still exit successfully.
- `Raid1!SuccessfulWriteIsStored`: with `MinOperational = 0`, a write with
  every mirror absent completes SUCCESS: line 181 advances
  `base_bdev_io_submitted` for absent slots too, so the `-ENODEV` branch at
  raid1.c:207 is dead. Spec.md 4.2 names `-ENODEV`; section 9 keeps the
  observed success as behaviour to preserve, and the framework's
  min-operational constraint keeps it from arising.
- `ProcessJob!NoJobLostAtCleanup`: after a failed
  `doca_workq_progress_retrieve` the job may still be queued on the device;
  `compress_file_hw` drops its buffer references and the sample's main
  destroys the work queue and mmaps under it (compression_local.c:619).
  Whether DOCA stops such a job safely is the library's behaviour.
- `CompressPassthru!NoInvalidFree`: a failing write of `compress_size` makes
  `write_local_file` free `compress_file_hw`'s stack buffer
  (compression_local_core.c:253).

## Not modelled, and plan

- **Lifecycle and I/O together.** `Raid1Lifecycle` and `Raid1` are
  separate modules: requests run only on a started array with a live
  channel, so the I/O path adds nothing to the lifecycle's properties but
  states.
- **Framework aggregator (partly).** `raid_bdev_io_complete_part`, the
  io_wait queue and base-bdev removal live in `bdev_raid.c`, which is not in
  this repository; `Raid1` models them from spec.md and no further.
- **hello_bdev (partly).** The STRING and MULTI_BLOCK branches are dead
  (`workload` is the constant `LARGE_FILE`), `hello_reset_zone` is never
  called, and `gen_string` only fills a buffer; nothing of them runs.
- **Multiple channels.** Counters are per channel, so one channel is
  enough for them. Removal across channels is a framework concern.
- **DOCA compression.** `DocaCompress` models the sample as a
  sequential program. Every DOCA and libc call that can fail is an input
  chosen by `\E`. The input file may be missing, and output files of an
  earlier run may be present. Data is abstracted to its quality: good,
  truncated, garbage, or another run's (stale). The zlib branch is dead in
  this main, and `process_job` is one step whose outcome is chosen;
  `ProcessJob` models its polling loop and shows that this step is a
  correct abstraction of it.

- **Passthru copy.** `CompressPassthru` models its main the same way, with
  the input's size as the constant `Inputs`. A deflate stream is labelled
  by what it inflates to, so a checksum is the label of its data. Freeing a
  stack address and reading freed memory are undefined; the model lets
  glibc abort or carry on, and lets freed bytes be intact or reused.
  `destroy_core_objects` (DOCA `samples/common.c`, not in this repository)
  is taken to NULL what it destroys, as the DOCA sample does, so only the
  context can be destroyed twice.
- **Library API.** `CompressLibrary` runs `file_compress` and then
  `file_decompress` once each, as a program calling them in that order
  would; nothing in compression_local_main.c calls them, so the order is
  the one their shared `checksum` implies.
- **hello_bdev output size.** The output file is padded to a multiple of
  `buff_size`. The bdev_io pool leak in `read_complete` needs a liveness
  run with a pool smaller than the number of chunks.
- **Out of scope:** argument parsing, `gen_string`, logging, timing
  (`clock()`), and the zlib and DOCA library internals.
