# OpenJPEG in TLA+

TLA+ modules, TLC configurations and TLAPS proofs for the C library of this
repository: OpenJPEG's JPEG 2000 codec with this fork's OpenCL and CUDA
backends. The repository's code is the reference; `PROJECT.json` maps every
definition that models code to the lines it stands for.

Paths below are relative to `src/lib/openjp2` unless they say otherwise.

## 1. Inventory

### The parts that carry the program's own logic

| Part | State it keeps | Operations | What makes it correct |
|---|---|---|---|
| **Thread pool** (`thread.c`) | job stack, `pending_jobs_count`, list of waiting workers, `signaling_threshold`, one mutex and condition for the pool and one of each per worker | create/setup, `submit_job`, `wait_completion`, `destroy`; the worker loop over `get_next_job` | every accepted job runs exactly once; no wake-up is lost; a wait returns when, and only when, few enough jobs are unfinished; destroy drains the queue and joins everybody |
| **Thread-local storage, Win32 conditions** (`thread.c` 98-216, 498-570) | a list of keyed values per worker; a list of sleepers per condition | get, set, destroy; wait, signal | a key is destroyed once; a signal wakes a sleeper |
| **Input stream** (`cio.c`, callbacks in `openjpeg.c`) | chunk buffer, position told to the caller, END flag; the media's own position | `read_data`, `read_skip`, `read_seek`, `tell`, `get_number_byte_left` | told position, buffer and media agree; a read delivers the bytes at the position told; reports are true |
| **Output stream** (the same files) | chunk buffer, position, ERROR flag | `write_data`, `flush`, `write_skip`, `write_seek` | buffer and media together are the file the caller believes it writes; a failure is reported, and reported for good |
| **Device worker pools** (`opencl_backend.c`, `cuda_backend.c`, `accel_budget.c`) | per backend: workers with a busy flag and buffers of some capacity, a lock, for OpenCL a condition; for both: one allowance of device memory and one of pinned memory; CUDA's "poisoned" flag | acquire and release of a worker, growing and giving up buffers, quarantine of a worker whose stream cannot be drained | leases are exclusive; the allowance counts exactly the buffers that exist; memory a device may be using is not freed; no caller waits for ever |
| **Tier-1 jobs** (`t1.c`, and the job parts of `dwt.c`, `ht_dec.c`) | jobs that share `*pret`, an event mutex and the tile's data | one job per code block or band of rows, then a wait | every block coded before the tile is used; failures of a job reach the caller |
| **Tile coder** (`tcd.c`) | tile, resolutions, precincts, code blocks, layers | init, decode, encode, rate allocation | each pass in exactly one layer; the rate is kept; the CPU takes over where a device declines |
| **Codestream decoder** (`j2k.c` 4484-5131, 8862-10213, 11880-12300) | `m_state`, current tile, tile-part counts, coding parameters per tile | read header, read tile header, decode tile | the marker protocol; each tile decoded once, truncated streams end |
| **Codestream encoder** (`j2k.c` 13000-13400) | tile-part counters, Psot and TLM positions to patch | start, encode tile, end | lengths patched at the right places |
| **JP2 boxes** (`jp2.c`) | box-parser state flags | read and write of boxes | box order |
| **Codec API, procedure lists** (`openjpeg.c`, `function_list.c`) | validation and execution lists | the calls of the public API | calls in any order have defined results |
| **Packet iterator** (`pi.c`) | position in five nested loops, the include map, progression changes | `opj_pi_next` | every packet once, in the same order on both sides |
| **Tier-2** (`t2.c`, `bio.c`, `tgt.c`) | tag trees, bit reader and writer, code-block segments | packet headers | the decoder reads what the encoder wrote |
| **Arithmetic coder** (`mqc.c`) | interval registers, output pointer | encode, flush, decode | carry and 0xFF stuffing |
| **Wavelet, sparse array** (`dwt.c`, `sparse_array.c`) | lines being lifted; blocks allocated on demand | forward and inverse transforms; region reads and writes | perfect reconstruction (5/3); a region reads what was written |
| **JPIP server** (`src/lib/openjpip`) | sessions, channels, targets with their use counts, a cache model per channel | requests | a target lives until the server ends; a bin is sent once |

### The parts left aside

Device kernels, the high-throughput block decoder, component transforms and
matrix inversion are numeric kernels without control state. Images, events,
clock and allocation are containers and wrappers; a failing allocation is a
nondeterministic choice in the modules. Index writers, table generators,
benches, command-line programs, viewers, `wrapping/` and `thirdparty/` are I/O
around the library, build tools, or not this project's code. `PROJECT.json`
lists each of them with its reason.

### How the parts interact

* A codec (`openjpeg.c`) owns one stream and one thread pool. `j2k.c` and
  `jp2.c` call the stream for every marker, box and tile part.
* `tcd.c` decodes a tile in three stages (tier 2, tier 1, wavelet). Tier 1 and
  the wavelet submit jobs to the pool and wait for all of them; the jobs share
  the tile. The caller of the pool is one thread, the codec's.
* In tier 1, `tcd.c` first offers the tile to CUDA and to OpenCL. Either
  leases a worker from its pool, or declines and the CPU codes the tile.
  Several codecs in several threads share those pools, and the two pools share
  one memory budget. This is the only state codecs have in common.
* The user's read, write, skip and seek functions are callbacks: they may do
  less than asked, fail, or report the end.

### The hard behaviours

Interleavings in the pool (two mutexes hand over hand, spurious wake-ups, a
threshold that three callers overwrite); partial failure (threads that do not
start, list items that cannot be allocated, writes that take part of the
buffer, a half-grown device worker, a driver that will not free); state that
outlives its use (a stream buffer after a seek, a device transfer nobody can
wait for); limits (the queue limit, the shared budget); and protocol sequences
(any order of reads, skips and seeks; any order of calls on the API).
`PROJECT.json` lists them as hazards at the lines where they bite, with the
properties that watch them, or the reason why none does yet.

## 2. Modules

| Module | Models | Composed with |
|---|---|---|
| `JobPool` | what a pool of jobs promises, without threads | abstract specification |
| `ThreadPool` | `thread.c` 577-954 over POSIX mutexes and conditions | implements `JobPool` |
| `InputStream` | the reading half of `cio.c` over a media that delivers short or fails | |
| `ByteFile` | a file with a position | abstract specification |
| `OutputStream` | the writing half of `cio.c` over such a media | implements `ByteFile` |
| `AccelPool` | both device pools, with the shared budget | |
| `Codestream` | a codestream as a sequence of what the decoder reads in one go | |
| `J2kDecoder` | main header, tile-part loop and the three ways to decode (`j2k.c`) | extends `Codestream` |
| `PacketIterator` | the geometry of a tile and the five loop nests (`pi.c`) | |
| `PacketOrder` | a tile's packets from the tile-parts of the encoder to the decoder (`j2k.c`, `pi.c`, `t2.c`) | extends `PacketIterator` |
| `BitIO`, `TagTree` | the bits of packet headers (`bio.c`), tag trees (`tgt.c`) | |
| `PacketCoding` | the packets of a precinct, written, cut short and taken apart (`t2.c`, `t1.c`) | extends `TagTree` |
| `MC...` | constants for TLC | extend the above |
| `FoldTheorems` | no code: facts about sums over sets, joined sequences, least and greatest members, for the proofs | |
| `...Proofs` | theorems and proofs | extend the above |

### ThreadPool

An action is a critical section, from taking `tp->mutex` to releasing it or to
the point inside it where a second lock is taken. The code takes
`worker_thread->mutex` while it holds `tp->mutex` in two places (a worker that
goes to sleep, a submit that wakes one); those sections are two actions each
and the variables `tp_mutex` and `wmutex` say who holds what in between, so
that the interleavings in the gap are there. `opj_cond_wait` releases and
sleeps in one step and may return unsignalled; `opj_cond_signal` is forgotten
if nobody sleeps.

The variables carry the names of the C fields. `wpc` and `cpc` say where a
worker and the client are: `lock` (wants `tp->mutex` in `get_next_job`),
`lockw` (holds it, wants its own), `bwait` (before its wait), `waiting`,
`wake`, `run`, `exited`; for the client `spawn`, `setup`, `submit`, `sublockw`,
`subsignal`, `wait`, `signal`, `join`, `freed`. The client is one thread, as it
is in the library. Left out of setup: the creation of conditions and the
allocation of the worker array, which fail before any thread exists.

### InputStream, OutputStream

Each call of the code is one action up to the first call of a user function,
then one action per user-function call, with what the code does until the
next. The media is a sequence of numbered bytes (input: byte *p* of the media
is the number *p*; output: each byte written is the number of bytes written
before it, plus one). A user function moves by any amount up to what is asked,
or fails at the cost of one fault.

In `InputStream`, `base` and `current` say which bytes of the media the buffer
holds; `got` is what the caller's memory has received. In `OutputStream`,
`stored` is the buffer with what it really holds, stale bytes included, because
the code resets a pointer and not the contents. `full` is set once by an
environment action: from then on the write function returns 0, as `fwrite`
does on a full disk.

Assumed: the client sets the stream length, and user functions do not return 0
except for the full disk. Left out: creation and
destruction of a stream.

### AccelPool

A thread is idle, asking for an OpenCL or a CUDA worker (`cl_lock`, `cl_wait`,
`cu_lock`), fitting one under the backend's lock (`cl_fit`, `cu_fit`, and
`cu_retry` after the idle workers gave their buffers up), or holds a lease
(`cl_run`; `cu_stage`, `cu_dma`, `cu_fail`). An action is what runs under one
hold of a lock up to the next `opj_accel_reserve`: OpenCL grows a worker buffer
by buffer, and CUDA, under another lock, can take the memory in between. A
`wait_for_slot` of OpenCL is chosen with each call. The one-time initialisation
of a runtime, process exit and the kernels are left out. When CUDA's
`release_buffers` or `release_host` runs, the driver may refuse any of the
frees: the others are still made, what was kept stays with its worker and in
the budget, and the runtime is poisoned. OpenCL's `release_buffers` does not
look at the result and gives everything back. A buffer that cannot be created
takes no memory from the budget, not even for a moment.

### J2kDecoder

A codestream is described by a record: the number of tiles, the main header's
markers, the tile-parts (tile, TPsot, TNsot, Psot, whether it has a PPT
segment, amount of data), the tile-parts a TLM segment lists, EOC or not,
whether the client's stream can seek, and how much is missing at the end.
`Items` makes the sequence of items of it; a position in the stream is a number
of items. So a datum carries the tile-part it belongs to, and what a tile was
decoded from (`out`) can be compared with what the file holds for it.

`dec` has the fields of `m_decoder` the control depends on, `tcp` those of a
tile, `index` the code-stream index, `call` the locals of the running call. An
action is what the code does between two reads of the stream, or one iteration
of a loop. The client calls `opj_decode`, `opj_get_decoded_tile` (tiles in any
order) or the pair `opj_read_tile_header` / `opj_decode_tile_data`, strict or
not, with any set of adjacent tiles as area; it keeps to one of the three.

Which files a property speaks about is part of it. `Conforming` says what the
standard asks of a file, with the licence the code gives (a missing EOC, TNsot
one too low). `Repeatable` are the files that later calls on one codec are made
for, `Refused` those that the code turns away although they conform. Each of
the exclusions is explained where it is defined or under *Known disagreements*.

Left out: allocation failures, the tolerance for Psot = 12, PPM, unknown
markers, what marker segments other than SOT, PPT and TLM store, component
selection, and the wavelet window of an area (an area is a set of tiles).

### PacketIterator, PacketOrder

The loop nest of a progression order is the set of its visits, sorted by the
loop variables; a position loop's tests (does a precinct begin here?) are
conditions on the visits. The include map is what was emitted so far. That is
shorter than nested loops with a `first` flag, and the order is still the
code's, since every loop runs upwards.

`PacketOrder` writes the tile-parts one by one. `odo` holds the six counters
that `opj_pi_create_encode` turns like an odometer, for the letters up to the
one that divides the tile; `Window` are the ranges it gives the iterator.
`tnsot` is the number of tile-parts computed beforehand, for the TNsot of every
header. The decoder knows no tile-parts: it opens one iterator per progression
change and reads until all are exhausted.

Left out: the pass of the encoder that looks for the rate (`THRESH_CALC`),
the cinema profiles, components with different numbers of resolutions, and the
stop of the decoder at the end of the data, which `PacketCoding` has. `Divisible` in
`MCPacketOrder` restricts the tiles to those that the code divides correctly;
what happens past it is under *Known disagreements*.

### BitIO, TagTree, PacketCoding

`BitIO` and `TagTree` are functions from reader, writer or tree to the next
one, bit by bit, as the code does it. `PacketCoding` codes one precinct of one
band. The encoder's phases are `encode` (rate allocation has chosen how many
passes of each block the layer ends with), `write` (a block's inclusion, number
of passes, length indicator) and `writelen` (the lengths, run by run).
`Deliver` hands the tile to the decoder, cut at any byte. The decoder's phases
are `packet`, `header`, `lengths` (segment by segment), `body` (chunk by
chunk), and, after the layers, `t1`: the walk of `opj_t1_decode_cblk` through
the segments, of which only the choice of a coder for each pass is modelled.
A byte of the file is its value, the block it belongs to (0 for a header) and
its place there, so that a lost or misplaced byte shows.

Left out: SOP and EPH, headers moved to PPM or PPT, several bands, the
high-throughput blocks, allocation failures, a full output buffer.

## 3. What TLC checks

| Run | Instance | Distinct states | Shows |
|---|---|---|---|
| `thread_pool` | 2 workers (or fewer, or none), 4 jobs, 1 wait with argument -1 or 1, queue limit 1 per worker, 1 spurious wake-up, 2 failed allocations, threads may fail to start | 170 982 | all safety properties, refinement of `JobPool`; every job runs and every call returns while a worker lives |
| `thread_pool_oom_hang` | 1 worker, 2 jobs | violation | a job accepted after the last worker died is never run |
| `input_stream` | media of 7 bytes, buffer of 3, sizes 0 to 5, seeks to 0, 4 and past the end, 2 faults | 22 894 | positions, delivered bytes and reports |
| `output_stream` | buffer of 2, file of 5, writes of 1 and 4, a seek back to 1, 1 fault, a disk that may fill | 536 692 | refinement of `ByteFile`, reports, a flush ends while the media takes bytes |
| `output_stream_full` | the same without faults | violation | a flush on a full disk never ends |
| `accel_pool` | 3 threads, 2 OpenCL and 2 CUDA workers, 2 buffers each, a budget of 7, tiles of 2 and of 5 units, 4 calls, 1 fault (a refused free in a clean-up among them) | 326 886 | budget, leases, wake-ups, quarantine, every call is answered, no deadlock |
| `accel_pool_contention` | 2 threads, 1 worker of each kind, 2 calls, no fault | violation | an admitted OpenCL caller is sent to the CPU because CUDA holds the budget |
| `j2k_decoder` | 150 files of one to three tiles, strict or not, three calls | 84 537 | a success is the whole image, failures are accounted for, packet data are not lost between calls, every call returns |
| `j2k_last_part` | 1 file, two calls | violation | after a tile-part of Psot 0 another tile is decoded with foreign data |
| `packet_order` | 389 tiles of one or two components, two or three resolutions, two layers | 13 666 | the decoder's order is the encoder's, every packet once, TNsot is the number of tile-parts |
| `packet_coding` | 26 precincts of one to three blocks, two or three layers, up to 40 passes a layer, every cut | 397 103 | headers, segment limits and bytes agree |
| `packet_roi` | 1 precinct, LAZY with a region of interest | violation | raw passes are decoded by the MQ coder |

Deadlock is checked wherever the system should not stop. Three configurations
turn it off: those of the thread pool, where jobs stay in the queue for good
once all workers have died, and those of the decoder, whose client stops after
its last call or a failure.

### Why these bounds

* Thread pool: two workers are needed for one to sleep while another works and
  for the list of sleepers to have an order; four jobs over a queue limit of
  two (the code's limit is 100 per worker) make the client throttle, be woken
  below the threshold, and throttle again; the wait arguments -1 and 1 are the
  clamped one and one that returns early. The proofs remove the bounds from
  the safety properties.
* Input: a buffer of three in seven bytes gives partial chunks, direct reads
  and a skip across a chunk; two faults let a call follow a failed one.
* Output: writes of twice the buffer and of half of it make every fill
  pattern; a seek to 1 makes overwritten bytes and a file that is not a
  multiple of the buffer.
* Device pools: two tile sizes and a budget that takes one large tile and one
  small one make callers wait for memory with a free slot; a fourth call is
  needed for a worker whose pinned staging is left over from a large tile, so
  that another finds none. One fault quarantines or poisons CUDA while the
  other threads hold leases, or keeps one of the two buffers of a clean-up;
  the proofs cover any number of refused frees.
* Decoder: two tiles with one or two tile-parts each, in every order, TNsot in
  all, in none, in the first or in the last of them, with and without TLM, are
  the cases its look-ahead, index and jump logic tells apart; files of their
  own add PPT, Psot = 0, the miscounted TNsot of test_tile_part_interleaved.c,
  three tiles, a stream that cannot seek, no EOC, and every cut of three files.
  Three calls are needed: the second meets the state the first left, the third
  the state of a repeated one.
* Packet order: two components of unlike sampling, tiles whose corners lie
  inside precincts on every side, a tile of one column, and precincts whose
  steps are least at different resolutions. Progression changes are two
  volumes and the bounds beyond the tile of the unit test; the division is by
  R, C and L in every order.
* Packet coding: the mode switches act from the tenth pass on, the codes for
  numbers of passes change at 2, 3, 6 and 37, and layers must end inside a
  segment and at its end: the blocks have 5 to 14 bit-planes and layers of up
  to 40 passes. One header ends on 0xFF, one tree has three levels. The theorem
  about segments removes the bounds.

### Properties

The comment before each definition says what it claims. The ones to read
first: `NoLostWakeup`, `ClientSleepsForCause` and `WaitPost` (thread pool),
`PositionKept` and `ReadReports` (input), `ImplementsByteFile` and
`CallsReport` (output), `BudgetExact`, `WakeupOwed` and `ActiveUntouched`
(devices), `WholeImage` and `StrictRefusesPartial` (decoder), `SameOrder` and
`EveryPacketOnce` (packet order), `HeaderAgrees`, `LimitsMatch` and
`DecodesWhatArrived` (packet coding). `PROJECT.json` names a mutant of a mapped
definition for each of them: a plausible bug (a dropped guard, a missing reset)
that TLC finds with the same configuration. These definitions are called
`Mut...` or have a comment that begins with "mutant:", and nothing else uses
them.

### Fairness

* Thread pool: weak fairness of each worker's step and of each step the client
  takes inside a call. The scheduler runs every thread, jobs return, and a free
  mutex is given to somebody. Starting a new call is not fair. The bounds on
  jobs and waits are what makes weak fairness enough for taking a mutex: other
  threads can only pass a waiting one finitely often.
* Output: the thread inside a call runs on. The write function may take any
  part of the buffer, and never nothing unless the disk is full.
* Device pools: weak fairness of each thread's step inside a call: device work
  ends, and a lock that stays free is taken. A tile fits an empty budget, as
  the callers check. Since only `MaxCalls` calls come, `EveryCallAnswered` says
  that all threads come back.
* Decoder: a thread inside a call runs on; that the client calls is not
  assumed. `CallReturns` therefore says that no loop of the decoder feeds
  itself, on any of the files.

### Findings

1. *A pool without workers accepts jobs* (`thread_pool_oom_hang`). A worker
   that cannot allocate its list item ends its thread; only setup looks at the
   state it leaves. With the last worker gone, `opj_thread_pool_submit_job`
   still returns `OPJ_TRUE` and a wait never returns, against `thread.h:217`.
2. *A flush on a full disk spins* (`output_stream_full`): the write callback
   returns `fwrite`'s 0, and the loop of `opj_stream_flush` only knows -1,
   against `cio.h:293`.
3. *Contention between backends falls back to the CPU*
   (`accel_pool_contention`): admission counts OpenCL's buffers, the
   reservation that follows counts CUDA's as well and its refusal is treated as
   a device error, against `experimental/opencl/README.md:135-137`.

4. *Psot 0 is remembered for ever* (`j2k_last_part`): `m_last_tile_part`
   (`j2k.h:511`, "the current tile-part") is set by a tile-part of Psot 0 and
   never reset. The next `opj_get_decoded_tile` on the same codec takes the
   first tile-part it finds for the last, with all that is left of the file.
5. *LAZY with a region of interest* (`packet_roi`): the decoder tells raw
   passes by a bit-plane that starts `roishift` higher than the encoder's
   (`t1.c:2120` against 2644). An image encoded by the library with `-M 1` and
   a region of interest comes back with wrong samples; with either of the two
   alone it does not.

### Known disagreements

Met while modelling, and kept out of the properties by the conditions named.

*Packet order* (`Divisible` in `MCPacketOrder` leaves these out):

* A tile-part division that includes the position, when the tile begins inside
  a cell of positions: the window held starts before the tile, and packets of
  the coarser precincts are missed, or the encoder refuses.
* TNsot counts `prcE`, the most precincts of a resolution, not the cells.
* TNsot multiplies the ends of the ranges, not their lengths: a progression
  change that begins at a resolution or component other than 0, together with
  tile-parts, writes the last window again. It is computed before the ranges
  are cut to the tile (`resno1` of 33 in the unit test).
* A progression change that raises the number of layers gets a lower bound
  for layers equal to the upper one, and so no packets; volumes that overlap are
  written twice, since every progression has an include map of its own.
* Only the first progression is divided (`tp_on` of `l_pi[0]`), at a letter
  looked up in the tile's order, not in the order of the change.
* LRCP and RLCP with tile-parts run over `prcE` precincts at every resolution;
  the encoder refuses (`t2.c:743`, "likely not a proper fix") or writes empty
  packets for resolutions without precincts.
* `opj_j2k_setup_encoder` reads `parameters->POC[numpocs_tile]` where the loop
  is over `i`.
* Position orders advance by the least step of the components (`pi.c:378`, 514,
  650). Where another step is no multiple of it, as with sampling factors 2 and
  3 and small precincts, the loops pass over places at which precincts begin,
  on both sides: their packets are neither written nor read. This is not in
  `Divisible`, no tile of the run being like that; it is the premise
  `StepsAlign` of `PacketsComplete`.

*Decoder* (left out by `Repeatable` or `Refused`, or by the premises of
`StrictRefusesPartial`):

* `opj_get_decoded_tile` in any order fails on interleaved tile-parts whose
  TNsot comes late: no position is recorded for a tile-part read before the
  number was known (`j2k.c:8466`).
* An area planned from TLM fails when TNsot is 0; without EOC a partial area
  fails even if not strict (against `openjpeg.h:1356`), and so does the third
  decode of one codec. The correction of a miscounted TNsot does not reach
  tiles that are skipped. A second call on a tile with PPT is refused.
* A file cut right behind the two bytes of an SOT marker decodes in strict
  mode, with data missing (against `openjpeg.h:1353`); the rule for SPOT6 files
  may pass over a tile whose data were read.

*Packet coding*: the header reader does not notice the end of its input. Cut
inside a length, it reads a length of 0, and the passes are decoded without
data, in strict mode too (`DecodesWhatArrived` claims nothing then).

*Input stream*: `opj_stream_read_skip` past the end forgets what it skipped in
the buffer, and returns less than it skipped or -1, against `cio.h:303`. A
caller that compares with what it asked for is not misled (`SkipHonest`).

## 4. What is proved

TLAPS checks these for every value of the constants, under the named
assumption of each module (`ThreadPoolAssumption` and so on: the counts are
natural numbers, buffers are not empty, a tile fits the budget, the description
of a file has fields of the right types). They are safety
properties: the bounds on calls and faults are constants too, so the theorems
hold however large they are.

**FoldTheorems.** The models compute with folds of the community modules: sums
(`SumFunctionOnSet`), joined sequences (`FlattenSeq`), least and greatest
members (`Min`, `Max`). What such an operator does when one element is
added, removed or changed is proved here from its definition: `SumRemove`,
`SumExcept`, `SumSplit`, `JointStep`, `JointPrefix`, `FlattenIn`, `GreatestOf`,
`Ranked` (a tile-part's place among those of its tile). The induction rule
(`SetInduction`, `SubsetInduction`) is stated for a set in place of a predicate,
so that a lemma can be used without a predicate as its parameter.

**ThreadPoolProofs.** `IInv` is a conjunction of eleven parts.
`NoLostWakeup` says that if jobs are queued, somebody is awake or about to be
signalled; that is not inductive without knowing which workers are on the
waiting list (`ListDiscipline`, `WaitersCounted`), that nobody else is between
the two locks (`LockDiscipline`), and where the client is (`ClientState`). The
count `pending_jobs_count` is the queue plus the workers whose finished job is
not yet subtracted (`PendingAccounting`); that the client sleeps only for cause
rests on it and on the threshold its loop has set (`ThresholdSet`). From `IInv`:
`TypeCorrect`, `NoWakeupIsLost`, `ClientIsWoken`, `PendingIsAccurate`,
`JobsRunOnce`, `CodeAssertions`, `DestroyIsComplete`, `WaitIsHonest`, and
`Refinement`: the pool implements `JobPool`, a critical section of a worker
being the start or the finish of a job, or a stutter.

**InputStreamProofs.** `IInv` adds to the checked invariants where a call in
progress stands (`CallState`: what is still wanted, what has been skipped
untold). From it: `PositionIsKept`, `ReadsAreFaithful`, `ReadsReportTruly`,
`SkipsAreHonest`, `TellStaysInside`.

**OutputStreamProofs.** The same for output, and `Refinement`: with
`Content`, the media overlaid by the bytes still buffered, every step of
`OutputStream` is a step of `ByteFile` or a stutter. A copy into the buffer is
the abstract `Put`; the write that moves bytes to the media changes nothing
abstractly; a failed call is the abstract `Fail`.

**AccelPoolProofs.** `IInv` says where the worker of every thread stands
(`Placed`), that leases are exclusive and fit (`LeaseExclusive`), and that a
worker whose transfer was abandoned is out of use, CUDA being off
(`Quarantined`). From it: `LeasesAreExclusive`, and `BuffersStay`: no step of
any thread, faults included, frees or resizes a buffer a device may be using.
`Accounted` adds to `IInv` that the two allowances are the sums over the buffers
that exist and stay within the budget (`Exact`, `PinExact`), the ranges of the
counters, and `WakeupOwed`. Every change of an allowance is one of four:
some buffers freed (whichever the driver does not refuse), one buffer grown,
some staging buffers freed, pinned staging replaced; `SumSplit` takes the
buffers concerned out of the sum, and leaves the rest alone.
From it: `TypesAndBudget`; `BudgetCountsBuffers`, that no path, the failing ones
included, leaks or returns memory twice; and `NoLostWakeup`, that no caller
sleeps on `cl_available` whom the pool could admit. The last one also holds while
another caller fits a worker under the lock, since the memory that call
gives up on failure is owed to the sleepers before the lock is released.

**J2kDecoderProofs.** `DecodedBeforeFreed` proves `OnlyDecodedFreed`: for every
file in `Streams`, conforming or not, and any number of calls, packet data leave
a tile only when its image was decoded from all of them, unless the call failed.
Between the decoding of a tile and the release of its data the code reads the
next marker, and EOC resets `m_current_tile_number` to 0; what carries the proof
is that `l_current_tile_no` of the round still names the tile (`JustDecoded`).
`Shaped` says that every tile has a structure and packet data are sequences of
items; it needs `Placed`, that the stream stands at an item or its end and that
`m_sot_length` is a number, since `opj_j2k_read_sod` appends what lies ahead.
`StreamsAssumption` says no more than what types the description of a file has
(`StreamOK`): tiles exist, a TLM segment lists tile-parts of the file. Nothing is
assumed about their order or number, the markers of the main header or where the
file is cut.

`TypeCorrect` proves `TypeOK` for the same files. A call that starts over seeks
behind the first SOT marker without asking whether the file is that long; that it
is follows from the main header having been read (`Standing`). The other parts
of `Typed` are about the structures (`DecOK`, `TcpOK`, `IndexOK`, `OutOK`).

`OwnDataOnly`: as long as no tile-part with Psot = 0 was met, a tile collects, and
is decoded from, packet data of that tile only. The tile number, the tile-part
number and the length that `opj_j2k_read_sot` left behind are used by
`opj_j2k_read_sod` some reads later. `Laid` says where the tile-parts stand in a
file, and is proved from `Items`; `OnTrack` says for every place of the code that
the stream is inside the very tile-part those three fields describe, or that the
tile is skipped. It survives a seek because what is sought is read anew from its
SOT marker on.

`DataCollectedInOrder` proves `DataInOrder`: what a tile collects and is decoded
from is the beginning of its own data, in order and without a gap. Its
hypothesis, `Numbers(str)`, is about the file: no two tile-parts of a tile have
the same number, and a TLM segment, if there is one, lists all tile-parts in
order. Without the first there is no order to speak of; without the second the
decoder seeks to the tile-parts the segment tells it, and joins tiles with
gaps, as the code does with a lying TLM segment. The step of the proof is that a
tile-part is joined only to a tile that has all the earlier ones. The code checks
the number of a tile-part (`j2k.c:4486`) only when it reads all tile-parts or
one tile: in a decode of an area the check is off, and that no tile-part was
passed over has to come from elsewhere. `OrderInv` collects where:
`Ready` and `CurTile`, that decoding begins only once a tile is decided, which is
then complete or the last that was met (`Closed`); `TileMode`, that between two calls
of `opj_get_decoded_tile` nothing stays collected; `Counting`, that no tile is
decoded twice in one call, so that the count of decoded tiles ends the call
when all of the area are; `Trusted`, that tiles of the area have exactly the data
of the tile-parts met; `Slack`, that a tile outside the area may have missed some
only when nothing is joined to it before the call ends; `Planned`, that
the offsets planned from the index are those of the tile-parts wanted,
each of them; `Indexed`, that the index made from a TLM segment stays
right; and `Grown`, that a tile has the data of its first tile-parts.

**PacketOrderProofs.** The include maps: `NoPacketTwiceInPart` says that a
tile-part never has a packet twice and `NoPacketReadTwice` that the decoder
never meets one twice, for every geometry, order, set of progression changes and
division, those the code divides wrongly included. The invariant is that the
tile-parts and the read sequence are injective; the step is that the next visit
is none of those in the map.

The order: for the tiles that `ByLetters` names, `OrderTypes`, `DecodersOrder`,
`PacketsComplete` and `PartsKeepWord` prove the four properties of the run, for
any number of components, resolutions, layers and precincts and any corners of
the tile. `ByLetters` asks that the tile has no progression changes, that the
division stops at a letter before the position, and, when the order counts
precincts (LRCP, RLCP), that every resolution has coefficients. Of the 389 tiles
of the run 241 are such tiles, 146 of them divided; nothing else of
`Divisible` is needed for them. The argument:

* Visits of a loop nest are totally ordered by the loop variables (`Nested`,
  `BeforeTotal`, `BeforeTransitive`). A packet is returned at the first visit
  that names it (`Fresh`, `FreshCovers`, `FreshOnce`), and `Lists` says of a
  sequence that it has the packets of a set of visits in the order of the loops.
* The values of the divided letters at a visit are the digits of a number,
  `PartNo`. The divided letters are the outermost loops (`OuterLoops`), so the
  numbers rise along the nest (`PartNoBefore`, `PartNoOrders`), and visits with
  the same packet have the same number (`ClassPart`): for a division by letters
  an include map for each tile-part is as good as one for the tile.
* The odometer counts: from the counters that a tile-part left behind,
  `opj_pi_create_encode` makes the windows of the next number
  (`WindowAdvances`, `NumeralNext`), and the visits inside them are those of
  that number (`WindowClass`). There are as many numbers as
  `opj_j2k_get_num_tp` computes (`PartCountIs`).
* The invariant, `OrderInv`: the counters are the digits of the number of the
  current tile-part (`OdoHeld`); what has been written lists visits that gave a
  packet, all of the earlier numbers and of this one those the iterator has
  passed (`Encoding`, `Running`); the decoder has listed the beginning of the
  visits of the whole nest (`Decoding`). An encoder that has refused nothing ran
  over the visits of the decoder (`BothSides`), though it counts `prcE` precincts.
* That nothing is left out is geometry: each precinct begins at a place where
  the loops stop, or is cut into by the tile (`IndexReached`), and a place
  where they stop lies in a precinct (`IndexInside`). Only this part needs
  `StepsAlign`, that the steps of components and resolutions are multiples of the
  least one, since that is what position loops advance by.

`TilesAssumption` gives the types of a tile's description: its corners are
ordered, it has a component, a resolution and a layer, sampling factors are
positive. Its numbers are unbounded, so the clauses of `pi.c` that pass over
steps of 2^32 and more are outside the model.

**PacketCodingProofs.** Encoder and decoder keep in step without telling each
other where codeword segments end. `SegmentsEndWhereTerminated` proves
`LimitsMatch`: in every precinct, under all four mode switches, for any number
of layers and any cut, the passes of every segment the decoder counts out end
at a pass that the encoder terminates, and contain no other but the last pass
of the block. `PrecinctsAssumption` gives at most 37 bit-planes and three passes
for each but the first. `IInv` (theorem `Segments`): the segments of every block have
the limits that their places ask for (`AllLimited`), and those in use exist
(`AllCounted`); between header and body the new passes of a block are shared out
over consecutive segments without a remainder (`AllShared`, and `Reading` and
`Taking` for the block at hand), so that the body opens no segment the header
did not. What the bits of a header say is left open in the proof: it holds for
whatever a damaged header announces.

### Only model-checked

* Liveness: `EveryCallReturns`, `JobRunsWhileWorkersLive`,
  `FlushReturnsUnlessFull`, `EveryCallAnswered`, `CallReturns`. The prover does
  not do fairness and `ENABLED`.
* `WholeImage`, `NeverFails` and `StrictRefusesPartial` of the decoder: they
  speak of what is there at the end of a call, and so need the converse of
  `OrderInv`, that each tile-part of a conforming file is met. `NeverFails`
  and `WholeImage` hold under premises (`Conforming`, `Repeatable`) that name the
  sequences of calls made before.
* `SameOrder`, `EveryPacketOnce`, `PartsAsAnnounced` and the types of
  `PacketOrder` for the tiles outside `ByLetters`: those with progression changes,
  whose volumes must not overlap, counted orders of tiles with empty
  resolutions, and divisions that reach the position (CPRL by R, RPCL by C or L
  and so on), which the code gets right only for the tiles that `Divisible`
  describes.
* `HeaderAgrees`, `DecodesWhatArrived` and the types of `PacketCoding`: they
  are about bits written by one fold and read back by another. `FoldTheorems`
  has the induction that a proof needs, but not yet the facts about bit sequences.

What a RECURSIVE operator computes is out of the prover's reach; the modules
proved about use recursive functions and folds.

## 5. Plan

Done: `ThreadPool`, `InputStream`, `OutputStream` and `AccelPool` with their
proofs; `PacketOrder`, `PacketCoding` and `J2kDecoder` with theirs. Left, in
order of importance:

1. `DecodeJobs`: the job producers of `t1.c` and `dwt.c` over `JobPool`'s
   promises: the shared `*pret`, a refused job, the event mutex. Properties: a
   tile is used only when all its blocks are coded; a failed or refused job
   reaches the caller.
2. The decoder at the end of a call: `StrictRefusesPartial`, then `WholeImage`,
   from `OrderInv`. Headers of packets: what `TagTree` writes, it reads back.
3. `MqCoder`: byte-out and flush (TLC only).
4. `Lifting53`, `SparseArray`: reconstruction on small lines, region reads.
5. `WinCond`, `Tls`: the Win32 condition implements the one `ThreadPool`
   assumes; thread-local keys.
6. `J2kEncoder`: the lengths of tile-parts and of the TLM segment, patched over
   `OutputStream`'s seeks.
7. The codec API and procedure lists; the order of JP2 boxes.
8. `JpipSession`: sessions, channels, targets with their use counts.

### Not modelled

Device kernels, the high-throughput block decoder, the 9/7 wavelet, component
transforms and matrix inversion compute numbers without control of their own,
mostly in floating point. Images, events and clocks are containers and
wrappers. Table generators, benches, command-line programs, viewers, index
writers and box parsers of JPIP are I/O or build tools. `thirdparty/` is not
this project's code, and makes up most of the lines of the repository. Of the
parts that are modelled, section 2 says for each module what it leaves out.
