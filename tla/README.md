# ExSeisDat in TLA+

ExSeisDat reads, sorts, gathers and writes seismic data (SEG-Y files) in
parallel: many MPI processes work on the same files, each on a part of the
traces. This directory holds TLA+ models of the parts of it where processes
meet, TLC runs that check them on small instances, and TLAPS proofs of what
holds for instances of every size.

Paths below are relative to the repository (`src/sort.cc`, `include/flow/set.hh`).
`PROJECT.json` names, for every definition, the file and the lines it models.

## 1. The system

The library is a stack. A layer calls the one below it; nothing calls back
except the function objects that are stored in a `Set`. There are no threads.
Concurrency is that of MPI processes, which interact in four ways: collective
calls (all-reduce, gather, exclusive scan, collective file access), pairs of
`Isend`/`Irecv` in the sort, one-sided `Put`/`Get` in `Uniray`, and the shared
files.

| part | state it keeps | operations | what is hard about it | what makes it correct |
|---|---|---|---|---|
| **Distributed sort** `src/sort.cc` | per process the work area `temp1` and its copy `temp2` | `sortP`, `sort` (template): rounds of two exchanges with neighbours and an all-reduce | processes run at their own pace between all-reduces; non-blocking sends; a loop without a bound; work areas that overlap with what neighbours hold; very small inputs | the result is in order across processes, nothing is lost or doubled, the loop ends |
| **Communication** `src/cmpi.cc` | the list of communicators; who initialised MPI | gather, min, max, sum, offset, barrier; manage, finalise | MPI started and stopped once, by whoever did it first | one finalisation, after the last use |
| **Data (MPI-IO)** `src/datampiio.cc` | an open file and its view | contiguous, strided and list reads and writes, size, close | counts are C ints, so requests are cut in chunks; collective calls have to match although sizes differ; views are set and reset around them; errors | the right bytes move, every process makes the same calls, errors are reported |
| **Object (SEG-Y)** `src/objsegy.cc` | none | offsets of headers and samples | – | headers and samples of a trace lie apart from those of any other |
| **File, reading** `src/rfilesegy.cc` | trace count, increment, geometry of a model file | `readTrace`, `readParam`, by list, `readModel` | reads beyond the end, unsorted lists with repeats, collective reads without work | each trace is the one that was asked for |
| **File, writing** `src/wfilesegy.cc` | the flags `ns`, `nt`, `stalent`, `resize`, `writeHO`, different on each process until the destructor | `writeTrace`, `writeParam`, `writeText`, destructor | what a process knows of the file is stale until the reduction in the destructor | the header and size agree with what was written |
| **Rules and parameters** `src/dynsegymd.cc` | a map from meta to entry, a count per type, an extent computed when stale, null entries | add, replace, remove entries; add another rule; extent; copy between Params and trace headers | entries added and removed in any order by callers that share the rule | no two parameters share an element, the extent covers every field |
| **Set** `src/flow.cc` | files with the input and output places of their traces, a list of function objects | `sort`, `output`, `getMinMax`, `toAngle`, `AGC`, ...: deferred operations that `output` unwinds | deferred work, files of different sizes, different number of blocks on each process | the output has every trace once, in order, and its count |
| **Cache** `src/cache.cc` | blocks of traces and headers by file | look up, fetch, flush | numbers it gives to headers are used as identities by the sort | numbers are unique and ascending |
| **Gathers** `src/gather.cc`, `include/share/uniray.hh` | a global array, one block per process | `getGathers`, `set`, `get`, `size` | a gather may span processes; one-sided access without fences between puts and gets | the array holds every gather once, and is complete before it is read |
| **Decomposition** `src/decomp.cc` | none | `decompose` | corner cases of the division | every item has one owner |
| **Min/max** `src/minmax.cc` | none | extrema of coordinates over processes | ties, start values | the extremum and the trace that has it |
| **Trace operations** `src/agc.cc`, `src/taper.cc`, `src/temporalfilter.cc` | none | signal processing on one trace | numerical | – |
| **Conversions** `src/characterconversion.cc`, `src/sdatatype.cc`, `src/segymd.cc` | none | EBCDIC, IBM floats, scalars | bit patterns | – |
| **Logger, PIOL, interfaces** `src/log.cc`, `src/piol.cc`, `api/` | a list of messages; handles, and the objects they share | make, use and delete handles; `isErr`; forwarding | handles go in any order; destructors call MPI and find errors; an error on one process changes which collective calls it makes | MPI lives long enough, errors are printed, nobody waits for ever |
| **4D bin** `util/4dcore.cc`, `util/4dio.cc`, `util/fourdbin.cc` | coordinates of two files, sorted; the closest trace found so far for each | read in chunks, sort, gather ranges, get the coordinates of others one-sided, compare, write both outputs | pruning by ranges at four places; sorted order against file order; chunked collective reads; gets in any order | the two outputs belong together trace by trace, and no closer trace is missed |
| **Sort utilities** `util/sort.cc`, `util/verifysort.cc` with the comparators and `checkOrder` of `src/sort.cc` | none | nine orders of headers; each process checks its part of a file | orders of four nested fields, offsets recorded or calculated, headers with equal fields | the order is the one the sort type names, the verdict is right |
| **Other utilities** `util/` | command lines | loops around the library | – | – |

`Set::output` drives nearly all of it: it unwinds the deferred operations,
reads headers through the cache, sorts them with the distributed sort, or finds
gathers and deals them out, and then moves traces block by block from input
files to the output file through the File, Object and Data layers.

## 2. The modules

| module | stands for | its own promise |
|---|---|---|
| `Placement` | entries, their order, how they are spread over processes | |
| `SortSpec` | what a distributed sort promises: at some moment one sorted arrangement of the entries is agreed, and every process returns its part of it | |
| `NearestSort` | the protocol of `src/sort.cc` | implements `SortSpec` (`ImplementsPromise`) |
| `NearestSortProofs` | the proofs about the sort: its operators, one round, the whole | |
| `Decompose` | the processes; `decompose`; `MPI::offset` and `MPI::sum`: what the processes below one have together, or all of them | |
| `Chunking` | the arithmetic of a chunked loop that collective calls force on all processes | |
| `SharedFacts` | the theorems about these, and the lemmas the proofs share: numbers, running sums, the greatest of the processes' numbers (`MPI::max`), the rank of an element in an order | |
| `CollectiveIO` | `contigIO`, `iol`, `listIO`, `readv`, `writev` and the views of `src/datampiio.cc` | |
| `CollectiveIOProofs` | the proofs about it | |
| `TraceFile` | what the File layer promises: numbered traces are put, their number is announced, and the closed file has exactly those below it | |
| `SegyFile` | `WriteSEGY` of `src/wfilesegy.cc` on all processes, its collective destructor, `ReadSEGY` of `src/rfilesegy.cc`, the layout in the Object layer | implements `TraceFile` (`ImplementsPromise`) |
| `SegyFileProofs` | the proof of that, and the proofs about writing and reading | |
| `SetSort` | `Set::add`, `Set::sort` with the rounds of the sort, `calcFuncS`, `startSingle`, header numbers of the cache, trace count of `WriteSEGY` | |
| `HeaderOrder` | the comparators of `src/sort.cc` and `getComp`, which give the traces of `SetSort` their order, and `checkOrder` on the finished output | |
| `Uniray`, `Gathers` | the global array; `getGathers`, `startGather`, `toAngle` | |
| `GathersProofs` | the proofs about them | |
| `FunctionList` | the deferred operations of a `Set`, and how `output` and the destructor unwind them through intermediate files; the look-up of the cache | |
| `Orders` | the order a `std::sort` or a `std::map` gives a set, for `SetSort`, `FunctionList` and `FourD` | |
| `SetSortProofs` | the proofs about `SetSort` and about `FunctionList`, the two sides of a `Set`; since it EXTENDS both, the specification of `FunctionList` is called `ListSpec` (`ListInit`, `ListNext`) and its `Set::add` and `Set::sort` are `AddFile` and `SortBy` | |
| `Rules` | `struct Rule`, and how `Set::getMinMax` uses one | |
| `ParamSpec` | what a `Param` promises: a table of values by trace and parameter, and a kept header for each trace | |
| `TraceHeader` | `deScale`, `scaleConv`, and the header of one trace as `insertParam` makes it and `extractParam` reads it | |
| `Params` | the arrays of `Param` objects, with the columns their rules give | implements `ParamSpec` (`ImplementsTable`) |
| `RulesProofs` | the proofs about `Rules` and `Params`, and what ties them together | |
| `FourD` | the 4D bin utility, from two files to two files | |
| `Lifetimes` | handles of the C interface, the objects behind them, the log, and MPI's start and end | |
| `ProgramsProofs` | the proofs about `Lifetimes` and about `FourD`, the two modules of whole programs; since it EXTENDS both, the specification of `FourD` is called `BinSpec` (`BinInit`, `BinNext`) | |

`MC...` modules give TLC the inputs. Modules that compose: all that have several processes
EXTEND `Decompose`; `SetSort` and `FourD` use `Chunking` for their block
loops as `CollectiveIO` does. `HeaderOrder` EXTENDS `SetSort`: its comparators make the keys of the traces there. Of the sort, `SetSort` has the rounds, each as one step of all processes, and its region with them; the second sort,
of pairs that are all different, is what `SortSpec` promises, where the region is not empty. `FourD` takes the sort of headers at that promise, which `NearestSort` is shown to keep; `Params` EXTENDS `TraceHeader` and
assumes of rules what `Rules` is shown to keep (`RulesMakeApart`; the two are extended by one module of proofs, so the
transitions of `Params` are called `PrmInit`, `PrmNext` and `PrmSpec`); `FunctionList` takes each step of the
unwinding as a whole, whose work on all processes is in `SetSort` and `Gathers`.

A definition named `Bug...` is no part of a model. It is the definition that
follows it with a mistake somebody could make in the code (a dropped guard, an
edge that is one too low, a swapped difference), and for every property of a
passing run there is one that makes TLC find the property violated.

### How state and actions correspond to the code

**NearestSort.** `pc[r]` is the place of process `r` in `sortP`; `temp1`, `temp2`
and `dat` are the vectors of that name (`prm` for `dat`), `left` and `right` the
messages in flight in each direction, `vote` the value given to the all-reduce.
`LocalSort` is the first `std::sort` and the fill of `temp1`. `BeginRound` posts
the lowest block to the left and copies to `temp2`; `EndLeft` is the wait for
both requests, the sort with the block from the right, and the post of the upper
block; `EndRight` the second wait, the sort with the block from the left and
the change test; `Allreduce` is the one step that all processes make together;
`Return` copies back. With `Eager = FALSE` a send completes only when the
receiver has posted its receive, as large messages do; with `TRUE` at once.
Four columns sent with one tag are one message here, since MPI keeps messages
of one pair of processes in order.

**CollectiveIO.** A request is a record of its kind, and of size and offset per
process. `pc[r]` is the MPI call process `r` is about to make: `Gather` of the
sizes, `SetView`, `DataAccess` with its view, and the view's reset.
`outer` and `inner` are the loop of `contigIO` or `listIO` and the one inside
`readv`/`writev`, each with its index and the empty calls that remain. A transfer
is a pair of a place in the buffer and a place in the file, which makes reads
and writes the same model. Collective calls are joint actions with one branch
per process; with `coll = FALSE` (independent access) data accesses are steps of one process.

**SegyFile.** Each call of the interface is one action in which all processes make
that call, each with its own places; `nt`, `stalent` and `resize` are the
members of that name, one of each per process, since they may differ. `content` maps byte
offsets to the part of a trace that begins there, so that a wrong offset, a
wrong number of samples or a file cut short shows as a trace that is not found.
`Destroy` is what a process decides by its own flags when its destructor begins; `CalcNt`,
`SetFileSz`, `WriteHO` and `CloseFile` are the collective calls, which wait
for all processes. `ReadSEGY` keeps nothing but what it found at opening, so
its requests are operators on the file: `ReadTrace`, `ReadListed` and `ReadNonMonotonic`,
which reads the list in ascending order and copies back from there (`Reordered`), or dies where no `Param` is given (`Died`).

**SetSort.** `Add` is one `Set::add`. The sort begins with `Refuse`, where a process has fewer than three headers, or with
`Round`s: `keeper` says which process has a header, in the order of the keys on each, and `Exchanged` is one turn of the loop of `sortP`, `LentLeft` to
the process below and then `LentRight` to the one above. A round in which the numbers at all places stay as they were is the last. `FileOrder` is the second
sort, of the pairs of number and place; `Copy` deals the list to the files in `calcFuncS`; `Enter`, `Read`,
`Write` and `Close` are `startSingle`: the reduction of the sizes, one turn of the
loop on every process with its collective read and write, and the destructor
of the output file. `olst` is the list of output places of each file; `block` is
what a process has in memory; `out` is the set of (place, trace) pairs written.

**HeaderOrder.** `Then` is one `if ... else if` of a comparator, and the five comparators are made of it; `Comp` is the switch of `getComp`. A set has a sort type and
a header for each trace; `KeyOf` puts the headers, with the trace numbers the cache gives them (`Cached`), in the order of the comparator, and that is the key `SetSort` sorts by.
`Output` is the file that comes of it, in whichever order and by whichever process its traces were written. `ReadParam` is the read of `checkOrder`, which numbers the headers anew,
and `CheckOrder` its loop on one process.

**Gathers.** `Exchange` is the collective part of `getGathers`; `Set` one
`Uniray::set` of one process; `Open` is the collective opening of the model
file in `RadonState`'s maker; `State` and `NextGather` get an element from the global array;
`Model`, `Read` and `Write` are the collective accesses of a turn. Puts and gets
interleave freely; `vec` has empty cells until a put fills them.

**Rules.** `rule.map` and `rule.num` are `translate` and `numLong`, `numShort`,
...; `null` are the metas `getEntry` has left a null pointer for; `ext` is
`flag.fullextent`, `flag.badextent`, `start`, `end`; `rest` what
`addRule(const Rule&)` has still to visit; `minmax` is `Set::getMinMax` between
adding its two entries and taking them back. `alive` is false once an operation
has gone through a null pointer.

**FunctionList.** `file`, `func`, `outfix` and `cache` are the members of `Set` of
that name, `fCurr` the iterator the unwinding has come to. All processes unwind the same list,
so there is one. `AddFile`, `SortBy`, `ToAngle`, `Taper`, `AGC`, `TemporalFilter` are calls that only
note a file or an operation; `Output` appends the operation that does nothing and starts
the unwinding, `Destroy` does the same with the last prefix. `Subset` is `startSubset` and `calcFuncS` for all sorts in a row;
`StartSingle` and `WriteGroup` are `startSingle`, group by group of `fmap`; `Reopen`, `GatherFile` and
`EndGather` are `startGather` with `drop()` and `add`. A file on `disk` is the set of its parts, each with what has been
done to it, so that an operation left out, doubled or out of order shows; a
file written while the set reads it is garbage.

**Params.** `cell[p]` holds the arrays `f`, `i`, `s`, `t` of a `Param` by type and
index, `c` the array of copied headers, `r[p]` its rule, which several objects may share.
`SetPrm`, `InsertParam`, `ExtractParam` and `CpyPrm` are the functions of that name for one
trace; `Index` is the arithmetic they all use. `header` is the trace header in a file.

**FourD.** `file` are the two input files; `Open`, `ReadKeys`, `Sort`, `ReadCoords` and
`EndRead` are `getCoords`, done for each file (`turn`); `crd` are the `Coords`, `trlist` the list of sorted
trace numbers, `pass` the loop over chunks with its extra calls. `Gather` is the first part of `calc4DBin`
up to the opening of the windows; `Update(r)` one turn of its main loop in process `r`: a get and
`update`, whose four counting loops are `Window`; `Free` the end of it and the list of
matches in `main`; `Output`, `Write` and `EndOutput` are `outputNonMono`.

**Lifetimes.** `script` is the program, the same on all processes, made up as the process that is
ahead goes on; `at` and `todo` are where each process is in it. What a call does is the list of its steps: `init`,
`finalize`, `sizes` (a reduction), `open`, `io` and `close` are made by all processes together, `head`,
`free` and `end` by each alone. `managing` is `managingMPI()`, `manager` the static `MPIManager`,
`handles` what the program holds, `alive` the objects shared pointers keep. `err` is `log->isErr()` and `unsaid` the
errors in the log that nobody has printed. `IsErr` ends a process as `ExSeisPIOL::isErr` does; the launcher then ends the others (`Kill`).

## 3. The runs

The last column is the number of distinct states; every passing run ends within
three minutes, most in seconds.

| run | instance | shows | states |
|---|---|---|--:|
| `SortTwo` | 2 processes with 8 and 9 headers in blocks of 2; every way to deal neighbours in pairs; buffered sends | `RowsKept`; `RoundsProgress`: a round that goes on leaves fewer inversions than it found; `ImplementsPromise` | 3,220 |
| `SortThree` | 3 processes with 4, 6, 4 headers; sends wait for the receiver | `SortedOnReturn`, `FreshBlocks` and `Terminates` | 31,180 |
| `Requests` | 2 processes, every pair of contiguous, strided and list requests of up to 3 units each, limit 8; collective and independent access; contiguous and strided accesses may fail | `ExactTransfer` without a failure, `CountsFit`, `InStep` (in collective access all processes are in the same call with the same loop), `Terminates` | 214,848 |
| `SetOutput` | 2 processes, each with 4 headers or more, or none; sets of files of 9, 4+4, 4+7, 2+3+4, 0+8 and 0+0 traces; blocks of 2; 12 arrangements of 7 headers of which two are equal, each with one of nine sort types or an unknown one; sorted or not at all | `OutputInOrder`, `NoOverwrite`, `WritesAscend`, `CountIsTotal`, `Terminates`; `SortedAsSaid`: the fields a type names ascend in the sorted output; `VerdictsRight`: a process that checks the output says Success just when they ascend in its part | 1,936 |
| `FunctionOrder` | 3 files in 2 groups; up to 3 deferred operations at a time, two orders to sort by, gather operations whose output is in an old group or a new one; up to 2 outputs, and the destructor | `Delivered`: every trace with every operation once and in order; `FreshHeaders`: no sort of headers of replaced files; `ListEnds` | 260,794 |
| `GatherAngles` | 3 processes; every way to cut 3, 5 or 7 traces into gathers; 2 traces per gather in the output | `ArrayComplete`, `WholeGets`, `RightTraces`, `OutputByGather`, `Terminates` | 2,986 |
| `RuleColumns` | 5 metas of 4 types, predefined and own fields, another rule as a whole, every sequence of operations | `CellsApart`, `ExtentReaches`: an extent that is not stale goes from the place of the lowest field to behind the last; `LeavesRule` | 172,070 |
| `ParamTable` | 2 objects of 2 traces, any of 3 rules for each (two coordinates with one scale, a long or a short inline, an index, the copy); 3 operations; scales 10 and 100, integers up to 127 | `ImplementsTable`; `StoredExactly`: coordinates that share a scale come back as they were if any scale allows it | 33,121 |
| `SegyRoundTrip` | 2 processes, up to 4 calls on a file of up to 3 traces, each process writing any block or any set of places that the other does not write; numbers of samples 2 and one too large; a new file and an older, larger one | `CountKnown`: a process that does not hold its count for stale has that of all; `ReadsBack`: whatever call reads it, a trace that is there is found, and the header (by a list in any order where headers are asked for); `ImplementsPromise`; `Terminates`: nobody waits in the destructor for a call the others leave out | 48,906 |
| `FourDPairs` | 2 processes; every file of 8 and every file of 9 traces with sources at 3 places, receivers ahead or behind; with and without inlines; reads by 4 and by 2, writes by 2 | `PairsWritten`: output traces at one place are a pair at the distance both headers say; `InnerClosest`: no closer trace inside a range is missed; `BinEnds` | 139,458 |
| `Handles` | 2 processes; up to 4 calls before those that end the program, up to 3 handles; one process up to a call ahead; one unprinted error | `MpiCovers`: MPI is on for every call that needs it and ended once; `ErrorsSaid`; `Terminates`, as long as no file is used with an error in the log | 945,485 |
| `SetLargeFirst` *(violation)* | files of 6 and 4 traces | `OutputInOrder` fails: header numbers that are not unique misplace traces | – |

Eight more configurations are kept beside the runs: `SetSmall`, `SortOffsets`, `ListErrors`, `ReadSamples`, `RuleAsked`, `OutputAgain`, `FourDClosest`, `FourDReads`. TLC
finds the properties they name violated; what that shows is in section 5. Where two properties are named, TLC stops at the first and has the other when that one's line is taken out, or,
in `SetSmall` and `RuleAsked`, when called with `-continue`.

### Why the bounds are enough

* *Sort.* Blocks are a quarter of the smallest local size: 1 entry from four
  entries on, 2 from eight. `SortTwo` has blocks of two, so that order inside a
  block matters, and unequal lengths; `SortThree` has a process with neighbours
  on both sides, which holds blocks of both phases at once. Dealing pairs of
  neighbouring entries instead of single ones cuts the inputs without losing
  the rounds in which an entry crosses the whole line. What remains is proved
  for all sizes.
* *Requests.* The limit of 8 bytes makes requests of up to 3 units take zero, one
  or two calls, so that the difference between two processes is 0, 1 or 2, with
  full and with partial last chunks. Two requests in a row show a view that is left
  behind, or processes that get out of step.
* *Sets.* A block of two traces and files of 2 to 9 give processes equal and unequal
  numbers of blocks, in each file separately. Keys are all the affine orders modulo 13,
  which take neighbours apart in either direction. Files of the good
  shapes are those whose header numbers ascend: on two processes equal or growing sizes (`TwoProcessesRise`),
  with a file that has no trace among them. The set without traces is refused by the sort, and is the only such set that is written all the same, if without a header, since there is an error in the log. In the others every process has four headers or more, so that the region is one and a header
  takes several rounds to its place; what happens below is in `SetSmall`.
* *Orders.* Each field is the first to differ between some two of the headers in the pool. A process checks four headers or more of an output, so that the loop of `checkOrder` turns three times. An offset has
  8 bits as a `size_t` and 5 significant ones as a `geom_t`, for 64 and 53; those of `SortOffsets` are on both sides of zero, and small negative numbers meet at one value, as those above -1024 do.
* *Gathers.* Seven traces on three processes allow a gather that spans all
  three, one that ends at a boundary, processes with none of their own to put,
  and more gathers than processes, so that a second turn with idle processes
  occurs.
* *Files.* With three places and four calls the counts of two processes come to differ, a
  count is announced below and above what is written, before and after it, an older
  file is longer than the new one, and lists repeat a trace.
* *Function list.* Three operations are a sort, a gather operation and one on single traces in every order,
  or two of a kind and another; the operation that output adds comes on top. Two files of one group and one of
  another make the three cases of names: a group alone, a group of several, both. The second
  output works on what the first has left: replaced files, a used cache, the last prefix.
* *Params.* Two rows and columns 0 and 1 separate an index with a wrong width from one with a wrong column or row; the three
  rules differ in types, columns and the entries they have, and one keeps the copy. Three operations are: set, copy (or write), read.
  Two scales and small integers give coordinates that need a scale below 1, above 1, or none, that fit together or do not.
* *4D bin.* Four or five traces per process give ranges of which some are in reach, with ties at one place. Files are not in
  the order of their sources, so that chunks of the sorted lists are not ascending in the file.
* *Handles.* Three handles are a PIOL and two objects, or a PIOL that is deleted and made again; four
  calls make, use and delete in every order. One call ahead lets a process be in the next call while another is still in the last.
* *Rules.* Two entries of one type, an index entry and the copy are enough for every
  case of the renumbering in `rmRule`; a third of a type brings only a longer row,
  and is covered by the proof.

### Fairness

A running process goes on: every local step and every completion of a wait is
weakly fair, and so is a collective call that all processes have come to. That
is what MPI's progress rule gives; no process is assumed to be faster than
another, and nothing is assumed about a call that some process never makes. No
strong fairness is used. Where one sequence of steps stands for all processes (`FunctionList`) the unwinding itself is
weakly fair, never the caller: a program need not call `output`. In `Lifetimes` the whole program goes on as
long as something can happen; `WF` of `Next` then says only that it is not suspended. Deadlock is checked in every run but `Handles`, where
processes do stop for ever when a file is used in spite of an error on one of them, as the comment at `src/wfilesegy.cc:50` says.

### What is abstracted

* Sort keys are natural numbers (`ord`, or `key` in `SetSort`) compared by `<`, standing for the comparators,
  which all reduce to an order on headers without ties: the last field is the local trace number, different for every header of a set, as `HeaderOrder` has it.
* In `HeaderOrder` the output holds the headers the input had; what a header can hold is in `TraceHeader`. In `SetSort`
  a round is one step, since all its processes meet in the all-reduce; `RoundInvariant` of `NearestSortProofs` is the reason.
* Sizes are integers, not `size_t`. That no difference of sizes becomes negative,
  where it would wrap, is proved (`SameNumberOfCalls`).
* Collective calls do not fail, and views are set without error; data accesses
  may fail.
* A one-sided window covers the block it is created for. (`Uniray` gives the number of
  elements where MPI takes bytes; what then happens is up to the library.)
* A file to be gathered is sorted by gather, every process has a trace of it,
  and there is one gather operation and one output. `SetSort` has one output too. Several of both are in `FunctionList`.
* `FunctionList` checks the lists the unwinding supports (`WellUsed`): sorts first, then single-trace operations or one
  gather operation; at most one group with a single file (`OutputAgain` has two); one group where there is a gather operation. Section 5 says what the others meet. Empty
  sets, two gather operations in a row and `getMinMax`, `text` and `summary` are left out. Groups are positive numbers, since an output name with the number 0
  stands for one without a number; the caller's files, outputs and intermediate files have different names (`PrefixAssumption`, `KeyAssumption`), and no order to sort by has the name of another operation (`MarkAssumption`).
* Rules of `Params` have full extents, which is what the interfaces make; with others `insertParam` takes `r->start` before
  `extent()` may compute it. Two `Rule` objects with equal entries are one. Nobody copies a trace onto itself. Coordinates are multiples of what the smallest scale can hold;
  the binary rounding of `float` is left out.
* `FourD` compares x coordinates only (all y are equal), takes the sort by its promise, with four traces or more on a process, and writes the distance into
  the output always (`printDsr`). When `update` reads before an array, nothing more is said of that process.
* In `Lifetimes` an `open` fails on all processes or on none. Programs have one PIOL at a time, delete handles once and do not use them
  afterwards, and do not finalise MPI below live files. The destructor of a written file is a reduction (`calcNt`),
  one access of the file and the close; `setFileSz` (`src/wfilesegy.cc:53`) is a second call that all make together, and is in `SegyFile`. Of errors there are those of accesses: one that
  `writeNs` or `writeInc` records for a wrong value, on all processes alike, leaves the log as a failed access of all would. Sets are not among the handles. Static objects made before the manager, and the exit of `Set::add` when a pattern
  matches nothing, are left out.
* Processes make the same calls of `WriteSEGY` in the same order, with places of their own
  that do not overlap. The number of samples is given before anything is written and is
  positive; where it is never given the file is taken as garbage, as the comment in
  `include/file/filesegy.hh` says, and nothing is promised. With `writeNs(0)` the flags `resize`
  can come to differ (`writeNt` sets it where the process's own count differed), and then
  only some processes call `setFileSz`; the model leaves files without samples
  out. A process without traces in a contiguous write passes offset 0. Reads begin no later than the
  end. Text and increment are one value, `about`. Accesses of the file do not fail here: an
  error that only one process has logged keeps it out of the collective
  calls of the destructor, as the comment at `src/wfilesegy.cc:50` says.
* A field of a rule has the bytes that its place, counted from 1, names, and lies inside the trace header; no field is put at the
  meta of the copy; extents are either full or computed. The constructor of a
  `Rule` from another's map, which shares entries and is used by tests only, is
  left out.

## 4. The proofs

**The sort** (`NearestSortProofs`), for every number of processes, every local length and
both kinds of sends. What makes the argument possible is that within a
round nothing depends on the interleaving: the work area of a process after the
left phase (`AfterLeft`), and after the right one (`AfterRight`), is a function of the
vectors the round began with, which `temp2` holds. The invariant is a
conjunction of

* `TypeOK`;
* `PhaseInv`: processes differ by at most the phases of one round, since all meet in the all-reduce;
* `ChannelInv`: a channel holds a block exactly while its sender is past the post and its receiver before the wait, and that block is of this round;
* `DataInv`: each work area is the function of the round's vectors that its phase says;
* `HeldInv`: what the processes hold, in local sorts and between rounds, are the input's rows, all distinct;
* `SortedInv`: local parts are sorted when a round begins;
* `FinalInv`: once processes leave the loop, the whole is sorted.

The first four are needed for one another: without `DataInv`, a block could be
anything, and without `ChannelInv` the functions of `DataInv` could not be computed from
what arrived. They are proved with no assumption on the data (`RoundInvariant`);
`BlocksAreFresh` follows. `RowsKept` and the rest need distinct entries, since `gtn` must tell
two entries apart for the change test. The heart of `FinalInv` is that a round
in which nobody sees a change had its blocks in order at every boundary, which gives
global order when the region is not empty, that is with four or more entries
on every process: the assumption of `ReturnsSorted`, and the one `SetSmall`
shows to be needed. `KeepsPromise` maps the all-reduce that ends the loop to
`SortSpec`'s `Agree`, each return to `Return`, and every other step to a stutter.
`MakesProgress` (`RoundsProgress`) is the safety half of the argument that the loop ends. Each phase sorts ranges of the distributed vector that follow each
other without a gap: between the phases (`Between`) the range of `r` is what it kept and the low block of `r + 1`, after them its local part. Entries in the right order
are therefore never exchanged (`GroupsSorted`, once for each phase), so that what is in the wrong order after a round was so before; and the first cell whose
entry changed gives a pair that no longer is (`FewerInversions`). The pairs are counted by an injection that is not onto. That each round ends is left to `Terminates`.

**Distribution** (`SharedFacts`): quotient and remainder give blocks that lie end
to end (`BlocksEndToEnd`), differ by at most one (`SharesBalanced`) and own
every item once (`OneOwner`); and in a chunked request chunks plus empty calls are
the same number on every process (`SameNumberOfCalls`), the fact behind the
absence of deadlock in the Data layer and in the Set.

**The Data layer** (`CollectiveIOProofs`), for any number of processes, any sequence of requests and any
limit on a call. The assumption on the requests is `WorkloadsAssumption`: the processes make the same kinds of
requests, and a block is not larger than a call may move. Two invariants are needed.

* *Barriers.* Where data access is not collective, processes drift apart between the calls all of them
  make: one may be in its last chunk, another back in the caller and at the gather of the next request. `InStep` says
  nothing of those moments and is not inductive. What is equal for all at every moment is the *next* call they will
  meet at, with the passes of both loops that are left there (`Barrier`, `Together`). A gather sets the passes left to
  those of the busiest process (`SameNumberOfCalls`), a reset of the view or a collective access takes one
  off for all, an access of one's own and a return change no process's next call. From it `AlwaysInStep`.
* *Bytes.* A request moves its bytes in order, so that what is done is a number (`Done`): full chunks, and in
  `readv` and `writev` what the inner loop has done of the current one. `Exact` says that, unless an access failed, exactly the first
  `Done` bytes are moved, and that the view is the one of the current chunk where it is used and reset elsewhere. The step is `NextBytes`:
  byte `x` seen through the view of the chunk at block `i` is byte `i * bsz + x` of the request (`SeenThrough`,
  by quotient and remainder), so an access appends the next bytes. From it `AlwaysExact`.

`CountsAlwaysFit` needs only that a chunk is at most the limit divided by what a unit takes. That errors are reported is not proved: for requests by list
it is false (`ListErrors`), and for the others it is a line of the code.

**SEG-Y files** (`SegyFileProofs`), for any number of processes, traces and samples, and any sequence of calls. Three groups of facts
make the invariant. *Who knows the count:* the processes hold their count for stale in the same calls and set `resize` in the same calls, so
the two flags are equal on all of them until one finds an error; a process that does not hold its count for stale has the greatest
count of all (`CountAlwaysKnown`); and in the destructor the processes are at most one collective call apart (`DestructorsMeet`).
*Where things lie:* the place of a cell in bytes determines the part and the number of the trace, for any number of samples, so that two
calls never meet in the file (`TypesKept`). *What the file has:* the cells put so far, and nothing else below the count. From these
each call maps to `Put` or `Announce` of `TraceFile`, the reduction in the destructor to `Close` (`KeepsPromise`). A reader of the closed file
then gets every trace that is there, by an offset or, where headers are asked for, by a list in any order with repeats (`AlwaysReadsBack`; for samples alone `ReadSamples` shows that it does not); `std::sort` may order entries that ask
for the same trace as it likes, and the proof leaves that open.

**The sorted output** (`SetSortProofs`), for any files, keys, numbers of processes and blocks. Everything but the order of the sorted
traces holds without a condition on the files: no place is written twice (`NeverOverwrites`), writes ascend (`AlwaysAscend`), the count is that of the set
(`CountAlwaysTotal`). The reason is that the list of places the second sort deals out is a bijection whatever the numbers of the
cache are (`PlaceListBijective`), since pairs with one number are still told apart by their place. What the numbers decide is *which* bijection.
It is the right one when they ascend in the order of the headers (`PlaceListIs`), which is the case if the first trace of a later header's block
never has a lower number than that of an earlier one (`Rising`): for files of one size on any number of processes
(`EqualSizesRise`), and for files of ascending sizes on two (`TwoProcessesRise`). And the places must be those of the keys. A round lends as many headers
as it takes back, so that each process keeps its number of them (`ExchangedDealt`), and the places are all different in any round (`PositionFacts`). With different numbers, a round that sees no
change has moved nothing (`Unmoved`); then the highest header of a process, which it would have lent, is below the lowest of the next one (`NeighboursAscend`, `FixedAscends`), provided that
it lends any. That is `Large`: four headers on every process. Under the two hypotheses the finished output is in
order (`FinishedInOrder`); without sorting it is for any files. `SetLargeFirst` shows that the first is needed, `SetSmall` that the second is. The invariant: the places each
process has for a file are those its traces are given (`Listed`); the output holds exactly the traces
the loops have behind them (`OutFacts`); a process has counted beyond each of them (`CountFacts`), so that the greatest count of all is
the total. The proof of the loop's exit found a mistake in an earlier form of this model, which stayed at a file without traces for ever.

**The deferred operations** (`SetSortProofs` too), for any files in any groups, any orders, any number of operations in a list and of outputs, and callers who keep to `WellUsed`. The three
properties speak of the moments when the list is empty again, or of a sort, and follow from what holds in between. The invariant is `ListInv`:

* `Known` and `CacheTrue`: the files of the set are on disk, each was opened once and has a number of its own; a block of the cache whose numbers are those of a group has what the group's files hold. It stays
  true though the cache is never flushed: a file that takes another's place on disk gets a new number, and no file of the set is written while it is one (`Apart`, and in `Gathering`). From it `AlwaysFresh`.
* `Resting`, `Unwinding`, `Writing`, `Gathering`: one statement for each place the set can be at. They relate what `output()` has promised to what is still to be done: the promise is always
  what the files would hold if the rest of the list (`Left`) were applied to them (`Owed`). A sort drops out of the rest and into the order of the files; the intermediate file of
  `startGather` has the sort behind it, and the rest as before; `gtemp.segy` has all of it.
* `Alone`: two groups with a single file would have one name (`OutputAgain`). With it the groups that are written have different outputs, none of which is a file of the set (`OutNameIs`), so that an output once written stays (`WriteGroupStep`).

`Delivered` needs what the recursions compute, for lists of any length: that marks left one after the other are those left at once (`ThenThen`, `AfterAfter`), that several
sorts in a row are as good as the last (`SortsMerge`, `SortRun`), that what is left begins with what comes next (`LeftIs`), and that `Singles` and `InGather`, which follow calcFunc through the list, are all that is left
in the lists `WellUsed` allows (`SinglesLeft`, `AtGather`). Each is an induction over the places of a list, done by hand: if there were a place
where it fails there would be a least one (`LeastNat`). The recursive functions themselves are first shown to exist (`Backward`, `FoldExists`, `FlattenExists`). Where `WellUsed` fails the properties do too; section 5 says how.

**Gathers** (`GathersProofs`), for any file whose gathers are runs of traces, any number of processes that each have a trace, and any number of
traces that the operation makes of a gather. The argument has three parts. *What is found:* a file is described by its marks, the places
where its gathers begin. The marks of the block of a process are those of the file cut off at the ends of the block (`PartMarks`); a process
leaves out its first gather exactly when that began below it, and adds to its last one exactly what the processes above have of it (`StartIs`,
`SpillSum`), so that it finds the gathers of the file that begin in its block, in full (`FoundIs`), and the lists of the processes one after the
other are the list of the file (`ListIs`). *Where it is kept:* every number has a cell of the global array, and a put to it is what a get of the
same number gives, whichever process makes it (`PutGet`). *How it is used:* the processes go through six phases together, divided by the
collective calls, and the invariant `IInv` says what holds in each. The puts are over before the first get only because the opening of the model
file divides the two phases, which is what `ArrayAlwaysComplete` and `GetsAlwaysWhole` rest on. In turn `t` process `r` has gather `t * NumRank + r` or
none; the running sums of the sizes are then the places of the gathers in the file and in the output (`SumFrom`), which gives
`TracesAlwaysRight` and `OutputAlwaysByGather`.

**Rules** (`RulesProofs`), for every set of metas and fields: the invariant adds to
`TypeOK` that the columns of each type are exactly `0 .. n-1` (`Dense`), and that the
copy's type is at the copy's meta only. Without density removal could not be
shown to keep columns apart, since it shifts every column above the removed one.
While `getMinMax` works, the rule is what it was before with both entries ensured
(`Bracket`), and taking an entry back undoes adding it when it is the last of its type.
`OwnCellsAlways` concludes for a Param of any number of traces that each
parameter has elements of its own: two quotient-and-remainder pairs with one
value are equal. `ExtentAlwaysReaches` needs that an extent that spans the whole header is never
marked as stale (`FullExtent`): only then does a change that marks nothing but computed extents leave every field within reach. The extent reaches
from the place of the lowest field, which is a byte behind its first: `RuleAsked` shows what comes of that.

**Params** (`RulesProofs` too), for any objects, rules, traces and values. The whole argument rests on one fact about indices: with
`width * trace + column` and a column below the width, an index determines both (`ImplementsTable` fails for any other layout), and
entries of one type have different columns. That is the assumption `RulesAssumption`; `RulesMakeApart` shows that every rule the operations of
`Rules` can make satisfies it. From it: setting one cell changes one entry of one row; the cells of a row under a
function by meta give that function back (`WithRow`); and copying a whole row of every array is copying every entry (`CopiedRow`). The
type invariant is inductive by itself. Each action then maps to the action of `ParamSpec` of the same name; `ops` and the end of the
run are stutters. Nothing is assumed of `Inserted` and `Said` but that they are functions, so the refinement does not depend on how a header is encoded.

`StoresExactly` is about that encoding, and shows `StoredExactly` for any width of an integer and any scales that are all the powers of ten up to a greatest
(`PowersOfTen`). The scales are then a chain in which each divides the next. A value that is exact at two of them is exact at all between (`UpBetween`,
`DownBetween`): it has the digits by the one, and its integer is small enough by the other. So suppose one scale keeps all values. What `deScale` finds for a value alone is never
beyond that scale (`UpScale`, `DownScale`), whichever of its three branches it takes: too large an integer part is divided by no more than is needed, and a scale with more digits than the value has is
not kept by the test of the remainder. So the scale furthest from 1 among those found, which is what `Common` takes, lies between each of them and the one supposed. Two hypotheses remain, and the code checks neither: the
coordinates of a rule have places of their own in the header, apart from those of the scales (`PlacesApart`; two entries at one place overwrite each other), and
callers set numbers (`IntsGiven`, in units of `1 / Tenk`), from which the invariant `IntInv` follows that all values, kept headers and the file's have.

**Lifetimes** (`ProgramsProofs`), for any number of processes and programs of any length. The invariant `IInv` speaks of each process by itself, so that a
collective step is, for each, the step at the head of its own list (`Joins`). It has four parts that need one another. *Objects:* what a file points to is a PIOL that
is not yet destroyed, since only handles point to files and handles keep alive what their objects point to. *Library:* while there is a PIOL or a file MPI is on,
or about to be started, or the program is at its end; a manager that was never made means that no PIOL was. *Work:* what a list of steps begun earlier
assumes of MPI and of its file still holds when each step is reached: lists that start or end something stand alone, a destroyed object is the last step of
its list. *Ends:* an error that is not yet printed has a PIOL whose destructor will print it. Each call is shown to begin a list of which that is true (`BeginKeeps`,
`BeginAdds`), each step to leave the rest so (`FrontDone`). `MpiAlwaysCovers` reads the requirement of a step off *Work*; `ErrorsAlwaysSaid` follows since no handle
is left, so no object, so no PIOL, so no error unsaid. That a program keeps to the rules of section 3 (one PIOL at a time, no use
after deletion, no `MPI_Finalize` below live files) is in the guards of the model, and a proof of neither would be possible without.

**The 4D bin utility** (`ProgramsProofs` too), for any number of processes, any two files with a trace for each process, any coordinates, `dsrmax` and sizes of blocks. Since the processes
meet in nearly every call, the invariant `BinInv` is a proof outline: the types, and one of eight statements by the call the processes have come to (`Opening`,
`Keying`, `Listing`, `Meeting`, `Comparing`, `Placing`, `Writing`, `Closed`). The two properties are far from inductive: they speak of two moments, behind
the gets and at the end, and follow only if the lists are right at each call before. What carries it along:

* *The list.* Between the loops the numbers read are those of each process's block (`AllListed`), and the sort arranges all of them in the order of the
  source, ties by number (`SortedList`). A sequence whose k-th member has k - 1 members below it is the whole set in its order, each member once: `RankingBy` and `OrderedBy` of `SharedFacts`, for any strict order, on which the rank
  of an element in the sort of headers now rests too. So no trace is in two parts (`Sorted`, then `Complete`).
* *The reads.* A chunk is read in ascending order and put back: what is fetched for the k-th element of the list is the trace of that number (`FetchedIs`), for
  any size of block, so that `crd` ends as the list says (`ReadThrough`), whatever calls without traces the others make necessary.
* *The comparison.* `Truthful`: what a process holds of a best partner is the distance the two files give it, from the first guess on. `Looked`: each process is either still
  to be got, or the neighbours inside the two parts are already matched as closely as `InnerClosest` says. That uses the order of the parts: counts from below and from above
  bound a window (`WindowIs`), and two neighbours that are in reach of two neighbours have their lower members in it. The lower members only: the
  upper ends are the finding `FourDClosest`, and a proof of more fails exactly there. Gets in any order keep it, since a step of one process changes nothing of another.
* *The outputs.* The pairs of a process are those of different traces of its part (`MatchesIs`); their places are the running sums of what the processes below have kept, so they are all places
  below the total, each once (`PlacesIs`), and a file is full when all have written their chunks (`FileWritten`). `WrittenOnce` and `StandBeside` then give `PairsWritten`.

Nothing is assumed of the files but `PairsAssumption`. A process without traces, or one that reads below its arrays, is outside: the first is
excluded by the assumption, and with the second (`undefined`) a behaviour of the model ends.

Assumptions are named in the module that declares the constants, and TLC evaluates them in every
run.

**Only model-checked:** all liveness (`Terminates`, `BinEnds`, `ListEnds`), since fairness and `ENABLED`
are out of the prover's reach. Of the other properties of the runs that pass, `SortedAsSaid` and `VerdictsRight` are not proved; each of the rest has a theorem.

## 5. What was found

The first is a run; the others are configurations kept beside the runs, for the module `MC...` that is named. TLC
reports each property as violated.

| configuration | property | where | what |
|---|---|---|---|
| `SetLargeFirst`, `MCSetSort` | `OutputInOrder` | `src/cache.cc:51` | with a larger file before a smaller one header numbers repeat, and the sorted output misplaces traces; on three processes it does so with the smaller file first too (3 and 9 traces). `include/ops/sort.hh:26`: "The returned vector is the location where the nth parameter is located in the sorted list." |
| `SetSmall`, `MCSetSort` | `OutputInOrder` | `src/sort.cc:753` | three headers on a process pass the test at `src/flow.cc:580`, but a quarter of three is 0: nothing crosses between processes and each keeps the headers it read. `include/ops/sort.hh:37`: "Return the correct order of traces from those which are smallest with respect to the comp function." `src/sort.cc:11`: "If each process has the same traces it started off with, the sort is complete." |
| `SortOffsets`, `MCSetSort` | `SortedAsSaid` | `src/sort.cc:119` | a recorded offset is read as an unsigned number and compared as a floating-point one, so that negative offsets, which SEG-Y has on one side of the source, come last and in no order. `include/share/api.hh:293`: "Sort by source x, source y, offset read from file". |
| `ListErrors`, `MCCollectiveIO` | `ErrorsReported` | `src/datampiio.cc:148` | the result of the data access of a list request is not taken; an earlier one is tested again. `src/datampiio.cc:131`: "@return Return the MPI error status". |
| `ReadSamples`, `MCSegyFile` | `ReadsSamples` | `src/rfilesegy.cc:264` | a list in any order is read through a `Param` made from `prm->r`, also where `prm` is `PIOL_PARAM_NULL`. `include/file/file.hh:197`: "When prm==PIOL_PARAM_NULL only the trace DF is read." |
| `RuleAsked`, `MCRules` | `ExtentCovers` | `src/dynsegymd.cc:493` | places count from 1, and with `start` the place of the lowest field `loc - start - 1` is -1 for it. `include/file/dynsegymd.hh:375` promises the buffer space required. |
| `OutputAgain`, `MCFunctionList` | `OwnOutputs` | `src/flow.cc:217` | two groups with one file each get one output name; the second overwrites the first. `include/flow/set.hh:403`: "Return a vector of the actual output names." |
| `SetSmall`, `MCSetSort` | `Terminates` | `src/flow.cc:444` | a refused sort returns an empty list that is then copied from. |
| `RuleAsked`, `MCRules` | `Survives` | `src/dynsegymd.cc:302` | asking for an absent entry leaves a null pointer in the map, as `test/spectests/dynsegymd.cc:55` does. |
| `OutputAgain`, `MCFunctionList` | `OutputLasts` | `src/flow.cc:84` | the list of operations is empty after `output`, and the destructor writes the output again without them: `AGC`, `output("out")`, delete leaves a file without the gain. `include/flow/set.hh:401`: "Output using the given output prefix". |
| `FourDClosest`, `MCFourD` | `ClosestFound` | `util/4dcore.cc:272` | both ends are counted down to the last trace in reach and used as the end behind it, so that the last trace of a range is never a candidate and the last own trace is never updated; traces the boat passed in the other direction are pruned by their source. `util/4dcore.hh:24`: the trace number "that minimise the difference". |
| `FourDReads`, `MCFourD` | `ReadsBalanced` | `util/4dio.cc:136` | the extra calls of the second loop are those computed for the first, whose blocks are larger; with a large file processes make different numbers of collective reads. `util/4dio.cc:49` says what that leads to: "If not, the code will deadlock." |

Met while modelling, and outside what the runs take as legal use:

* `src/flow.cc:190`: a list with a gather operation and then one on single traces applies the second in the gather pass and again to the
  intermediate file; a sort or gather operation behind one on single traces is dropped without a word; a sort before a gather operation is
  lost when there is one file; with two groups both write `gtemp.segy`; a gather operation on what another has left reads `gtemp.segy` while it writes it.
* `src/flow.cc:504`: `output` returns no names when a sort or a gather operation comes first. `src/flow.cc:331`: two gather operations in a row list every gather twice.
* `util/4dcore.cc:273`: with nothing in reach `xSrc[-1]` is read. `util/4dcore.cc:98` and `include/share/uniray.hh:61` give windows the number of elements as
  their size in bytes.
* `src/dynsegymd.cc:507`: the common scale is the least or the greatest of those of the single coordinates; another coordinate may then not fit 32 bits.
* `src/cmpi.cc:103`: after `manageMPI(true)` and no PIOL, nothing ends MPI at exit, since the manager is made with the first PIOL; `include/anc/mpi.hh:27` says it will.
  `api/cfileapi.h:82` says that deleting the PIOL ends MPI; the end of the program does.
* `src/sort.cc:338`: `checkOrder` looks at the part of one process, as `include/ops/sort.hh:66` says; parts that are in order need not be so together, and `exseis-versort` compares nothing across them.
* `src/rfilesegy.cc:259`: an empty list is read at its first place.
* `src/rfilesegy.cc:129`: `readModel` by list leaves out the factor the other overload has. `src/rfilesegy.cc:225`: a read behind the end is clamped to a
  negative difference of unsigned numbers. `src/flow.cc:529`: the search for a maximum starts at the least positive number.

## 6. Not modelled, and why

* Trace operations (`agc`, `taper`, `temporalfilter`), EBCDIC and IBM floats: functions on floating-point numbers and bit patterns
  without state between calls. What an operation does to a trace is one mark in `FunctionList`.
* `minmax.cc`, and the extrema `Set::getMinMax` finds: a local scan and one reduction, of floating-point values.
* The two-sided exchange of `util/4dcore.cc`, which is compiled out; unused parts of the cache; `text` and `summary`.
* The text of messages and levels of verbosity. Utilities other than `fourdbin` and the two of the sort: command lines around the library.
* Errors in setting a view, in resizing a file and in the collectives.

## 7. Plan

Done, in the order in which the system depends on them: the sort and its proofs; `decompose`
and chunking; the Data layer and its proofs; the sorted output of a Set and its proofs; gathers and their proofs; rules and their proofs; SEG-Y files, written and read back, and their proofs; the arrays of a
`Param` and their proofs; handles, errors and MPI's start and end, and their proofs; the list of deferred operations with the cache, and its proofs; the 4D bin utility and its proofs; the orders of the sort types, and the rounds of the sort in the sorted output.

What would come next: ties in the sort, with `std::sort` free to order them; errors in views; opening and
sizing of files; `getMinMax` with its start values and ties.
