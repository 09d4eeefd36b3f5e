# TLA+ verification of dlis_parser

`dlis_parser` reads DLIS well-log files (API RP66 v1).  A Node.js add-on parses a
file in a thread of its own, writes one text file per curve, and sends the
metadata over a ZeroMQ socket to the JavaScript of the same process, which builds
a catalogue of wells, datasets and curves and calls the user back.  This directory
holds TLA+ models of the program, the TLC configurations that check them, and
TLAPS proofs of what they promise for files and buffers of any size.

Paths below are relative to the repository: `dlis.cc` and `dlis.h` are in
`node-addon/src/`, `index.js` and `src/main.cc` at the top.

## 1. Inventory

| component | code | state | operations | modelled by |
|---|---|---|---|---|
| block reader and ring | `dlis_init`, `dlis_read`, loop of `do_parse` | `buffer[4][64K]`, `buffer_idx`, `byte_idx`, `max_byte_idx` | take a block, change buffers | `DlisParse` |
| framing | `parse_sul`, `parse_vr_header`, `parse_lrs_header`, `parse_lrs_encryption_packet`, `parse_lrs_trailing`, `trailing_len`, `padding_len` | `nType`, `vr_len`, `vr_byte_cnt`, `lrs_len`, `lrs_byte_cnt`, `lrs_attr`, `lrs_trail_len` | label, record and segment headers, skipping, trailing bytes | `DlisParse` |
| items across segments | `lrs_skip_unparsed_buff`, splice in `parse_lrs_header` | `unparsed_buff` | put aside, paste back | `DlisParse` |
| EFLR machine | `parse_eflr_component*`, `eflr_set_template_object_*`, `next_state` | template queue, `attrib_value_cnt`, `attrib_label` | SET, ATTRIB, OBJECT, value | `DlisParse` |
| IFLR machine | `parse_iflr_header`, `parse_iflr_data`, end of `parse` | channel cursor, `parsing_*` | row header, samples, surplus | `DlisParse` |
| catalog and curve files | `on_eflr_component_object`, `on_eflr_component_attrib_value`, `on_iflr_header`, `on_iflr_data`, end of `do_parse` | lists of frames and channels, `current_frame`, `current_channel`, one `FILE*` per channel | define, look up, write a row, close and report | `Catalog` |
| object messages | `on_eflr_component_*`, `jscall`, end of `do_parse` | `parsing_obj_binn`, `parsing_obj_values`, template indexes | collect, send | `EflrObjects` |
| add-on and threads | `src/main.cc`, `do_parse`, `index.js:9-22`, `349-364` | `_args`, `instance`, one thread per call | `parseFile`, copy the arguments, create a thread, reply, handle | `Addon` |
| sockets | `jscall`, `initSocket`; vendored `req.cpp`, `rep.cpp`, `router.cpp`, `fq.cpp` | the state of REQ and REP, the pipes | send, receive, attach, take the next request | `ReqRep`, `Clients`, `Calls` |
| wells in JavaScript | `index.js:23-56`, `97-346` | `setType`, `channels`, `seq_num`, `instance.wells` | one handler per set type, the end | `Wells` |
| representation codes | `common.cc`, vendored `binn.c`, `write_to_curve_file` | none | parse, put into a list, decode, print | `RepCode`, `Binn`, `Codec` |
| rest of binn and libzmq, tests | `node-addon/third-parties`, `test*.cc` | - | - | third-party code, scratch programs |

How they interact.  `do_parse` is a plain loop: `fread` 4000 bytes, `dlis_read`, again
until the end of the file.  `dlis_read` copies the block into the ring and calls
`parse`, which runs the state machine (`parse_state.code`, `next_state`) over the bytes
of the current buffer and returns when a handler lacks bytes.  Handlers call the
`on_*` callbacks, which keep the catalog, write curve files, and send binn messages
with `jscall` (send, then wait for the reply).  `index.js` replies first and handles
the message after.

What is hard.  A parse may stop at any byte and must go on at the next block;
an item may be cut by the end of a buffer, of a segment, of a visible record, or of
several of them at once; the bounds that tell these apart (bytes in the buffer, bytes
left of the segment, trailing bytes still unknown because the padding count is the
last byte) are computed anew in each handler; counters are advanced in a dozen
places.  Pointers into the ring outlive buffers.  Outside the parser: threads share a
global, messages of several parses share one socket, and JavaScript keeps module
variables from one file to the next.

What makes the parser correct: every item of the file reaches its callback once,
whole and in order, whatever the block size and wherever segments and buffers end;
no copy leaves its array; the counters agree with the headers; rows stay aligned
over the channels; parsing always comes to an end.  All of it holds of well-formed files.
On damaged ones the parser goes on over whatever it finds and less holds: see `Damaged.cfg`.  The list of hazards, each with its
line and the properties that would catch it, is `hazards` of `PROJECT.json`.

What makes the rest correct: JavaScript is given each object once and in order, under
the type of its set; a call is answered, with the catalogue of its own file; the threads
that share a socket are each answered; a value is parsed only when it is whole, and
means in JavaScript and in a curve file what its bytes mean.

## 2. Plan

1. `DlisFile`, `DlisStream`, `DlisParse` and their runs.  Proved: types and the life of labels
   for every file; that copies stay in bounds, for every file and as long as no anomaly was met
   but wrong samples; the refinement of `DlisStream`, and the properties of
   bytes, counters and rows, for every well-formed file (`WellFormed`).  Done.
2. `Layout` and `Catalog`: the frame and channel lists as linked nodes, implementing an
   abstract layout (which frame has which channels in which order).  Modelled and
   checked; proved, the refinement too, for any names and number of logical files.  Done.
3. `EflrObjects` and `Wells`, with the message names they share (`Messages`) and the
   catalogue a file describes as their reference (`Contents`).  Modelled and checked.
4. `ReqRep`, the sockets; `Clients`, the sockets under any use the program makes of them,
   implementing `Calls`.  Checked; proved for any number of threads, but for liveness.  Done.
5. `Addon`, which composes 3 with `ReqRep` and `parseFile`.  Modelled and checked.  Proved:
   types, that a parser thread has its own arguments, the order of objects, the exchanges,
   that an object is handled under its own set's type.  Done.
6. `RepCode`, `Binn` and `Codec`: a value on its way from the bytes of the file to
   JavaScript or to a curve file.  Modelled and checked.  Left: that what `parse_value`
   returns is bounded by the bytes given.
7. Files with end-of-data records are not among those of `WellFormed`.  They can be once
   `eod_copy` (section 7) is mended in the program; until then the promise would be false.

## 3. Modules

- `DlisFile` - what a file is: a sequence of cells, one per byte.  Headers are runs of
  cells whose first one carries the fields read from the header; body cells name the
  item they belong to and their place in it.
- `DlisStream` - the abstract specification: items 1, 2, ... are delivered in order, and
  the stream ends only when all were.
- `DlisParse` - the parser.  One action per handler of `parse`, each with the part of
  `next_state` that follows it and the callbacks that change parser state; `dlis_read`
  and the end of `do_parse`'s loop.
- `DlisParse_proofs` - types, copies and the life of labels, for all files.
- `WellFormed` - the files the parser is made for, and how the parser's state stands to what
  they mean.  `Body_proofs`, `Stream_proofs` - the theorems about these files: the bytes in
  the ring and the handlers of items, and the rest with the theorems themselves.
- `MCWellFormed` - a reading for each file of the run `Ring`, worked out from the file's cells.
- `Layout` - the abstract specification of the catalog: frames gain channels and never
  lose them; a row writes one line, with its index, to each channel of its frame.
- `Catalog` - the callbacks that keep the lists of frames and channels, look a frame up for a
  row, write the row and close the files.  One action per callback.
- `MCCatalog` - names for its runs, and the kinds of files.  `Catalog_proofs` - the theorems about
  `Catalog`, for any kinds, names and numbers of rows.
- `Messages` - names and messages that `EflrObjects` and `Wells` share.
- `Contents` - what files hold, as sets of objects with attributes; the items a parser
  thread reads (`ItemsOf`); and, written from the file alone, the catalogue it describes
  (`WellsOf`) with the conditions a file must meet for that (`Sound`).
- `ReqRep` - the REQ socket of each thread and the REP socket of JavaScript, from the vendored
  sources of libzmq: the two state machines, the pipes and the fair queue.
- `Calls` - the abstract specification of `jscall`: ask, be answered, take the answer.
- `Clients` - threads that connect, ask and disconnect in any order; the refinement of `Calls`.
  `ReqRep_proofs` - what each step of the sockets keeps, under any use.  `Clients_proofs` - the
  theorems about `Clients`, for any number of threads.
- `Induction` - induction over the numbers, stated for a set, and that a step can be
  repeated: used where the fair queue is searched and where a list of nodes is walked.
- `EflrObjects` - the callbacks that collect objects and send them, one action each, and the
  parser thread's `jscall` and end.
- `Wells` - `eflr_data` and the message "ended": an operator per case, and the condition
  under which each case throws.
- `Addon` - `parseFile`, `dlis_parse` and the event loop, composed with `EflrObjects`,
  `Wells` and `ReqRep`.  `MCAddon` - the files and the users of its run.  `Addon_proofs` - the
  theorems about it, for any files and any number of calls.
- `RepCode` - `parse_value` and what it calls.  `Binn` - how binn stores a number or a text.
  `Codec` - a value given byte by byte, put into a list, sent or written.
  `MCCodec` - the values of its run.
- `MCDlisFiles` - builders of small files.  `MCDlisParse` - the file sets of the runs.

How state corresponds.  A buffer cell holds the offset in the file of the byte
that is there (0 for a byte that is not from the file), so that losing, repeating or overwriting a byte is
visible; `CellAt` gives the byte's meaning.  `pc` is where the thread is, or how it
stopped: `exit` for `exit(-1)`, `overrun` for a copy outside its array, `nullptr` for a null
frame or channel; the last two are undefined in the code, and nothing is modelled after them.
The handlers of `dlis.cc` do not look whether the bytes they take are what they take them for, and
neither do these actions: on a damaged file they go on with what the cell at `byte_idx` says, as
the code does.  That they were wrong is noted in the history `anomalies`: `short` for a segment
with fewer bytes left than its trailing bytes, `header`, `item` and `sample` for bytes that
are not those, `ahead` for `byte_idx` past `max_byte_idx`, `marker` and `trailing` for the messages
of `dlis.cc:394` and `479`.  An item read from wrong bytes reaches its callback and is 0 in `out`; a
byte that is no component may have any role, a row header that is none may name any frame.
`lrs_skip_unparsed_buff` copies whatever count it computes: a negative one, or one too large, is an
`overrun`.  In the segment of an end of data reached in the middle of a row, `parse_iflr_data`
may leave everything as it is: `while(1)` goes round for ever (`dlis.cc:1653`), which the
property `Terminates` names (`Spinning`).  `lrs_trail_len` is -1 when the padding
count is not in the buffer yet, as in the code; each pass of `parse`'s loop first asks
for `trailing_len` (`await_padding`).  `cursor` stands for `current_frame` and
`current_frame->current_channel`; `parsing` for `parsing_repcode` and
`parsing_dimension`, by the channel they were taken from.  `templt_write_idx` is
`Len(templt)`.  `out`, `lines`, `anomalies` and `switches` are history variables.

In `Catalog` an address is a position in the sequence `frames` or `channels`, 0 is NULL, and
`HEAD` is the `frame_t` inside `dlis_t`; `next` and `f_next` are the links of `dlis.h`.  `disk` is what
the curve files hold: the index of each line.  `fp` is the path of the file, `NoFile` when
`channel_init` left it unset.  `pc` says whether a row is being read, or how the program
ended; `wild` is the use of a null or unset pointer.  The grammar of the file is
under the heading "The file": which callback may come next.  `declared`, `described` and
`rows` record what the file said, and the properties compare the lists with them.
A kind of file (`Kinds`) says which numbers its logical files have, how many names it may use,
and whether it relaxes the grammar: `late` admits FRAME sets after frame data, `early` rows
before the CHANNEL objects.  A depth stands for all samples of an index
channel's line.  Two names whose numbers run together when printed without
separators (`dlis.cc:1126`) would share a file: `PathAssumption` excludes them.

In `EflrObjects`, `dlis` is the `dlis_t` of each thread with the fields these callbacks use, and
`at` the next item of its file.  `parsing_obj_values` is empty for NULL.  `templt_write_idx` is
`Len(templt)`; `templt_read_idx` is -1 before the first object, as in the code.  `frames` is the
list of frames and `current_frame` the place of the current one in it, 0 for NULL: a new frame is
linked behind it, whatever the list has there, and a row looks for its frame in the list.  Of
rows only that is kept, and whether the channels have codes that some type has; `Catalog` has the
rest.  Each `exit(-1)` that a file can bring about has an action: a set without a
type, an object without a name, a template with more attributes than `MAX_TEMPLT_OBJS`, an object
with more than its template, an unknown representation code, a row whose frame is missing; the
one for a missing file is in `Addon`.  `pc` is where the
thread is: `created` before it has read the directory from `_args`, `opening` before it has
read the name, `reply` and `ending` inside `zmq_recv`.  In `Wells` the variables are those of
`index.js` (`file_number` is its `seq_num`); a dataset is called by `file_id` and its own name, kept
as a pair; `Texts` are the values that are texts, which a WELL-NAME must be or `trim()`
throws (`index.js:181`).  `numberOfWell` counts from 1, so the code's
`wells[numberOfWell - 1]` is `wells[numberOfWell]`.  In `Addon`, `args` holds for each string of
`_args` the set of values a reader may find: while `strcpy` runs, and after it until
the next thread is created, the string before, the one after, or a mixture (`Torn`).  That
race is undefined in the code; the outcomes are those a byte-wise copy can give.  In `ReqRep`
positions in `pipes` count from 1; `on_the_way`, `arrived` and `replies` are the two directions of
each peer's connection.  `passed`, `answers`, `handled`, `overlapped` and `raced` are history.

In `Codec` a 32-bit number is a word, the sequence of its bytes, highest first, so that
shifts, flags and sign extension are those of the code and nothing overflows.  A decoded number is
the pair of its halves.

What is abstracted.  The fields of a component (label, count, code and unit of an
attribute; type and name of a set; object name) are one field that starts with its
length: they are read together or not at all, as the code does.  A number or
name is what the file's cell says it is.  `ABSATR` and `INVATR` go through the handler of
`ATTRIB` in the code and so they do here, as attributes without a value.  One frame is
modelled in `DlisParse`, with its channels; how frames and channels are found by name
is the subject of `Catalog`.  `RSET` and `RDSET` are `SET`.  Messages and file
output are the history `out` and `lines`.  A fresh thread stack is taken as zero
where `dlis_init` leaves fields unset (`unparsed_buff_len`, `lrs_trail_len`,
`attrib_value_cnt`, `parsing_*`, `frames`, `channels`): the parser threads are created
joinable and never joined or detached, so no stack is used a second time.  Representation
codes are not in `DlisParse`: the exit for an unknown one is in `EflrObjects`.

Outside the parser: an attribute is the sequence of its values, and a value a number, a text or a
name; units, descriptions, steps, curve types and the lines of EQUIPMENT and TOOL files are
left out.  A name stands for origin, copy number and ident, with a flag for blanks that
`trim` removes.  Labels do not have the names of keys that the parser sets itself
(`seq_num`, `name`, ...), which binn compares without case.  All calls have the same
`userInfo`.  The REP side is the npm package `zeromq`, another build of libzmq: it is modelled from the
version vendored here.  Routing ids and delimiters, and how bytes travel, are left
out; high water marks are never met, since a peer has one message in its pipe.  Samples
of rows that are texts, the text of a DTIME, and NaN are not modelled.

## 4. Runs

The runs of `DlisParse` use headers of 4 bytes, tape marks of 3 and items of at most 6 bytes.  Two
buffers are the smallest ring; `UNPARSED_SIZE` is the longest item, its least value.
Row items include a sample longer than a segment header (6 bytes), so that what is
put aside may be shorter, as long as, or longer than the header it is pasted over.

- `Splice.cfg` (pass).  A FRAME record cut into two or three segments at every byte after
  its set, or rows cut inside a sample, between samples and inside the header of a
  row that has a row before it, with four kinds of trailing bytes, in one visible record or one per segment; blocks of
  1 byte (every state of the machine meets the end of the bytes) and of 7.  The
  buffer is never changed.  It shows that the parser implements `DlisStream`, that what
  is put aside is always a proper beginning of an item, and that it finishes.
- `Ring.cfg` (pass).  Files several times as long as a buffer of 46 bytes, blocks of 2, 3 and
  10, with cuts that are not inside a component's fields, encrypted segments, tape
  marks.  It shows the same refinement when buffers change, that no byte is lost or
  repeated, that `vr_byte_cnt` meets `vr_len`, that rows stay aligned, that labels stay
  readable until the ring has come round.  The `ASSUME` of `MCWellFormed` shows that each file has a
  reading and so meets the hypothesis of the theorems of `Stream_proofs`, and `ReadAsMeant`
  checks their inductive invariant with that reading (on tape images with blocks of 10,
  which reach the first record).
- `Damaged.cfg` (pass).  35 files: segment lengths, padding counts and attributes that are
  wrong, a segment shorter than its header, a SET without type and an OBJECT without name,
  templates and counts that do not fit the objects, a first row whose header is cut, a row cut short,
  too long or of a frame that is not there, a frame without channels, ends of data that carry data
  or go on.  The parser goes on over all of it, until it exits, follows a null pointer or
  copies outside an array.  That copy comes only after an anomaly other than a row's wrong samples:
  a padding count larger than the body, for one, makes the count of `dlis.cc:799` negative.
  What is delivered may be garbled (after a row cut short, the first channel of the next row gets
  the samples of the channel left unfinished, `dlis.cc:730`), but items that are whole come
  once and in order.  Parsing terminates, except that after a row cut short an end of data in
  a segment that goes on makes `parse` loop for ever.
- `CutComponent.cfg`, `CutTrailing.cfg`, `EodCopy.cfg` (violation).  Three places where the
  code does not do what its comments or messages say; see section 7.

- `Frames.cfg` (pass).  One logical file, two frames and two channels, their sets in any
  order, interleaved, with and without INDEX-TYPE; two rows of each frame, an end of data,
  and the end of the file anywhere.  It shows that the lists implement `Layout`, that no
  file is used before it is opened, that rows are in the curves of their own frame,
  and that the range reported for a frame is that of its rows.
- `LogicalFiles.cfg` (pass).  Three kinds of files: two logical files with the same names in
  both; one that starts with number 2 (the first node of the list is then never
  filled); and one with FRAME sets after frame data and rows before CHANNEL sets.  It
  shows that the lists hold what the files declared, with dimensions, that every
  file opened is closed, and that in the last kind, where frames may be lost and the
  program may stop, it stops for the causes named only and what was written is right.
- `LateFrame.cfg` (violation).  A FRAME set after frame data loses a frame; see section 7.

- `Addon.cfg` (pass).  27 files and one that is missing: sound ones, with channels before frames or
  after, several logical files, with and without IDs, EQUIPMENT and TOOL, rows and ends of data;
  files that lack a header, an ORIGIN or the
  last attributes of an object, have one attribute too many, blanks in names, a FRAME
  between two CHANNEL sets or after rows, or a WELL-NAME that is a number; and one for each other
  way to `exit(-1)`.  Each alone; pairs one after the other in one process; and two
  calls that may overlap at any step, in the same millisecond too.  It shows that objects are handled
  once, in order and under their set's type; that the answer is the file's own
  catalogue whatever was parsed before, under the ID of its own header; that each call ends; and
  the only ways in which the process can.  Templates have room for two attributes.
- `Clients.cfg` (pass).  Three threads over one reply socket, connecting, asking and closing at any
  time.  Each exchange is a call and each call returns.  A request that waits is
  overtaken by at most (N-1)^2 others, four here: not by N - 1, since a pipe found empty, or one
  that is closed, changes places with the last active one, which may then be a whole
  round behind.
- `Codec.cfg` (pass).  Values of all representation codes, given byte by byte.  Numbers at
  the bytes 0, 127, 128 and 255 in each place, UVARI at each of its three sizes, texts of 0 to
  128 bytes, one with a 0 in it, and one that exceeds `MAX_LSTR` (130 here for the
  program's `MAX_VALUE_SIZE` less the head of a text).

Frames differ in one letter of their names, as do channels, and letters are exchanged
by the symmetry set: no definition looks into a name.  Two nodes per list, two rows and
two logical files are enough for each pointer to be set from an empty list, from a list
that has an end, and after a reset of `current_frame` by an end of data or a new file.
At most one channel of a file has a dimension above 1 (a bound in the guard of
`on_dimension`): enough for a dimension given to the wrong node to show in
`CatalogIsTheFile`, where two such channels only multiply the files.

`CHECK_DEADLOCK FALSE`: the parser stops when the file is parsed, or in one of the other
final places.

Fairness.  In `DlisParse`, `FairSpec` asks weak fairness of `Next` alone: `do_parse` is one
thread in a loop over a local file, which the operating system runs.  Nothing is assumed of
any single handler.  `Addon` asks it of the JavaScript thread as a whole, of each parser
thread, and of libzmq's I/O thread for each connection: each is a thread of its own,
and none is asked to call `parseFile`.  `Clients` asks the same, but that threads need not
send: only one whose reply has come takes it.

Why the bounds are enough.  The behaviour depends on where the four ends (block,
buffer, segment, record) fall among the bytes of an item and of a header; the sets
of cuts, block sizes and buffer length make each pair of ends meet at each offset.
What depends on sizes being larger (the room in the ring, the copies) is proved.
In `Addon` two threads are enough for each race on `_args` and `instance`, which are
written by one call and read by one thread; what more peers change, the order of
the fair queue, is in `Clients` with three.  Files of `Addon` have at most seven sets and two
objects in a set: state that outlives an object, a set, a logical file or a call is met by
the next one.

## 5. Proofs

### Every file (`DlisParse_proofs`)

For every set of files, sound or damaged, every block size and buffer geometry (the two in the
middle up to the first anomaly other than `sample`, so that they promise nothing of what a damaged file
leads to after that):

- `TypeCorrect == Spec => []TypeOK`.
- `WindowCorrect == Spec => []WindowFits`.  As long as no such anomaly was met, `byte_idx`
  stays inside what was read, a segment with what was pasted in front of it is at most
  `MAX_LRS + MAX_ITEM` long, what is put aside is shorter than an item and fits in front
  of the body it is pasted to, and a block fits whenever one is asked for.
- `CopiesCorrect == Spec => []CopiesInBounds`.  No copy leaves its array, unless such an
  anomaly came first.
- `LabelsStay == Spec => []LabelsLive`.  A label of the template, a pointer into the ring,
  finds its bytes until `DLIS_BUFF_NUM` changes of buffer have gone by.

Assumptions.  `GeometryAssumption` (positive sizes, two buffers at least, an item fits
`unparsed_buff`), `FileAssumption` (a segment header announces at least its own length)
and `RoomAssumption`: label, marks, two items and the longest segment fit a buffer
together with a block.  For the program's 64K buffers and 4000-byte blocks the
last one admits segments up to about 61000 bytes; visible records of DLIS are at most
16384.

Argument.  `CopiesInBounds` is not inductive: the places that could leave an array
depend on `byte_idx`, on what is put aside and on the room left.  `WindowFits /\
CopiesInBounds`, with `TypeOK`, is.  There is one lemma per action for types and one for the
window (`<action>_type`, `<action>_fits`); a handler that gives up for lack of bytes does so
only when it holds less than a segment and an item (`StepFits`, `HandlerFits`), which
`RoomAssumption` turns into room for the next block.

`LabelsLive` is not inductive either: a later block, or the bytes pasted over a header, might
overwrite a label that is where it should be.  `LabelInv` adds that a label in the
current buffer lies before the byte read next, before the component it belongs to and before
as many bytes as are put aside, so that neither reaches it; and that its buffer is as many
buffers back as were changed since.  No hypothesis on the anomalies is needed.

### Well-formed files (`WellFormed`, `Body_proofs`, `Stream_proofs`)

Under `FilesWellFormed`, for files of any length, items, segments, records and channels,
and blocks of any sizes:

- `StreamImplemented`: `Spec` implements `DlisStream`.  Every item reaches its callback once,
  whole and in order, and the parser ends only after the last.
- `NothingAmiss`: no anomaly, no `exit`, no null cursor, no copy out of bounds.
- `NoMisreadCorrect`, `TrailingCorrect`, `UnparsedCorrect`, `AsideCorrect`, `RecordCorrect`,
  `RowsCorrect`, `OrderCorrect`: the safety properties that the runs check, without the
  provisos about anomalies mattering, since there are none.

The hypothesis.  A file is well-formed when it has a reading: its items, where each starts in
the stream of body bytes, how many body bytes there are before each offset of the file,
and what is due at each item (values of an attribute, attributes of an object, the channel
and the sample of a row).  `WellFormed` asks that the file agrees with its reading:
records and segments end to end, the bytes of each body the next ones of the stream,
counts as announced.  It leaves items, dimensions, the order of sets, padding, checksums,
encrypted segments, the cuts between segments and the division into visible records free.
It excludes what the code does not handle: components cut by the end of a segment and
ends of data, which are the disagreements of section 7; the header of the first row
cut (section 6); and the damage of `Damaged.cfg`.  `BlocksReach` asks of tape images only that the
first block holds the label and the mark behind it, since `parse_sul` does not
look whether it does; blocks are 4000 bytes and the two marks and the label 104.  The small
blocks of `Ring.cfg` do not meet it on tape images, and these work nevertheless: there the
refinement is checked only.

Argument.  The inductive invariant is `Explained`: for some reading r, record v and segment s
the state is `Parsed(r, v, s)`.  It says for each state of the machine where in the file
the parser is (`Reached`), that the bytes in the ring from `byte_idx` on are those of the
stream from the item due on (`Inside`, `Outside`), that what is put aside is the
beginning of that item (`PutAside`), that the counters are what the place in the reading
says (`UpToDue`), how many lines each curve has (`InRow`), and that a handler lacks bytes
only when there are more to come (`Starved`).  It rests on the invariants
proved for every file: `TypeOK`, `WindowFits` and `CopiesInBounds` give the arithmetic of the
ring.  There is one lemma per action, `<action>_parsed`; those of handlers of items share
lemmas for the five ways in which they end: not enough bytes, the rest put aside, the next item, the end
of the body, the end of a row.  A paste over a segment header is `Splices`, a change of
buffer part of `dlis_read_parsed`.  For the refinement, `out` is 1, 2, ..., `Len(out)`
before and after each step, so that what a step appends is the items next in the stream,
one or, for the samples of a channel, several, and only `Finish`, which needs the last, ends it.

### Sockets (`ReqRep_proofs`, `Clients_proofs`)

For any finite set of threads that connect, ask and close in any order:

- `SocketsTypeOK`, `SocketsOneExchange`, `SocketsBoundedBypass`.
- `SocketsAreCalls == Spec => AbstractCalls!SafeSpec`: each step asks, answers or takes
  the answer of one call, or none.

The inductive invariant is `SocketInv` of `ReqRep_proofs`, which `Addon_proofs` uses too (types,
`OneExchange`, `Waiting`, `Connected`), and `Answerable`: only an open socket waits for a
reply, which is what a socket that is closed must not do.  `OneExchange` alone does not say that a request in a pipe can be found: `Waiting` says
that its pipe is an active one.  It also carries the bound.  A request in pipe j, with
pipe c next to be read, is passed by at most `Ahead(j, c)` more: the pipes
before it once per round, for as many rounds as it can be moved back a place.  `passed +
Ahead` never grows beyond (N-1)^2: to be passed lowers `Ahead`, and so does each swap that could
cost a round, since it moves the pipe forward in the list.  The search of the fair queue for a pipe with a
request recurses over the pipes; its lemma `SearchedFits` is by `Induction!SetInduction`,
for the set of lengths at which the claim holds.

### The add-on (`Addon_proofs`)

For any files, any number of calls, in one millisecond or apart, waiting for each other or not,
and any order in which parser threads, the I/O thread and the event loop move:

- `AddonTypeOK`.  The cursor over a template stays inside it and `numberOfWell` is a number.
- `ThreadsOwnArgs == Spec => []OwnArgs`.  A thread has the file and the directory of its own
  call, unless a later call came before it had read `_args`.
- `HandledOnce == Spec => []ObjectsInOrder`.  Every object of a file is given to `eflr_data` once,
  in its order, but perhaps the last.
- `HandledUnderTheirSet == Spec => []ObjectsUnderTheirSet`.  Where calls do not overlap, an object
  sent with its last attribute is handled while `setType` is the type of its own set.
- `AddonOneExchange`, `AddonBoundedBypass`: what `Clients` promises, for the use that the program
  makes of the sockets.
- `ExitsOnlyForThose == Spec => []ExitsOnlyFor`: the second part of `EndsOnlyFor`.  Whatever
  the files hold, `exit(-1)` is called only for a name read from `_args` while it was written, a
  file that is missing or no DLIS file, what `Fatal` lists, or a row whose frame is not in the list.

Assumptions.  `ContentsAssumption` (sets, labels, objects, attributes and values come in
sequences), `NamesAssumption` (no file has the name that stands for none, or for one half
written), `ScriptsAssumption` (a user's files come in a sequence and have a thread each; they
need not exist), `RoomForTemplate` (`MAX_TEMPLT_OBJS` is a number) and `PeersAssumption` (finitely many threads).  A file need not be `Sound`.

Argument.  `ObjectsInOrder` speaks of what was handled; what makes it so is where the rest is.
`Order` says that what the listener has handled, what it holds, what is in the thread's
pipe, what the I/O thread carries and what the thread keeps in `parsing_obj_binn` are,
one after the other, the objects read so far; a step moves a piece to the next place or none.
How many were read is a matter of the file alone: `Leads` says that an item is due at a place
(sets, labels, attributes and values so far) and leads to the next, and `FileLeads` that the
items of any file lead from its first place to its end, so that `reading(f)` is the place
before each item.  `Reader` ties the callbacks' counters (`templt_write_idx`, `templt_read_idx`,
`attrib_value_cnt`) to that place, which is what tells when an object is sent.  `SocketInv` says
that a thread which is not waiting has nothing on its way, so that order is never
lost between its requests.  `Arguments` says what is in `_args` while `parseFile` writes it and
until the thread has read it; who had not is in `raced`, and nothing is said of them.

`ObjectsUnderTheirSet` relates a message to a variable that an earlier message sets, so it is
not inductive: `TypesInv` says in addition what is under way.  `HeardType` is `setType` as it
will be when the listener's message is handled.  `TypeKept` says that a thread's
`parsing_set_type` is `HeardType`, or else the type in the SET message that waits, and that the
object it holds within a template is of the set being read.  `OneCall` says that no other thread is
heard meanwhile: only the call made last is open, `onEnd` is its callback, "ended" is the
last message of its thread, and a thread whose call is over says nothing.  It needs that calls
do not overlap; when they do, two files share `setType`, a variable of the module `index.js`,
and the invariant promises nothing, like the property.

### The catalog (`Catalog_proofs`)

For any names of frames and channels, any number of logical files, frames, channels, values of
DIMENSION and rows, FRAME and CHANNEL sets in any order, and a file that stops anywhere:

- `CatalogTypes`, `CatalogOfTheFile == Spec => []CatalogIsTheFile`, `RowsReachCurves == Spec =>
  []RowsInCurves`, `AllFilesClosed == Spec => []FilesClosed`, `WildOnlyForEarlyRows == Spec =>
  []WildOnlyIfEarly`.  These hold of every kind of file, the loose ones too.
- `NoWildPointerInOrder == Spec => [](~kind.early => NoWildPointer)`.  `Frames.cfg` checks it on
  files that are not early; on early ones it is false, and `WildOnlyIfEarly` says when.
- `ReportedRange == Spec => [](~kind.late => TopAndBottom)`, `FrameOfRowFound == Spec =>
  [](~kind.late => FrameExists)`, `CatalogImplementsLayout == Spec /\ ~kind.late =>
  ImplementsLayout`.  Late FRAME sets lose frames, which is `late_frame` of section 7; so
  `FrameOfRowFound` also says that nothing else brings about the violation of `LateFrame.cfg`.

Assumptions.  `CatalogAssumption`: the numbers of logical files are in order, names have
numbers of digits, there is a row at least.  `PathAssumption`: two channels do not have one
path, and no path is that of a file never opened.

Argument.  `Chain` walks a list by a recursive function, so that each theorem needs to know
what it returns.  `IsList(list, head, link)` says it without recursion: no node twice, the first
is `head`, and each links to the next, the last to NULL.  `ChainIsList` proves, by `Induction`,
that a list for which this holds is what `Chain` returns.  Then each change of a link has a lemma
over `IsList`: a node put at the end (`ListAppended`), the rest cut off and a node put in its place
(`ListCutAndAppended`, what a late FRAME set does), a link elsewhere (`ListUndisturbed`).  The
inductive invariant `IInv` has these parts.  `Lists`: the list of frames, that of channels, and
that of each frame are without cycles.  `FramesDeclared`, `ChannelsNamed`: the frames in the list
are declared ones, each once, with the channels the file named.  `ChannelsDescribed`: the
channels in the list are those that had their object, with their own file; a node outside it has none, and
one that no frame named links to nothing by `f_next`, which is what makes it safe to append.
`Cursors`: `current_channel` is the last of its list, `current_frame->current_channel` the last of
its frame while the frame's object is read, and `current_frame` the last frame unless FRAME sets
are late.  `RowsWritten`: while a row is read (`Reading(i)`) the channels before i have its line
and those from i on have not; otherwise all curves are complete.  `UnnamedEmpty`: the curve of a
channel that no frame named is empty, so that a frame that names it later starts with no rows.
`IndexesNoted`, `Closed`: what the report takes.  There is one lemma per action, `On...`.

For the refinement, `LayoutBar` says that `layout_bar` is, read off the lists, the history of
what the file declared; a FRAME object adds a frame to it, a channel named adds to one
sequence, `WritesLine` finds in `Reading(i)` the precondition of `WriteLine`, and opening a file
leaves its curve as empty as it was (`OpensCurve`).

### Only model-checked

All of `Codec`.  Of `Addon`: `AnsweredWithItsWells` (what is answered is computed by
recursion over the file) and of `EndsOnlyFor` the first and the third part: when the
listener throws, which rests on the wells so computed, and `RowsFindTheirFrames`, that a row
loses its frame only in a file where frames come after rows (proved, in another form, of `Catalog`).  The properties of the parser on files that are
not well-formed, as far as the runs check them (`DeliveredInOrder`, `AsideStartsAnItem` and
others in `Damaged.cfg`, the refinement of tape images in blocks of 2 and 3).  Everything about
liveness and fairness, and with it `ImplementsCalls` beyond its safety part: out of the prover's reach.

## 6. Not modelled

Of the parser: the fields of the storage unit label, `on_sul`'s version check, `fread`
failures.  In `Catalog`: REPRESENTATION-CODE, names longer than their arrays, a channel named by two
frames (both lists would run through one `f_next`) or described twice.  The command
line program (`node-addon/src/main.cc`) runs the same parser with blocks of 4096 bytes.

Of the rest: the layout of printed text, units and descriptions, the lines of EQUIPMENT
and TOOL files, `get_scalar_value`, the test programs, the failures that are only logged
(`zmq_connect`, `pthread_create`).

Nearly all of the repository's lines are vendored: libzmq and binn under
`node-addon/third-parties`, with their tests and examples.  The program's own code is about
3,500 lines, and these modules cover what in it changes state.  Of libzmq and binn only
what the program's promises rest on is modelled: REQ, REP, the fair queue, the integers
and texts of a list.  The rest (transports, security, options, the other socket types,
allocation) is either not used or used without anything of this program depending
on its details, and is left to those projects.

A SET is never cut by a segment in the runs: the code waits for its bytes in the next
segment (`dlis.cc:1784-1785`) and would read the header between as part of it.  The header
of the first row of a frame is cut only in `Damaged.cfg`: the cursor still points at a
channel and `dlis.cc:1556` goes on with the frame's data.

## 7. Where code and comments disagree

- `cut_component`: `lrs_skip_unparsed_buff` puts aside "a byte for comp header" from
  `byte_idx - 1` (`dlis.cc:803`).  After a change of buffer between the component's first
  byte and its fields, `byte_idx` is 0 and that byte is not in the buffer.
- `cut_trailing`: attributes and objects are bounded by what is left of the segment with
  its trailing bytes (`dlis.cc:552`, `659`), so one cut by the end of a padded segment is
  completed from the padding, and `parse_lrs_trailing` gives its warning
  (`dlis.cc:479`) for a well-formed file.
- `late_frame`: a FRAME object is linked behind the frame whose row came last
  (`dlis.cc:1069`), not behind the last of the list.  A FRAME set that follows frame data cuts
  off the frames in between, and a row of one of them ends the process with "the frame ... does
  not exist!!!" (`dlis.cc:1325`).
- `eod_copy`: `parse_iflr_header` reads the type byte of an end of data without asking
  whether it has been read (`dlis.cc:686-690`).  `byte_idx` passes `max_byte_idx`, and if the
  next block changes buffers, the length of the copy that should "set byte_idx &
  max_byte_idx properly" (`dlis.cc:285`) is negative.
