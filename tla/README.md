# readers-speech in TLA+

`readers-speech` is the speech module of a family of Android apps (Reader's Audio Player,
Recorder, Podcasts, Notes, Phone).  It downloads language models and shares them between
the apps, decodes sound, transcribes it with whisper.cpp, marks where another person
starts speaking, cuts the text into paragraphs, and summarises or translates it with
llama.cpp.  Its own code is about 1,500 lines of Kotlin and 1,100 of C; whisper.cpp,
llama.cpp and ggml are vendored.

This directory holds TLA+ models of that code, checked with TLC on small instances and,
where it says so, proved with TLAPS for all instances.

## Inventory

| component | source | state it keeps | operations |
|---|---|---|---|
| Model store | `share/Download.kt`, `whisper/Models.kt`, `summary/SummaryModel.kt`, `translate/TranslateModel.kt`, `share/ModelFiles.kt` (open), `share/ModelProvider.kt` | `files/models/<name>` and `<name>.part`, open descriptors, one `downloading` figure per object | `download`, `fetch`, `open`, `openFile`, `remove`, `close`; cut, cancel and kill anywhere |
| Who holds a model | `share/ModelFiles.kt` (holder, available, refresh) | a map name -> (wall clock, package or null) | `holder`, `refresh` |
| Llama bridge | `cpp/llama_jni.c`, `summary/LlamaLib.kt` | `g_progress`, `g_abort`, `g_error`, the KV memory of the session; one poll thread per `run` | `initContext`, `generate`, `cancel`, `progress`, `run`, `close` |
| Translator | `translate/Translator.kt` | blocks done, the figure shown | `translate`, `once`, `group` |
| Summariser | `summary/Summariser.kt` | notes, points, calls done and to come | `summarise`, `pieces`, `keepPoints`, `unstuttered` |
| Whisper bridge | `cpp/jni.c`, `whisper/WhisperLib.kt` | `g_progress`, `g_abort`; one poll thread per `run` | `fullTranscribe`, `cancel`, `progress`, `run` |
| Voice detector asset | `whisper/Vad.kt` | `files/vad/<FILE>`, `<FILE>.part` | `modelPath` |
| Voices, segmentation network | `whisper/Voices.kt`, `cpp/pyannet.c` | none between calls | `mark`, `changeAt`; the network |
| Decoder | `audio/Pcm.kt` | `acc`, `startMs`, `rate`, `keepGoing` | `chunks`, `flush`, `Resample.to` |
| Paragraphs, prompts | `whisper/Prompts.kt` | none | `starts`, `build`, `forPiece` |
| CPU flavour | `share/Cpu.kt` | the library loaded | `load` |

How they interact: the apps call `download` on worker threads, and `open` gives whisper or
llama a path, either of this app's file or of a descriptor a sibling's `ModelProvider`
handed over.  A session runs one call at a time on the thread that asks; the calls `cancel`
and `progress` come from other threads and reach the native code through two atomics per
library.  `Translator` and `Summariser` each drive a `LlamaSession`, one call after another,
with a `cancelled` callback read between calls.  `Decoder` hands pieces of sound to a
callback that runs a `WhisperSession`, which marks voices while the sound is at hand.

What is hard in it: a download cut, killed, or doubled at any step and resumed from what it
left on disk; a path checked now and opened later; a cancel that arrives between calls, or
while a flag is being reset; progress read by a thread that does not know which call it is
reading about; answers that look like failures (an empty string) and failures that look
like answers.

What makes each component correct, in a sentence each:

- Model store: only whole models are visible under their names, they appear at once, an open
  one never changes; what was brought down is kept; the figure shows what runs.
- Who holds a model: an answer was true within the last few seconds.
- Llama bridge: an answer is never mixed with another prompt's, never longer than the
  context has room for, and a cancelled call gives nothing.
- Translator: one block out per block in, in order, with its times; null if it was cancelled;
  the figure never goes backwards.
- Summariser: theme and points have read every note in order; one failed call costs one note or
  one group of points; the count behind the figure comes out; the transcript is cut into pieces the
  context takes, at paragraphs.
- Whisper bridge: a detector that fails never costs the transcription, and a cancel is never
  answered by a second decoding.
- Voice detector asset: the path returned names a whole detector.
- Voices: a change of voice is heard where it is, to the edges of the sound, and nowhere else.
- Paragraphs: no line is lost or reordered, and a paragraph starts where the rule says.
- Decoder: every sample is handed over once, and each piece starts where it is said to.

## Modules

| module | what it is |
|---|---|
| `ModelFetch` | the folder of models, the fetches, the readers, the kill: `Download.kt` and what is around it |
| `ModelSlot` | what the folder promises: a model is absent or whole, and an open one stays as it was opened |
| `ModelFetch_proofs` | the theorems about `ModelFetch` |
| `LlamaCall` | one call of a llama session: `generate`, its poll thread, `cancel`; steps for a driver to compose |
| `Translation` | `Translator.translate` driving those calls (extends `LlamaCall`) |
| `Rendering` | what `translate` promises: each block in its place, all of them, or null when cancelled |
| `Translation_proofs` | the theorems about `Translation` and the calls it makes |
| `WhisperRun` | `WhisperSession.run` over `fullTranscribe`: pieces, detector, second attempt, poll threads, `cancel` |
| `WhisperRun_proofs` | the theorems about `WhisperRun` |
| `Summary` | `Summariser.summarise`: notes, folding, theme, points, one call after the other |
| `Summary_proofs` | the theorems about `Summary` |
| `Pieces` | `Summariser.unstuttered` and `pieces`: the transcript cut for the model |
| `ModelHolder` | `ModelFiles.holder` and `refresh`: the cache, the wall clock, the siblings |
| `VadAsset` | `Vad.modelPath` in several threads, down to names and inodes |
| `Storage_proofs` | the theorems about `ModelHolder` and `VadAsset` |
| `Chunks` | `Decoder.chunks`: samples gathered into pieces |
| `Recording_proofs` | the theorems about `Chunks`, `Pieces` and `Voices` |
| `Voices` | `Voices.changeAt` over windows of the network's frames, and how many frames there are |
| `Segments` | the lines whisper heard, as the two modules below are fed them, with the gate of `Voices.mark` |
| `Paragraphs` | `Paragraphs.build` and `starts` (extends `Segments`) |
| `Passages` | `Translator.group`, whose blocks `Translation` goes through (extends `Segments`) |
| `Lines` | both of them over the same lines |
| `Lines_proofs` | the theorems about `Lines` |
| `ListFacts` | lemmas the proofs share: an induction rule for sets of numbers, what `FlattenSeq` returns, the function `FoldLeft` computes, where the elements of a list of lists are, and how counts in two parts compare |
| `MCModelFetch`, `MCTranslation`, `MCWhisperRun`, `MCRecording` | the instances TLC checks; `MCRecording` puts `ModelHolder`, `VadAsset`, `Chunks`, `Voices`, `Lines` and `Pieces` beside one another |

In each module a definition with an underscore in its name (`Kept_Always`, `Stopped_First`)
is a variant: a plausible mistake in the definition that follows it.  No action uses one; with
the variant put in its place, TLC finds the property it is about violated.

### ModelFetch

A file is an inode with a sequence of bytes, and a byte is (file, version, position), so that
truncation, appending, holes, renames and descriptors that outlive names do what they do on
Android.  A fetcher is a thread in `download`; its `pc` follows `Download.fetch`:

| step | code |
|---|---|
| `Begin` | `download()`: not there yet, figure 0 |
| `Accepted`, `Refused` | `.part` measured, `Range` sent, 206 or 200 or an error (16–27) |
| `OpenPart` | `FileOutputStream(tmp, resuming)` (30) |
| `Copy` | one turn of the loop (34–37) |
| `Cancelled`, `Broken`, `StreamEnds` | the ways out of the loop (33, any exception, 41) |
| `Rename`, `DeleteTarget`, `RenameAgain` | line 42, a step per call; each may fail for want of a `.part`, or because the folder refuses (`MayRefuse`) |
| `Leave` | the `finally` of `download()` |

`OpenOwn` hands over a path and `Load` opens it later; `OpenShared` is a sibling with a
descriptor.  The answers of the deletion and of the second rename are not looked at, as in the code.  `Remove`, `Crash` (the process is killed, files and siblings stay) and `Republish`
(the server changes the file behind the URL) come at any moment.

### LlamaCall and Translation

`LlamaCall` counts tokens and keeps what decides: the two atomics, the tokens in the memory of
the session, where the calling thread is, and for each call a poll thread with the progress it
has read.  `Run` starts the poll thread and `Enter` is `generate` down to its first batch, with
the resets.  Between the two lies the moment in which a cancel is lost and a poll thread may read
the call before.  `Joined` is `poll.join(500)`: the poll thread sleeps 300 ms at most, so the wait
runs out only when it is inside `onProgress`, which `SlowCallback` allows or not.

`Translation` adds the loop over the blocks.  `Announce`, `Claim` and `Deliver` are the three
steps of `report` on the main thread, `PollCompares`, `PollClaims` and `PollDelivers` on a poll
thread; whether an answer is kept (`Accept`) or refused (`Reject`) is left open, since it depends
on text.  Accesses to `shown` from two threads are taken in some order; a stale read the Java
memory model would also allow is not added.  Calls of the caller's `cancelled()` and
`LlamaLib.cancel()` are independent (`Cancel`, `CancelCall`).

### WhisperRun

`Reset` is `fullTranscribe` before `whisper_full`.  `Detect`, `DecodeWindow`, `DecodeFails` and
`DecodeEnds` are `whisper_full` of the vendored `whisper.cpp`: it fails for any reason or none, looks
at the abort flag at each window and not in the detector, and keeps the detector's table of times in
its state, where only the detector drops it (`table` is the piece it is of).  `seek` moves on by 1 to `Chunk` frames,
since the timestamps read in a window decide, or the lack of them; windows are begun as long as more than `Margin`
frames are ahead (`More`), and what is shown (`Shown`) is reckoned before that is looked at, so that `seek` may be past
the end by then.  How much speech the detector finds in a piece is left open (`Lengths`).  `Again` and `Settle` are lines 122–130 of `jni.c`,
`Answer` the return and the reading of the segments, `Leave` the `finally`, which interrupts the
poll thread and waits for nobody.  `asked` and `heard` only record when `cancel` came.

### Summary and Pieces

A call of the session is three steps: `Check` asks `cancelled()`, `Call` begins, and `Noted`, `Folded`,
`Themed` or `Pointed` is its answer, or the lack of one, together with what is done with it and
`done++`.  `NextStage` is what lies between two loops.  A note is the number of its part and a folded
note the sequence of parts it speaks of, so that `asked` and `forTheme` tell what the model has read and
under which number.  Whether the notes are too many words is left open, at every turn of the loop; so
is what a failed fold keeps of its two notes, as long as it is a beginning.  The counters `done` and
`total` are kept as `left`, their difference: the figure is under 100 while it is positive.  What goes
on inside a call is `LlamaCall`; the races of its poll thread are those of `Translation`, and the
figure of `summarise` is not shown there to be steady: it goes back each time `total` grows.

`Pieces` is two algorithms on words, as folds: a text has words, ends of sentences and ends of
paragraphs, and nothing else of it is looked at by either.

### ModelHolder and VadAsset

`ReadClock`, `LookUp`, `Query`, `Store` and `Return` are the lines of `holder`, a sibling at a time, with
the lock held only in `LookUp` and `Store`.  That the model is here ends the call before anything else and
is not a state.  No time is absolute: `age` and `read` are differences to the wall clock, which `Tick`
moves on and `SetBack` sets back, while `had` and `lacked` measure real time.

`VadAsset` has the steps of `modelPath` in any number of threads: `Ask` (33), `Open`, `Copy`, `Close`
(35), `Rename` (36, its answer not looked at), `List`, `Sweep` (37).  `Fail` is any exception, `Kill` the
end of the process.  `shared` and `torn` only record that two were unpacking at once, and that one of
them was lost.  A rename that fails although there is a `.part` is not in the model.

### Chunks, Voices, Segments, Paragraphs, Passages

`Buffer` is a round of the loop with an output buffer, `Format` one with a new format, `Finish` what
comes after the loop; a round without output changes nothing.  `clock` and `lasting` are true times.

`Voices` has the numbers of the code, down to the kernel sizes of the network: `Frames` is `lengths` of
`pyannet.c`.  Who speaks in a frame is given (`Speaker`), and `ChangeAt` is what is made of it.

`Take` is one line going through the three loops of `build` (filter, `starts`, joining): each of them
looks back only, so a line at a time gives what a loop at a time does.  `filters` is false when `starts` is
asked on its own.  `Gather` is one turn of `group`.

## What is checked

Passing runs:

| run | instance | shows |
|---|---|---|
| `fetch_one` | 1 file of 4 units, 1 fetcher, 1 own reader, 1 sibling, `Range` ignored at will | only whole models under their names, `.part` a prefix, `FetchInv`, the implementation of `ModelSlot` |
| `fetch_two_files` | 2 files of 3, 2 fetchers, each its figure | the figure shows what runs and no more than is on disk; no byte brought down is lost |
| `fetch_same_file` | 1 file of 2, 2 fetchers | both end, and the figure goes back to -1, whatever they do to one another |
| `fetch_persistent` | 1 file of 3, 2 versions | a download asked for again after every cut gets all its bytes |
| `translate_blocks` | 3 blocks, 2 attempts at each, prompts of 0, 3 and 4 tokens in a context of 7 with answers of 4 | memory of the session, a figure that never goes back, a cancel heard within two calls, the implementation of `Rendering`; `translate` returns and its poll threads end |
| `whisper_pieces` | 2 pieces of up to 4 frames, in chunks of up to 3, with a detector or without | a heard cancel gives null, a detector never costs a piece nor leaves its times to the next, `run` returns, its poll threads end |
| `summary` | 1 to 5 parts, 2 notes to a points call | the count comes out, theme and points have read every note in order and under its number, null has a reason, a cancel is heard at the next call, the folding ends |
| `recording` | 2 threads asking for a model, 2 siblings, a cache of 2 ticks, a clock set back by 1; 2 threads unpacking an asset of 2 units; files of up to 20 samples at 2 rates, pieces of 2 seconds; 6 pieces of sound with gaps and turns all over them; 4 lines; 5 words | no answer is older than it may be; the path returned is that of a whole detector, but for two unpacking at once; every sample once and in time, a turn heard where it is, no line or word lost, paragraphs, blocks and pieces broken where their rules say |

Runs that disagree with what the code says of itself (each is a finding of `PROJECT.json`):

| run | statement refuted | how |
|---|---|---|
| `fetch_stuck` | "an interrupted download carries on where it stopped" | the whole `.part` is there and not renamed: every later `Range` is refused with 416 |
| `whisper_lost_cancel` | "null when cancelled" | cancel between entry and reset |
| `whisper_progress` | "`[onProgress]` gets 0–100 while it runs" | a window without a closing timestamp moves whisper on by 30 s, past the end of a shorter piece, and progress is told before that is seen: 300 for one of 10 s |
| `summary_paragraphs` | "Whole paragraphs, grouped into pieces" | `unstuttered`, which comes first, leaves no line break: there is one paragraph, cut wherever 900 words are full |

The models show more of the kind, without a run of its own:

- two threads that fetch the same file write one `.part`, and what is renamed need not be the model
  (two fetchers of one file: `TargetIsWhole` fails); the second to rename finds `.part` gone, deletes the
  good model of the first, and returns as if all were well;
- a rename that the folder refuses twice (`MayRefuse`) leaves the whole `.part` and no model, and `fetch` returns
  as if all were well; every later attempt is then refused as in `fetch_stuck`;
- a body cut short passes for whole when the answer has no `Content-Length` (`MayOmitLength`), and the
  rest of a new version is appended to the beginning of the old (two `Versions`, one fetcher);
- the first of two downloads to end hides the figure they share (`OneFlow`: `DownloadingShown` fails);
- an `onProgress` slower than the join of 500 ms delivers an older figure after a newer one
  (`SlowCallback`: `NeverBackwards` fails), and a poll thread, started ahead of the reset, may
  report the 100 of the call before, which `translate` turns into nearly the whole of a block;
- `translate` cancelled during its last block returns the list, since `Check` asks before a block and
  not after the last (`StopsAtBlock` says how late it is), and `summarise` its summary;
- the llama bridge loses a cancel as the whisper bridge does (`CancelCall` before `Enter`);
- the poll thread of `WhisperRun` may deliver after `Leave`, even the progress of the next piece;
- when the detector has found speech and the decoding fails, the plain second attempt is read
  through the table of times of the first (`OwnTable` promises no more than that it is of this piece);
- a part whose note failed moves the others up, so that note 3 is given to the model as "Part 2"
  (`EveryNoteAsked`: labels are part numbers when no part has failed), and so does folding, whose
  notes are numbered anew for the theme;
- `build` drops a line that repeats the one before together with its `newVoice`: "Yes." by one voice,
  "Yes." by another, and what the other says next runs on in the paragraph of the first;
- the clock set back makes an answer of a sibling last as much longer (`back` in `AnswersAge`), and
  `refresh` does not forget a question that is being asked;
- two threads that unpack the detector at once may return the path while the file is half written, and
  a kill just then leaves it so for good, since later calls only look whether it is there;
- a kill between rename and sweep leaves the older detector for good;
- when the codec changes its format with samples in hand, their piece is timed at the new rate, and
  every later one starts off by the difference (`mixed`).

### Bounds

- `Size`: a unit is one read of the connection.  Beginning, middle and end differ with 3 units;
  4 leave room for a file above and below `MinBytes` and for two resumptions.
- `Inodes`: a `.part` and a model for each file, one per open handle, and one that is free.  A
  fetcher writes to its `.part`; a second fetcher of the file, or one left with an orphan, needs
  another.  The instances have as many as can be in use at once.  Inodes are interchangeable, and
  symmetry on them is used in the runs without liveness.
- `MayRefuse`: on in every passing run; off in `fetch_stuck`, to show that it is not needed there.
- `Versions`: two in `fetch_persistent`, where the server changes; one elsewhere.
- `Blocks`: three are a first, a middle and a last; `MaxCalls` is twice as many and is never
  reached early.  With a batch of 2, a prompt of 3 tokens takes two batches, the last of them
  shorter; with 4 tokens to write it fills the context exactly, 4 do not fit, 0 stands for a
  prompt that cannot be tokenised.
- `SlowCallback`: off in `translate_blocks`, whose figures are promised for callbacks that return
  within the join.
- `Pieces`: two, for what one leaves to the next.  `Longest`, `Chunk`, `Margin`: 4, 3 and 1 stand for any length, 3000
  and 10 frames.  A piece is too short to be decoded, shorter than a chunk, or longer; it takes up to three windows,
  so that a cancel or a failure falls before, between and after them, and the last of them ends before, at or past
  the end.
- `MaxParts`, `NotesPerCall` (4 in the code, 2 here): five parts fold twice, once with an odd note left
  over each time, and make three points calls of which the last is shorter; one part has no note of its
  own; the parts that fail make every number in between.
- `CacheMs` is two ticks, so that an answer may have no age, be valid with one, and be too old;
  `MaxLag` one tick in each call of `holder`, enough for a store after a newer one and for a reading that
  is older than the cache.  Ages past `Old` are all alike, since none of them is valid again.
- `Units`: two, so that a copy is empty, begun or whole.  `Inodes`: the older detector and three files,
  as many as two threads make before one of them finds the detector there; a third would only do what
  the second does.
- `Rates` 3 and 4 with 5 "milliseconds" to the second round differently; pieces of 2 seconds with
  buffers of up to 3 samples end before, at and after a full piece, and 20 samples make three of them.
- `Sizes`, `Gaps`, `Turns`: too little sound, exactly a second, less and more than the window; gaps at
  both edges and past the end; turns every quarter of a second.  `HearsTurn` leaves out turns closer
  than the field of a frame (62 ms) to where the majority changes.
- Lines: `Pauses` on either side of each threshold (scaled to 1, 2 and 4), texts that are blank, a mark
  without words, the same words with and without a full stop, other words; four of them reach each
  length threshold and go past it.
- `WordsPerPiece` 2 and five words: a sentence and a paragraph shorter than a piece, as long, and
  longer than two.

`MCRecording` chooses at the beginning which of its parts a behaviour is of.  These share no state, so all their
interleavings would show nothing more.

Deadlock is not checked where the program really stops: `translate`, `run` and `summarise` return, a file
of sound ends.  `recording` has parts that end beside two that need not (`ModelHolder`, `VadAsset`) and does not look
for it either.

### Fairness

- `Scheduled` (`fetch_same_file`): every fetcher is scheduled, and connections have timeouts
  (`connectTimeout`, `readTimeout`), so a step of a fetch is taken in the end.  Nothing says it succeeds.
- `Persistent` (`fetch_persistent`, `fetch_stuck`): somebody asks again, and the steps of a fetch that become possible
  again and again are sometimes taken.  It is an assumption about the user and the network, which
  "one that always restarts from zero is one that never finishes" makes as well: cuts, cancels and
  kills may come between any two steps, without end.
- `FairSpec` of `Translation` (`translate_blocks`) and `WhisperRun` (`whisper_pieces`): the thread that runs the session and each poll
  thread are scheduled, and `onProgress` returns.  That a decoding ends follows from the bounds on
  tokens and on the length of a piece.  Nothing is assumed of `cancel`.
- `Spec` of `Summary`: its thread is scheduled and each call of the session is answered, which is
  `EndsQuietly` of `Translation`.  The folding has to end by itself.

## What is proved

All proofs are checked by TLAPS for every value of the constants.

`ModelFetch_proofs`, from `FetchAssumption` (the constants have their types):

| theorem | says | from |
|---|---|---|
| `TypeCorrect` | `TypeOK` | nothing more |
| `QuietCorrect` | no fetch on a figure runs: it is -1 | nothing more, however many fetches share file or figure |
| `InvCorrect` | `FetchInv` | `WellUsed` |
| `TargetCorrect` | only whole models under their names | `WellUsed` |
| `PartCorrect` | `.part` is a prefix of the model | `WellUsed` |
| `ImplementsSlot` | `ModelFetch` implements `ModelSlot` | `WellUsed` |
| `KeptCorrect` | no step loses a byte of `.part` | `WellUsed`, and a server that honours `Range` |
| `ShownCorrect` | `DownloadingShown`: a figure is shown while a fetch runs and not otherwise | `OneFigureEach` |
| `FigureCorrect` | `FigureOnDisk`: it is never ahead of what is on disk | `WellUsed`, `OneFigureEach` |
| `FetchRunsOut` | a fetch takes at most `Size + 6` steps | nothing more |

`WellUsed` is what the refutations above show to be needed: one fetch per file, one version behind the URL,
a length in the answer.  `TargetIsWhole` is not inductive: that a `.part` is whole when it is
renamed depends on the length check, which depends on `total` and `done` agreeing with what is on
disk, which depends on `.part` having been a prefix when the request was made, whoever left it
there.  `FetchInv` says this: `.part` is apart from every model and every reader (`PartApart`), it is
filled from the beginning (`PartFilled`), and each fetch knows how far (`FetchAgrees`), to the end: while it renames, or
deletes a target to rename again, all of the model is in `.part`.  The proof
has a lemma for each step, `NextInv` puts them together, and the theorems about `TargetIsWhole`,
`PartIsPrefix`, `ModelSlot` and `KeptBytes` follow from `FetchInv`, the last two step by step.
The figures have an invariant of their own, `FigureTold` (`FigureInvariant`): it is -1 for a fetch that does
not run, and else no more than what that fetch has counted; `FetchAgrees` turns what is counted into
what is on disk.

`WhisperRun_proofs`, from `RunAssumption` (at least one piece; a chunk, and the longest piece, longer than what is left undecoded at the end):

| theorem | says |
|---|---|
| `TypeCorrect` | `TypeOK`: `seek` is at most a chunk past where the last window may begin, and what is shown at most 100 times a chunk over the least that is decoded |
| `HeardCorrect` | a cancel that comes after the reset gives null |
| `DetectorCorrect` | `run` throws only after a plain decoding |
| `TableCorrect` | `OwnTable`: times are never read through the table of another piece |
| `RunsComeToEnd` | each step of the session leaves less ahead; a poll thread whose run is over winds down |

`HeardCorrect` and `DetectorCorrect` follow from `RunInv`: a heard cancel stays on the flag until it is looked at for
the last time (`CancelKept`), and a failure that was settled for is a plain one or cancelled
(`PlainFailure`); `TypeCorrect` from how far past the end a chunk can reach (`ShownBound`): with the numbers of
whisper.cpp, 27272 is the most that can be shown, for a piece of 110 ms; `TableCorrect` from what is known of the table in each place of `fullTranscribe`.

`Translation_proofs`, from `CallAssumption` and `TranslationAssumption`: any number of blocks, any context
and batch, prompts of any length.

| theorem | says | from |
|---|---|---|
| `TypeCorrect` | `TypeOK` | |
| `MemoryCorrect` | `OwnMemory`: the memory of the session is this call's own, and fits | |
| `StopsCorrect` | `StopsAtBlock`: how late a cancel is heard | |
| `HundredCorrect` | `HundredMeansDone` | |
| `ImplementsRendering` | `Translation` implements `Rendering`, step by step | |
| `ForwardCorrect` | `NeverBackwards` | `~SlowCallback` |
| `TranslationComesToEnd` | each step of `translate` or of its call leaves less ahead; a poll thread whose call is over winds down | |

The invariant is `TransInv` (`InvCorrect`).  `OwnMemory` needs what the check of room in `generate` has
left for the rest of the call (`MemoryKept`), `StopsAtBlock` how many calls each place of the loop may
still see begun (`CancelKept`).  `NeverBackwards` needs more, `PollsKept`: no poll thread outlives its call, so that
one thread at a time reports, and reports more than is shown.  It is there that a callback slower than the join
breaks the proof, as it breaks the run.

`Summary_proofs`, from `SummaryAssumption`: any number of parts, any number of notes to a call.

| theorem | says |
|---|---|
| `SummaryTyped` | `TypeOK` |
| `CallsCounted` | `CountsAllCalls` |
| `NotesAsked` | `EveryNoteAsked` |
| `NullReasoned` | `NullHasReason` |
| `CancelStops` | `StopsAtCall` |
| `ThemeWhole` | `ThemeReadsAll`, however many times the notes are folded |
| `StepsRunOut` | each step of `summarise` leaves less ahead, the foldings included |

The invariant `SummaryInv` (`SummaryInvariant`) gives `left` at every stage (`Counted`), bounds each note by the parts gone through and
those that failed (`InOrder`), and says what has been asked so far (`AskedInOrder`).  The theme has one more,
`ReadsWhole`: if folding stopped here and now, what is folded already and what is not, one after the other, would be a
reading of every note in order.

`Storage_proofs`, from `HolderAssumption` and `VadAssumption`: any number of threads and siblings, any times,
any size of the asset.

| theorem | says |
|---|---|
| `AnswersInTime` | `AnswersAge` |
| `PathWhole` | `PathIsWhole` |

`HolderInv` dates everything a thread knows by its reading of the clock, and bounds the difference between clock and real
time by what was set back (`ReadingsAge`, `KeptAge`, `FoundAge`).  `VadInv` says which names may be links to which inodes,
that only threads that copy have a descriptor, and that in a file several unpack, the last to truncate it has
everything it copied since (`SharedWhole`).

`Recording_proofs`, from `ChunksAssumption`, `PiecesAssumption` and `VoicesAssumption`: any rates, buffers and length of a
recording, any transcript, any number of words to a piece, any gap and any turn.

| theorem | says |
|---|---|
| `EverySampleOnce` | `SamplesOnce` |
| `PiecesInTime` | `StartsInTime` |
| `PiecesAreWhole` | `PiecesFit` |
| `SaidButOnce` | `StuttersOnce` |
| `TurnHeard` | `HearsTurn`, for the shape the network has (`NetworkShape`) |

`ChunksInv` adds that what is gathered lasts as long as its samples do at the rate there is, unless the rate
changed among them.

`PiecesFit` is about what four folds make of a text: `Split` into paragraphs and into sentences, `AddSentence`,
`AddParagraph` and the cleaning.  For each there is a recurrence (`SplitFolded`, `SentencesFolded`, `ParagraphsFolded`, and
`UnstutteredFolded`), and along it an invariant: the lists of `Split` end where a word closes and nowhere else
(`Closed`); the pieces done and the one in hand are the words so far, none too long (`Filled`); and what is
together stays together as pieces are added (`Extends`), so that each paragraph that fits, and each sentence that fits of
one that does not, is `Held`.  `UnitIs` brings the two ends together: what the property calls a unit of the text is a
list of `Split`.

`StuttersOnce` compares what a fold that carries the last key makes of a text with a definition that carries nothing:
a sentence is left out if the last one before it that says anything says the same (`Repeats`).  The invariant of the fold
(`SaidOnce`) is that what is kept of the first sentences says what they say with the repeats left out, and that the key
carried is that of the last of them that has one (`LastSaid`): without the second half a repeat across a sentence
without words could not be told.  `CleanOnce` keeps it over one sentence, `KeyConcat` says that texts one after the other
say what each says, and `UnbrokenSame` that joining the paragraphs changes nothing said.

`TurnHeard` is about one network: `NetworkShape` gives the constants of `Voices.kt` and of the header their values, which
`recording.cfg` gives them too; it need not hold for other shapes.  What the code does with a sample's place is to
multiply it by the number of frames and divide by that of samples (`FrameAt`); a frame's own place is 270 samples after the
one before it, so the two drift apart along the window.  `FrameReach` says by how much, `FramesMiddle` that over a
stretch of two seconds, or one that the window's edge cuts short, the drift at both ends comes to less than what
would let a tie decide, and `HalfBefore` and `HalfAfter` count.  The bound that the proof needs
is met in a window of ten seconds with some hundred samples to spare.

`Lines_proofs`: any lines, with any times, lengths and pauses, any limits.

| theorem | says |
|---|---|
| `BlocksHaveAll` | `BlocksCover` |
| `ParagraphsHaveAll` | `ParagraphsKeepAll` |
| `ParagraphsBreak` | `BreaksAsSaid` |

`BlockInv` and `ParInv` say of what is gathered what the properties say of what is done, and what the variables
that outlive a line (`start`, `length`, `lastEnd`, `ended`, `previous`) tell about the lines before.
The properties speak of the lines as a set in order (`InOrder`), and of the text before a line through
`FlattenSeq`, a recursive function.  An induction theorem over an operator cannot be instantiated, but
`ListFacts` proves the rule for a set of numbers instead (`SetInduction`, from `<` being well-founded), and from
that what `FlattenSeq` returns at every length.

**What of liveness is proved.**  Liveness under fairness is out of the prover's reach, but what it rests on is
not: that no loop goes on for ever.  Four action properties, one for each component with a loop that could, give a
number that every step of the thread makes smaller and that no step of another thread or of the caller makes
larger.  It is made of parts, the first worth more than all that the next can hold (`Lexicographic` of `ListFacts`):

| theorem | what is ahead |
|---|---|
| `FetchRunsOut` | the bytes of the model not yet counted, then the states after the copy; only a new call starts it again |
| `RunsComeToEnd` | the pieces; in a run the attempts, with the detector and without; in an attempt the frames still ahead |
| `TranslationComesToEnd` | the blocks; in a block the two attempts; in a call the tokens of the prompt, then those to write |
| `StepsRunOut` | the stages, a folding counted by the notes it reads; in a stage the calls and the steps of each |

The second and third also say when a poll thread stops: the flag `done` is set exactly when the call is over (`Told`,
`Called`, each an invariant), it is never cleared, and from then on the thread has at most three or four steps left.
In `StepsRunOut` a folding brings the end nearer only because it is not made for two notes or fewer: a
folding of at least three leaves fewer than it read.  The four say nothing about whether a step is taken.

Only model-checked: liveness itself (`FetchEnds`, `AllBytesArrive`, both `EndsQuietly`, `Terminates`), which needs
fairness and `ENABLED`.  Every safety invariant and every action property of the passing runs is a theorem.

## Plan

What is left: `Prompts.forPiece` and `stutters` with the pieces of `WhisperRun`: the prompt of a piece made of the
text of the one before.

## What is not modelled

The vendored whisper.cpp, llama.cpp and ggml, but for what the bridges use of them: the detector, the
loop over the windows, with where it stands and what it says of it, and the table of times of `whisper_full`.  They are by far the most lines of the
repository, and numeric code almost throughout: matrix products, quantised formats and backends for
other processors, with no protocol of their own that this program takes part in.  Nothing of them could be
modelled that would say anything about it.

The arithmetic of `pyannet.c` and of `Resample`: floating point without state, which `tools/pyannet-check`
compares with the original bit for bit.  Texts, prompts, templates and what a language model makes of
them: an answer is missing, blank, kept or refused, and `strip`, `keepPoints` and `unprefaced` are part of
that choice.  `Prompts.forPiece`, so far.  `Cpu.load`, three attempts at a library without state.
`Models.cleanup` and `ModelProvider.query`, which nothing else here reads.  The screens and services of the
apps that call this module, which are not in the repository: that they call in every order, from several
threads, is what the models assume.
