# TinyVoice in TLA+

TinyVoice is a voice-note device for a child.  An ESP32 device records a take and
uploads it; a Go server stores it and a worker sends it to the parent through
WhatsApp (Evolution) or Telegram.  The parent's voice notes come back through a
webhook, are converted and stored, and wait until the device polls, downloads and
plays them.  These modules model that program from its source, check the models with
TLC on small instances, and prove their main properties with TLAPS for instances of
any size.

## 1. The system

| Part | State it keeps | Operations | Talks to |
|---|---|---|---|
| Upload handler (`api/message_handlers.go`, `message/service.go`) | nothing between requests | `POST /messages`: validate, `storage.Put`, `INSERT` PENDING, 201 | device, MinIO, PostgreSQL |
| Outbound worker (`worker/outbound_worker.go`) | `msg` during one `processOne` | claim (`FOR UPDATE SKIP LOCKED`), send, mark SENT / requeue / mark FAILED, sleep | PostgreSQL, MinIO, provider |
| Providers (`messaging/...`) | an HTTP client, 60 s timeout | `SendAudio`, `DownloadMedia`, webhook parsing | Telegram, Evolution |
| Webhook handlers (`api/webhook_handlers.go`) | nothing between calls | record event, find device, fetch media, convert, store, `INSERT` AVAILABLE | channel, PostgreSQL, MinIO |
| Device API (`api/message_handlers.go`) | nothing between requests | next, audio, played | device, PostgreSQL, MinIO |
| `messages`, `webhook_events`, `device_conversations`, ... | the tables | statements of the repositories | all of the server |
| Firmware main loop (`main.cpp`, `state_machine.cpp`) | state, pending flags, LittleFS files | record, upload, poll, prefetch, play, acknowledge | net worker, recorder, player |
| Firmware net worker (`main.cpp`, `api_client.cpp`) | one job, its result | upload, poll, download, mark played | the server |
| Recorder (`audio_recorder.cpp`) | ring, staging buffer, take file | start, tick, stop, release memory | loop, net worker |
| Player, button, LED, volume, Wi-Fi manager | small local state | events to the loop | loop |

What is hard in it:

- **Interleavings.** Several server processes may run a worker each on one table; a
  channel may call twice at once; the device's loop and its net worker share flags
  without a lock.
- **Lost answers.** A provider accepts audio and its answer is lost; `COMMIT` reports
  an error though it took effect; the device never sees its 201.  Every retry can
  duplicate, every missing retry can lose.
- **Partial failure.** MinIO and PostgreSQL are written one after the other, with no
  transaction over both; the errors of closing `UPDATE`s are dropped or only logged.
- **Crashes.** A server process stops between claim and close; the device reboots
  with takes on its flash.
- **Boundaries.** The attempt limit, the byte budgets of a take and of a download.

What makes each part correct, in short: *upload*: a 201 means a row, a row means its
audio; *worker*: one holder per row, bounded copies, truthful final status, every
row settled; *webhook*: one row per note, complete, truthful answers; *device
API*: only the owner hears a note or marks it played, once; *firmware*: no state
the device cannot leave, no take deleted before it is stored, no note acknowledged
that was not played; *recorder*: takes stay within their budget and their header is
true.  `PROJECT.json` lists the hazards line by line with the properties that cover
them; a hazard without a property says why it has none.

## 2. Modules

| Module | Models | Status |
|---|---|---|
| `Delivery` | what the outbound half promises, abstractly | checked, implemented by `Outbound` (checked and proved) |
| `Outbound` | upload handler, worker, providers as the worker sees them | checked, proved |
| `Mailbox` | what the inbound half promises, abstractly | checked, implemented by `Inbound` (checked and proved) |
| `Inbound` | webhook calls, binding, device API | checked, proved |
| `MainLoop` | the firmware's loop, net worker and state machine, with button, Wi-Fi and server around them | checked, proved |
| `Exchange` | the flash the take and the message share, the attempts of an upload, the sizing of a download, against server and network | checked, proved |
| `Recorder` | capture task, ring, staging chunk, byte budget, the file of a take | checked and proved (in `Capture`) |
| `Button` | debouncing, press, hold, release | checked and proved (in `Capture`) |
| `Capture` | `Recorder` and `Button` driven by `loop()`: from the press to the request to upload | checked, proved |
| `WavCheck` | operators: the chunk walks of server and player, the limits, the size and duration of a row | checked and proved (in `UploadCheck`, `Capture`) |
| `UploadCheck` | the checks of `POST /messages` in order, around `WavCheck` | checked, proved |
| `OutboundProofs`, `InboundProofs`, `ExchangeProofs`, `MainLoopProofs`, `CaptureProofs`, `CaptureOrderProofs`, `UploadCheckProofs` | theorems | proved |
| `WavProofs` | what the two walks over the chunks of a file find | lemmas, proved |
| `MC...` | TLC instances | |

`MainLoop` has every step of the two tasks and their flags but no sizes; `Capture` opens
the steps of `MainLoop` that record, `Exchange` takes the order of its steps as given
(one thing at a time, which is `NoOverlap`) and adds sizes and attempts; `Outbound` and
`Inbound` are the server's half of what `Exchange` sees as rows and messages.

### Outbound

One upload request makes at most one row and one object, so request, row and object
key are one identity `r`.

| Model | Code |
|---|---|
| `up[r]` | the point `MessageHandlers.Upload` / `CreateOutbound` has reached for a request |
| `objects` | the bucket |
| `status`, `attempts`, `createdAt` | the columns of `messages`; `NONE` is "no row visible" |
| `clock` | `NOW()`: taken when the `INSERT` starts, so a row can become visible after a younger one |
| `pc`, `cur`, `tries` | where `processOne` of a server's worker stands, `msg.ID`, `msg.Attempts` |
| `inFlight`, `accepted` | HTTP requests to the provider that may still be accepted, and those that were |
| `before` | history: the recordings answered 201 when a request arrived |

`UploadReceive` ... `UploadReply` are the handler's stages and `UploadFail` its error
exits, including a client that went away and a process that died.  `ClaimSelect` and
`ClaimCommit` are the two halves of `ClaimPending`: between them the row is
locked and other claims skip it.  `PrepareFail`/`SendAudio` are `send` before and at
the HTTP request, `SendOk`/`SendError` its return, `ProviderAccept` the provider,
which may accept a request after its client timed out.  `MarkSent`, `MarkFailed`,
`Backoff` and `RequeuePending` close the attempt.  `Faults` switches on two kinds of
failure: `"db"` (a statement fails, or commits and reports an error:
`ClaimRollback`, `ClaimCommitLost`, `UpdateLost`) and `"crash"` (`Crash`: the process
stops and starts again).

Whoever may take a step of `Outbound` may be slow: nothing but the guards orders the
steps of different handlers, workers and the provider.

### Inbound

A webhook call makes at most one object and one row; `c` names all three.  `call[c]`
is the stage of the handler (both channels run the same steps on the tables), `events`
is `webhook_events`, `bound` the join of `device_conversations` and `conversations`,
`device[c]` what `FindByRecipient` returned.  `opening`, `served` and `playedBy`
belong to the device API: `OpenAudio` checks owner and status, `ReadAudio` reads the
object later.  `CallFail` is any failure of a call between two statements, including
the death of the process; `RecordWebhookEventLost` is the commit that reports an error.

`Mailbox` keeps none of that: who is bound to whom, and which note waits for, was played
by or was heard on which box.  `Inbound` maps its AVAILABLE and PLAYED rows to the two sets
of notes; of a call only `CommitInbound` is a step of `Mailbox`.

### MainLoop

The box runs two tasks that share globals without a lock, so a pass of `loop()` is cut
where the other task can be seen to have moved:

| `pc` | The place of `loop()` |
|---|---|
| `top` | Wi-Fi check, button, play and record requests (521-609): `PassPlay`, `PassHold`, `PassOn` |
| `playing` | inside `playCachedInbound`: `PlaybackEnd` |
| `record`, `upload`, `sending` | `handleRecording`, `handleUploading`, inside `runUploadJob` |
| `download`, `poll` | the results of the worker, taken from its flags: `TakeDownload`, `TakePoll` |
| `request`, `prefetch`, `retry` | heartbeat or poll, `startInboundDownload`, `uploadPendingRecording` |

The Wi-Fi is read once in `top`, as if lines 533-567 saw one value.

| Model | Code |
|---|---|
| `job`, `ran` | `s_netJob` / `s_netBusy`; `ran`: the job's results are written, the worker is still busy |
| `hasPending`, `pendingId`, `playedId`, `downloadId`, `ready` | `_hasPendingMessage`, `pendingMessageId`, `playedMessageId`, `s_downloadMessageId`, `s_inboundReady` |
| `pollDone`, `pollResult`, `downloadDone`, `downloadOk` | the flags the worker sets and the loop clears |
| `cache`, `take` | whose audio is in `/play.wav`, `/rec/take.pcm` |
| `flushed`, `recording` | `hasPendingRecording()`, `_recording` |
| `uploadRequested`, `uploadTake` | `s_uploadRequested`, the take that `s_uploadJob`'s header was built for |
| `row`, `lateAcks` | the messages' status on the server, marks given up by the box that may still arrive |
| `used`, `tried`, `heard` | history: takes made, messages whose playback began, and those that played to their end since the box was switched on |
| `overtaken` | history: messages that an older one came after |

Polls, downloads, marks and uploads may fail, and may have taken effect though they seem
to have failed.  A message's creation order need not be the order in which it
appears.  `Faults` adds `"wifi"` (the connection drops and returns), `"reboot"` and
`"playback"` (a file that does not play).  The poll interval, the backoff after failures
and the 30 s before an upload is tried again are choices: a step that waits for one may
also be skipped.  The mutex of the file system is always obtained (only the loop takes it
for long).

### Capture, Recorder, Button

`Capture` extends the other two and `WavCheck`.  All lengths are in samples of two bytes.

| Model | Code |
|---|---|
| `ring`, `inRead`, `captured` | the unread part of `_ring`; whether `captureTask` is inside `i2s_read`; the number of the last sample |
| `capturing`, `recording`, `diskFull`, `dropped` | `_capturing`, `_recording`, `_diskFull`, `_droppedSamples` |
| `staging`, `pcmTotal`, `maxPcm` | `_staging` up to `_writePos`, `_pcmTotal`, `_maxPcmBytes` |
| `fd`, `take` | `s_takeFd`, `/rec/take.pcm` |
| `pc` | `top`; `start`, `preroll1`, `preroll2` (the two `loop()` calls at the end of `start`); `record`, `check`, `again` (`handleRecording`); `stop`, `rest`, `close` (inside `stop()`) |
| `drained` | the samples this `AudioRecorder::loop()` has drained |

A sample is its number, so that `take` shows what was lost, doubled or put out of order.
`CaptureRead` and `CapturePush` may come between any two steps of the loop task.  A chunk
is written whole, or in part, and then the file may be shorter still when it is closed
(`ChunkFailed`, `StopClose`).  `Button` keeps the age of a time
stamp up to the threshold it is compared with, which is all that the unsigned
subtractions of `millis()` show.

Five variables are history, which no step of the code reads.  `startAt` and `firstAt` are
the last sample captured and the oldest that waited in the ring when the recording started.
`steady`, `lasted` and `reports` are what a witness beside the button writes down (`Witness`):
how long the readings have been the same, how long ago the press was accepted, and how often
it has been reported since.  `PressIsOneGesture` compares the button with them: an edge is
accepted when, and only when, the contact was steady for the debounce; a press lasts from
edge to edge; it is reported as a hold in the pass that reaches the threshold or as a short
press in the one that ends it before.

### UploadCheck, WavCheck

A file is the size its header declares, the bytes that are there, and the chunk header
at each offset that holds one.  `Walk` is `parseWAVHeader`, `PcmOffset` the player's
`findWavPcmOffset`, `Valid` and `Aligned` are `ValidateWAV` and `AlignWAVInfoToFile`.
`UploadCheck` calls them in the order of the handler, any of whose other steps may fail.
`Trimmed` stands for ffmpeg, which keeps the first `MaxDurationMs` and lays the file
out with a LIST chunk.

### Exchange

| Model | Code |
|---|---|
| `take`, `cache` | the sizes of `/rec/take.pcm` and `/play.wav` |
| `FreeBeside`, `CapBeside` | `storageFreeBytes()`, in whole blocks; the cap of a download: `Payload` of each whole `Block` above the margin |
| `doing` | idle, or inside the upload or the download the net worker runs |
| `attempt` | the attempt of `postRecordingWithRetry` |
| `cap`, `trimmed`, `ready` | what this download may take, `s_inboundTrimmed`, `s_inboundReady` |
| `rows`, `arrived`, `heard` | the server: rows made of each recording, the messages available and those marked PLAYED |
| `lost` | history: posts stored by the server whose 201 the device did not read |

A file is counted by its bytes, free flash by its blocks, as the code does.  `Record` covers
a whole recording (`Capture` opens it); `PostFailed` covers every error of a post, with and without a row on the server; `ReceivedTrimmed` and `ReceiveFailed` the
two ways a download ends early.  `Play` may lose the mark, and `Poll` marks again.

## 3. Runs

| Run | Instance | Shows |
|---|---|---|
| `outbound_two` | 2 requests, 2 servers, 2 attempts, all faults | claims are exclusive, copies bounded, final statuses true, 201s durable, the status graph, and that `Outbound` implements `Delivery` |
| `outbound_one` | 2 requests, 1 server, 3 attempts, no fault, fair | recordings settle in upload order, and every row settles |
| `outbound_stuck` | as above, with crashes | `EveryRowSettles` fails: a row claimed by a process that stops stays PROCESSING |
| `inbound` | 3 calls, 2 notes of 2 senders, 2 devices | one row per note, complete rows, truthful answers, only the owner is served, and `Inbound` implements `Mailbox` |
| `inbound_lost` | 2 calls, 2 notes, 1 device | `DuplicateWasStored` fails: a note whose first call found its device and failed then is dismissed as a duplicate |
| `main_loop` | 2 messages, 2 takes, playback failures and reboots | what is offered to the child is on flash and known to be waiting, under the id its mark will carry (`ReadyIsPlayable`); no message is marked before the box tried to play it (`AckOnlyTried`) or offered again after it was heard (`NoReplay`); no download during a recording; headers fit their take; IDLE leaves nothing behind; no deadlock |
| `main_loop_fetch` | 1 message, no take, Wi-Fi changes, fair | a message of the server is offered in the end, if the Wi-Fi stays up at last |
| `main_loop_wedge` | 1 message, 1 take, Wi-Fi changes | `IdleIsFree` fails: a drop during a recording leaves the recorder on |
| `capture` | ring of 3, chunks of 2, budgets 2 and 3, a flash that fails | the unsigned rest of the budget is never below zero and the file stays within it (`WithinBudget`); the sound keeps its order and no gap goes uncounted (`GapsAreCounted`); the speech from before the hold is in the take when `start()` returns, but for what an overrun threw away and counted (`PrerollIsTaken`); what is uploaded is what the file has, and the server accepts it (`HeaderFitsFile`); a press is reported exactly once and a bounce never (`PressIsOneGesture`); `loop()` comes back however fast the ring fills (`LoopReturns`) |
| `upload_check` | every declared and present length around the limits, chunks of 0, 3, 4, 40 bytes before the sound | both walks find the sound; the row has the size of the stored file and the duration of the sound in it; no take of the device is refused |
| `exchange` | 2 takes of 2 to 9, messages of 5, 12 and 2, flash of 18 in blocks of 3 that hold 2, 4 network failures, a reboot | room on flash, messages that are whole or trimmed and long enough, duplicates only by a lost answer, a take is kept until stored, and every take that leaves room for a message is sent in the end (`EveryRoomyTakeSent`) |
| `exchange_full` | 1 take, 1 message, the same flash | `EveryTakeSent` fails: a take that leaves no room and the message block each other |

*Bounds.*  The properties of `Outbound` relate one row to one worker, or two rows or
two workers; two of each reach every such relation, and two attempts reach a retry, a
last attempt and a copy accepted after its row was closed.  Three attempts in
`outbound_one` let a requeued row compete with a later one twice.  In `Inbound` three
calls allow two about one note racing each other while a third is about another.
In `MainLoop` a second message makes every id stale in turn (polled, downloading,
ready, played, being marked), and a second take follows one that was not sent; the
loop's globals hold one message and one take each.
In `Capture` the ring holds one read and a half, so it overruns and a drain stops in the
middle of it; a budget is a whole chunk or one and a half, so the last batch is cut, and
the shortest and longest lengths the server accepts lie at the two ends.  Samples are
numbered to 7, twice the ring, and not told apart after that, so capture never ends.  In
`Exchange` the flash has 6 blocks of 3, of which a file gets 2 each, and the margin takes two.
A take of up to 3 leaves 3 blocks (6 for a message, `kMinBytes` is 5); one of 4 to 6 leaves 2:
a download starts, since 6 is more than 5, ends at 4 and is not offered; a longer one leaves
too little to start; no take leaves the 12 that the longest message has.  So every case of
`StartDownload` and `Received` occurs, the download that cannot succeed among them
(`ReceivedAnyLength`, the mutant of `Received`, is found there).  With the numbers of the code
that case does not occur: free flash and margin are whole blocks, so what is left of more than
16044 bytes is four blocks at least, and they hold 16352; `exchange_full` therefore has a
`kMinBytes` of 4, for which it does not occur either.  Four failures fail two whole uploads,
and they come to an end, as does the single reboot.
The theorems below lift the safety properties of the server to every size.  The states are finite
without a constraint: every request and call is used once, attempts are bounded by the
code and `clock` by the number of inserts.

*Symmetry* is used only in runs without liveness, over requests, servers, calls and
devices, none of which is named by a constant's value.  Notes and senders are not
permuted: `SenderOf` tells them apart.

*Deadlock* is checked in `MainLoop`, `Capture` and `Exchange`, where the device runs for ever,
and in `UploadCheck`, where a request must come to its answer (`Done` is the only stop).  In
`Outbound` and `Inbound` the requests and calls of an instance are finite, and when they are
used up the program idles; in `exchange_full` it is the deadlock that is shown, as the failure
of a property.

*Fairness.*  `FairSpec` gives every worker weak fairness on its own steps.  The code
justifies it: `Run` ticks until its context is cancelled, `time.Sleep` returns, both
provider clients time out after 60 s, and the ffmpeg call and the database calls
carry the worker's context.  `WorkerStep` contains both outcomes of a send, so
fairness never obliges a provider to accept; nothing obliges a device to upload.
Liveness is stated with `Faults = {}` because a database that fails at the closing
`UPDATE` or a process that stops really leaves the row PROCESSING, which
`outbound_stuck` shows.

`MainLoop`'s `Fairness`: both tasks run for ever (`loop()` and `netTaskEntry`; every call in
them has a timeout), hence weak fairness; strong fairness that a due poll is made and a
wanted download started (each is refused only while the worker is busy, the button is
down or the box backs off, all of which end); and three assumptions about the world:
a poll and a download succeed again and again, the button is released, and a poll is
*sometimes* answered within `POLL_INTERVAL_MS` (`SkippedForResult`,
`SkippedForDownload`).  The last one is needed: the loop asks whether to poll before
it asks whether to download, so where every poll takes longer than 5 s it polls for
ever and never fetches the message it knows of; without these two conjuncts TLC finds that
behaviour at once.  `EveryFetched` further assumes `<>[]wifi`.  It has no takes:
with takes, the leftovers of a Wi-Fi drop (section 5) block polls for ever.

`Capture`'s `FairSpec` is weak fairness of the loop task alone: FreeRTOS schedules it, and
the point of `LoopReturns` is that nothing is asked of the capture task, which may be as
fast as it likes.  In `Exchange` the device's steps are weakly fair for the reason given for
`MainLoop`; so is `Play`, an assumption about the child, without which a message that waits
blocks the retry for ever; and `RetryPending` is strongly fair, because it is due every 30 s
and refused only while a message is pending.  Failures, messages and reboots are bounded,
so what holds in the end holds if the network is up at last.

*Mutants.*  Operators under a comment `Mutant:` are not part of a specification.
Each is a plausible slip in the definition that follows it, and each property is
checked to fail when the definition is replaced by one of them.

## 4. Theorems

`OutboundProofs` proves, for any sets of requests and servers, any `MaxAttempts` and
any `Faults`, from the assumptions named in `Outbound`: `TypeCorrect`, `ClaimTheorem`,
`BudgetTheorem`, `TerminalTheorem`, `DurableTheorem`, `GraphTheorem`, and `Refinement`
(`Spec => ImplementsDelivery`).  `OrderTheorem` proves `SentInUploadOrder` under the
assumption that there is at most one server.

None of these invariants is inductive by itself.  `IInv` adds what links the actors:
a worker's row is in the status its program counter implies and its private attempt
count equals the row's (`WorkerInv`); a PENDING row has an attempt left, a SENT row
was accepted, a FAILED one has none left (`RowInv`); how far an upload has come says
whether its object and row exist (`UploadInv`); and every request in flight or
accepted carries a number up to its row's counter (`NetworkInv`).  With it every
closing update is seen to write a row nobody else holds.  The order proof adds
`HeldInOrder`: the row a worker has locked has no earlier one waiting; it needs the
single server because the only worker that may requeue a row is then the one that
would take a later one.

`InboundProofs` proves `TypeCorrect`, `OneRowTheorem`, `CompleteTheorem`,
`AnswerTheorem`, `OwnerTheorem`, `LifecycleTheorem` and `Refinement`
(`Spec => ImplementsMailbox`).  The key of the argument is
that, of all calls about one note, at most one is past `RecordWebhookEvent` as its
recorder: the primary key of `webhook_events` makes that statement the only one that
arbitrates between concurrent calls.  `ExistsByExternalID` is not needed for it,
and would not suffice for it.  The refinement has one step per action: a commit is a
delivery because the note has no other row and the row's device is bound to the sender
(both from the invariant), a read of the audio is a hearing by the row's device, a mark is
the note's move from the waiting to the played, and everything else stutters.  So a second
delivery, a mark by another box or a note that comes back is impossible for any number of
calls, notes, senders and boxes.  `RowLifecycle`, the same said of a single row, is proved
too (`LifecycleTheorem`); the run checks the refinement, which covers it.

`ExchangeProofs` proves, for any sizes that satisfy `SizesAssumption`, any messages and any
number of recordings, failures and reboots: `TypeCorrect`, `RoomTheorem`, `WholeTheorem`,
`CopiesTheorem` and `KeptTheorem`.  The sizes of blocks are any, so the theorems cover the
downloads that end too short to be offered.  That the rounded cap leaves the margin beside a
take of whole blocks is `CapFits`.  Its invariant adds to the properties what a step relies
on: a running download has its final size reserved beside the take (`Room`), it belongs to
a pending message that is not ready and takes no more than that message has (`Wanted`), and
a take still on the flash has no row whose answer was not lost, a recording not yet made has
none at all (`Counted`).  `RoomTheorem` needs `TakeReserve <= FlashMargin`, which holds of
the two constants in the code: a message may never be given the reserve of the recorder.

`MainLoopProofs` proves, for any messages and takes and under **every** fault, Wi-Fi drops
included: `TypeCorrect`, `AckTheorem`, `ReplayTheorem` and `HeaderTheorem`.  The inductive
invariant is `AInv`.  Whatever id the box holds was AVAILABLE once (`SeenInv`).  Polls come
in an order (`OrderInv`): if an answer on its way names the message played last, or none,
every other id the box holds is PLAYED on the server; if it names another, that one goes
before what the box holds.  What is fetched, offered or played is the message of the last
download, which `s_downloadMessageId` still names when the mark is sent, or the server has
that message as PLAYED already, which is the case a Wi-Fi drop while DOWNLOADING adds
(`OfferInv`).  `HeardInv` is the argument about memory: a poll names a message only if no
older one waits (`First`), so of all messages heard at most the one in `playedMessageId` can
still be AVAILABLE, and by the time the box turns to another that one is settled
(`Settled`).  Hence one remembered id is enough, for any number of messages and lost marks,
provided the messages become available in their order.  One that an older message came
after (`overtaken`) can be offered again, see section 5; `NoReplay` excepts exactly those.
That there is a first AVAILABLE message is the well-foundedness of `<`.

While the Wi-Fi stays up (`"wifi" \notin Faults`; section 5 says what a drop breaks),
`PlayableTheorem`, `OverlapTheorem` and `IdleTheorem` hold too, with playback failures and
reboots: `TakeInv` says which flags of recorder and upload go with which state, `WorkerInv`
which shared flags of the two tasks may be set together, and `FetchInv` that what was
fetched or is offered is still on the flash, known to wait, and not being marked.

`CaptureProofs` proves, for any sizes, thresholds and passes that satisfy the assumptions
of the modules: `TypeCorrect`, `BudgetTheorem`, `GestureTheorem` and `HeaderTheorem`.
`GestureTheorem` needs that the clocks of the button and of the witness agree
(`ClocksAgree`).  The budget needs what ties count, staging chunk and file together (`FileInv`): the file holds
what was counted, and after a failed chunk at most the staging chunk more.  `CaptureOrderProofs` proves
`GapsTheorem`: the ring is an unbroken run of numbers (`Runs`) that begins above all of the
sound, `writeSamples` puts a prefix of a batch behind the sound (`WriteSamplesSound`), and
all of it if the recording goes on; so only an overrun can open a gap, and it is counted
(`Counted`), from the oldest sample that waited at the start on (`firstAt`).  `PrerollTheorem`
adds that the two drains of `start()` reach the first sample after the hold, however much is
captured meanwhile; so what waited in the ring at the start is in the take, or is among the
samples counted as dropped.  It assumes that half the ring twice is
the whole ring, as it is for the 16384 samples of the code: with an odd ring and reads of
one sample the oldest would be left.  Numbers end at `LastSample` in these theorems as in
the model; it may be any number.

`HeaderTheorem` of `CaptureProofs` (`HeaderFitsFile`) joins the recorder to the server's
check: what is posted has the length its header says, and `ValidateWAV` accepts it with that
length and duration.  It assumes that the longest take is within the server's limits
(`CapSamples` in milliseconds at most `MaxDurationMs`, and with its header at most
`MaxUpload`): in the code a minute against 60000 ms, and 1 920 044 bytes against 5 MiB.

`UploadCheckProofs` proves `RowTheorem`, `WalksTheorem`, `DurationTheorem` and `TakeTheorem`
for any limits and any files.  What they rest on is in `WavProofs`.  The two walks are
functions that recurse along the file, and an induction is not to be had of the prover's
libraries; the existence of a least number is.  `FixedPoint` takes the least offset from
which on some function satisfies the recursive equation: it must be 0.  So a walk is what its
equation says (`WalkUnfolds`, `PcmUnfolds`), and in a file that is laid out, whose chunks
follow each other from offset 12 with the sound last (`LaidOut`), there is no first chunk that
a walk does not reach.  Any chunks may come before the sound, odd ones too.  `WalksTheorem`
assumes that the posted files are laid out so.  It is proved of what the recorder writes and of
what ffmpeg leaves of a trimmed file, and TLC evaluates it for the files of the run.  The other
three theorems assume nothing of what is posted.  `MinDurationMs` is not 0 (500 in the code).

Only model-checked: what is live (`EveryRowSettles`, `EveryFetched`, `EveryRoomyTakeSent`,
`LoopReturns`), which is out of the prover's reach.  Every invariant and action property of
the passing runs is stated by a theorem.

## 5. Where code and documents disagree

- `outbound_stuck`: architecture.md says the worker updates the status to SENT or FAILED;
  a row claimed by a process that stops is never looked at again.
- `inbound_lost`: api.md says duplicate events are ignored; a call that comes to
  `RecordWebhookEvent` after the first one found the device and failed (download, conversion,
  `Put` or `INSERT`, answered 500) is ignored too, though nothing was stored.  The property
  says nothing of a note for which no device was found: the code dismisses that one with 200.
- `main_loop_wedge`: the loop promises to recover from ERROR when the Wi-Fi is back; after a
  drop while recording it is in IDLE with `_recording` still set, and no hold records again
  until a reboot.  The same property fails a second way: `uploadPendingRecording` sets
  `s_uploadRequested`, the Wi-Fi drops before the next pass handles it, and back in IDLE
  the flag stays set and blocks polls, downloads and retries.
- `exchange_full`: the loop retries a pending recording when it is idle; but a take of over
  about 40 s on the default 1.4 MB partition leaves too little flash to download a message
  that arrives, and while a message is pending neither the retry nor a new recording (which
  would delete the take) is let through.  Both wait until a reboot deletes the take.

With Wi-Fi changes `NoOverlap` fails too, as a consequence (a download runs while the
recorder is still on), and with playback failures besides, so does `ReadyIsPlayable` (a
drop while DOWNLOADING lets a poll in before the result is taken).  They hold, and are
checked, where the Wi-Fi stays up.

Smaller things met while modelling, which no run is about:

- architecture.md speaks of exponential backoff; `outbound_worker.go` waits 5 s times the
  number of attempts.
- architecture.md names a local queue for offline uploads; nothing calls the code that would
  fill `/queue`, one take waits in `/rec`, and the next recording deletes it.
- A file that is found empty after a failed write keeps the old count
  (`audio_recorder.cpp:727`); the upload then fails for want of a file, without harm.
- Samples lost after `_recording` has ended are not counted, and once the budget has cut a
  batch `maxDurationReached()` is false: the take then ends at the release.
- A file shorter than its header can get a row of less than 500 ms: the duration is checked
  before it is corrected.
- A message can be offered a second time without a reboot if an older one came after it:
  `created_at` is the start of the `INSERT` and the row shows at its commit, so `/next` may
  answer with 2, then with 1.  If the mark of 2 was lost and 1 is played meanwhile, the box,
  which remembers one id (`main.cpp:475`), takes 2 for new.  TLC shows it when the exception
  in `NoReplay` is dropped.
- `main.cpp:76` compares `millis()` values directly, which fails around the wrap after 49
  days.

## 6. Not modelled, and why

- Device authentication: one stateless comparison of a hash in front of every device route.
- Configuration, migrations, health and metrics: no state that the properties depend on
  changes there.  Without a provider configured no worker is started, and uploads stay
  PENDING: visible in `cmd/server/main.go`.
- The choice of `GetConversationID` among several bindings of a device (`LIMIT 1` without an
  order), and the creation of devices and conversations.
- The wire formats of HTTP, TLS, JSON and multipart; ffmpeg, except for what `Trimmed` says.
- LED patterns, volume, tones and log output; the recorder's flush worker, to which nothing is
  queued.
- Times: intervals and backoffs are choices, except for the two thresholds of the button.

## 7. What could come next

1. A directory module: devices, conversations, several bindings and what an unordered
   `LIMIT 1` makes of them.
2. `Exchange` as an abstraction that `MainLoop`, extended by sizes, is shown to implement.
