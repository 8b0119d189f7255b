# A TLA+ model of Blip

Blip records a Mac's screen, camera and audio (Blip Capture), edits and uploads
the recordings, hosts them (Blip Server), and mixes live scenes for RTMP (Blip
Studio). This directory models the parts of it in which several threads,
requests or machines touch the same state, checks them with TLC, and proves with
TLAPS, for every value of the parameters, the safety of the server and that it
implements an abstract life of a recording, and the main safety properties of
playback, the recorder, the capture application, the bundle editor's document,
exports and crops, `blip record` and the studio.

## The system

| part | state it keeps | operations | what is hard about it |
| --- | --- | --- | --- |
| Upload and storage API (`packages/blip-server-app`) | `users` and `videos` rows, the owner's storage configuration | create, signPart, signAsset, complete, abort, rename, privacy, archive; storage set, remove | each handler is several database and S3 calls; other requests run between them, any call may fail after taking effect, a handler may be cut off |
| Object store (S3, external) | open multipart uploads, their parts, objects | create, upload part, complete, abort, head, put | answers are lost; presigned URLs outlive the handler that made them |
| Playback (`Http.ts` view, playlist, unlock) | verified-password cookie | view, playlist, unlock | cookies that outlive a change of password |
| Recorder (`recording.rs`, `upload.rs`, `hls.rs`) | stop channel, frame queue, playlist sink, upload worker's join set, output files | start, stop, frames, finish, incremental upload, abort, cleanup | five threads, bounded queues, timeouts that race with answers, deletion of the only copy |
| Capture application (`main.rs`, `camera_preview.rs`, `profiles.rs`) | status, stop sender, selection, overlays, hotkeys, camera preview, three copies of the profiles | record, stop, Escape, close, select a window or drag a region, choose a camera, edit and import profiles | one event channel shared by successive recordings; windows that outlive each other; indices into lists that a poll replaces; copies that overwrite each other |
| Bundle editor (`editor.rs`, `bundle.rs`, `blip-audio`) | timeline segments, zooms, playhead, gesture, edit file; preview and wallpaper workers; export threads; crop draft; mixer | split, merge, trim, ripple delete, zoom, save, reopen, playback, export, crop | interval arithmetic, keys in the middle of drags, workers answering stale requests, exports that fail half-way |
| Studio (`viewer.rs`, `rtmp.rs`, `project.rs`) | scene, captures with generations, pending cameras, frame hub, render queue, stream, project file | add, replace, delete, reorder, drag and resize elements, restart failed captures, toggle the stream, save and restore | callbacks of stopped captures, generations, coalesced wake-ups between four threads, late errors of old streams, drags on pictures older than the scene |
| Headless studio (`headless.rs`) and `blip record` (`blip-cli/src/recording.rs`) | newest frame per camera and counters; reason to stop, frame queue, writer | capture, drain, compose, report; record, interrupt, finish | counters read while callbacks run, a full queue at the end, several reasons to stop |
| Compositor, camera capture, authentication, updater, widgets, GPUI | — | — | see `PROJECT.json`, which lists every part and why some are left out |

They interact through HTTP (recorder to server), presigned URLs (recorder to
store), channels (capture callbacks to writer, delegate to upload worker, recorder
to application), shared locks and atomics (studio's hubs) and files.

## Modules

| module | models | checked by |
| --- | --- | --- |
| `RecordingLifecycle` | what the server promises of a recording: begin, assemble, publish, tell, discard (abstract specification) | `MCUploadServer`, through the refinement; `Recorder` uses it as its server |
| `UploadServer`, `UploadServer_proofs` | the upload and storage handlers over rows and an object store; their theorems, the refinement among them | `MCUploadServer`, `MCServerOwner` |
| `Viewing`, `PlaybackApi` | view, playlist, unlock and privacy over a browser's cookie; the same beside the upload API. Theorem in `UploadServer_proofs` | `MCUploadServer` |
| `Recorder`, `Recorder_proofs` | one recording in blip-capture with its threads and its upload; theorems | `MCRecorder` |
| `MediaTracks`, `RecordingTracks` | the tracks of a file or a bundle under their clocks, with the movie writer's timestamps; the same under names of its own. Theorem in `RecordingParts_proofs` | `MCRecordingParts` |
| `CliRecording`, `RecordingParts_proofs` | `blip record`; theorems of it and of the tracks | `MCRecordingParts` |
| `HeadlessStudio`, `HeadlessStudio_proofs` | the headless studio's callbacks and pipeline; theorems | `MCRecordingParts` |
| `CaptureApp`, `CaptureApp_proofs` | toolbar, recording status, events, hotkeys, overlays, selection; theorems | `MCCaptureApp` |
| `CaptureParts` | the three below beside each other, and what they promise; theorems in `CaptureApp_proofs` | `MCCaptureParts` |
| `CameraPreview` | list of cameras, selection, preview and its worker | `MCCaptureParts` |
| `Profiles` | settings file, settings window and the toolbar's copy | `MCCaptureParts` |
| `RegionSelection` | drags of a region on a display | `MCCaptureParts` |
| `Timeline`, `Editor`, `EditorDocument` | the algebra of segments and zooms; the editor's document, gestures and file; the same under names of its own. Theorem in `EditorExport_proofs` | `MCEditor` |
| `EditorPreview` | playback, render requests, preview worker and wallpaper thread | `MCEditorParts` |
| `EditorExport`, `EditorExport_proofs` | export dialog, threads and files; theorem | `MCEditorParts` |
| `AudioMix` | the mixer in playback and in an export | `MCEditorParts` |
| `ScreenCrop`, `CropDialog` | the crop dialog; the same under names of its own. Theorem in `EditorExport_proofs` | `MCEditorParts` |
| `StudioCaptures`, `StudioCaptures_proofs` | the captures behind a studio scene, generations, camera starts; theorems of the captures and of `StudioParts` | `MCStudioCaptures` |
| `StudioPipeline`, `StudioPipeline_proofs` | frame hub, render queue, compositor thread, composition hub, stream; theorems | `MCStudioPipeline` |
| `StudioScene` | elements, list, colours, selection, pictures, project file | `MCStudioParts` |
| `StudioLayout` | place and size of one element on the canvas | `MCStudioParts` |
| `StudioParts` | the two above beside each other, and what they promise. Theorems in `StudioCaptures_proofs` | `MCStudioParts` |

`Recorder` composes the recorder with the server's abstract life of a recording,
`MediaTracks` a movie writer for each track, `Editor` and `AudioMix` the timeline. The `MC`
modules give the parameters their values. Where one of them instantiates several
components (`part`) or one component with several bounds (`scene`, and `part` of
`MCStudioPipeline`), a behaviour chooses at its start which one moves, and the
others keep their first state: these components share no state, so an
interleaving of them has nothing that each alone has not. A property of such a
run is the conjunction of what the components' own modules state, by name; `MCEditor`
states two of its own, with the least lengths of each scene. What a
theorem states is defined in a module that run and proof both extend: the
component itself, or a composition module (`PlaybackApi`, `RecordingTracks`,
`CaptureParts`, `EditorDocument`, `CropDialog`, `StudioParts`) that instantiates
components under names of its own where two of them would use one name. The `.cfg` then gives its constants the
bounds, and an `MC` module may narrow them for one of its parts.

### UploadServer

State: `rows` (the `videos` table), `config` (each user's storage settings),
`store` (multipart uploads and objects by bucket and recording), the presigned
URLs that clients hold, and a set of request slots. A slot holds the payload, the
point the handler has reached, and the row or configuration it has read: the
value a handler read before a call is the one it uses after it, however old it
is by then. One action is one handler up to and including its next database or
store call. Every call has the outcomes that the code distinguishes and the one
it cannot: the call took effect and its answer is an error. `Interrupt` ends a
handler anywhere (the fiber is interrupted when the client disconnects, or the
process restarts). A client may be told the answer or not.

The object store is external. It is modelled from the calls in
`ObjectStorage.ts` and with S3's documented behaviour: completing or aborting a
multipart upload that is not open any more is refused (`NoSuchUpload`), and
completing one makes the object appear atomically. That strictness matters: it
is what lets an abort that read the row before a concurrent complete do no harm.
A store that accepts the abort of a finished upload would break
`AnsweredIsPublished`, as the mutant `AbortUpload_Ignored` shows.

### Recorder

State: the UI's stop channel, the recorder thread, the capturer, the bounded
frame queue, the writer thread and its media writer, the camera writer, the
playlist sink with its sticky error, the upload worker with its inbox and its
`JoinSet`, files on disk, assets in the bucket, and the upload session, an
instance of `RecordingLifecycle`. One action is one step of one thread between
two points where another thread can see a difference (a channel operation, a
join, a request). `net` holds the requests the server has received and not
dropped: the client's one-minute timeout gives a request up, the server may
still execute it. AVFoundation is external: it emits the initialization segment
first, and finishing ends the delegate's callbacks.

Profiles: `hls` and `mp4` go to a server, `local` and `bundle` stay on disk;
`profiles.rs` refuses the other combinations.

### StudioCaptures

State: the scene (element ids and their sources), the `captures` map, the pending
and failed cameras, `next_capture_generation`, and every capturer ever built
with the generation its callback knows. The viewer's methods run one at a time
on the main thread, so each is one action; between them capturers end, camera
starts end in the background executor, and errors wait in the event channel.
The capturers are numbered only so that properties can tell which one an event
is about. A capturer that is released without `stop()` is marked `dropped`:
ScreenCaptureKit ends it with its last reference (external). Colour sources have
no capture and are left out; the list of targets never changes while the
viewer runs. Restored projects have one element in the model.

### StudioPipeline

State: the frame hub (frames, removed sources, `render_pending`), the event
channel, the event loop and its `source_frames`, the single slots of the render
queue and the composition hub, the compositor thread, the picture on screen, and
the stream with its publishers. One action is what a thread does under one
lock or between two atomics: a callback enters its frame under the lock and swaps
`render_pending` outside it, in two steps; `drain` takes the frames and clears
the flag under the lock, in one. A callback of a capture that was stopped may
still finish. A picture is the version of the scene and the numbers of the
frames in it. Sizes are left out: `compose_scene` always uses
`DEFAULT_CANVAS_DIMENSIONS`, since the locked size is taken from a picture of that
size. Quitting ends the process.

### Viewing

State: the rows' privacy and password hash, the cookie of each browser, and the
requests under way with the row and the cookie they began with. The row is read
first, the session and the signature come later; `unlock` extends the cookie
that came with its request and keeps the newest `MAX_VERIFIED_HASHES`. The three
places that decide who may watch (the page, the playlist, `VideosPolicy.ts`) are
modelled each on its own. Better Auth and the hash function are external.

### MediaTracks

The arithmetic of `Mp4Writer` and `AudioWriter` (what time a frame or packet gets,
what `finish` ends the session at, and when they fail), the capture callbacks, the
bounded queues and the screen and camera writer threads. Each sample has the time
it was captured, the time its callback ran and a timestamp of the shared clock or
none (`norm`). Whether a bundle is recorded or an MP4 is chosen at the start
(`bundle`); the number of ticks after which microseconds overflow is a parameter.

### CliRecording and HeadlessStudio

`CliRecording`: main thread, signal handler, stop key, stream callbacks and writer
thread over a queue and a channel that holds one reason to stop. `HeadlessStudio`:
per camera a callback in two steps (counter, then slot under the lock), and the
pipeline's loop of drain, compose and report, until the deadline.

### CaptureApp

State: the toolbar with its status, its stop sender and its selection; the
recordings with what each was started for; the event channel; the flag, hotkeys
and overlays that are global to the process. A method of the application is one
action, with every window and hotkey it opens or closes. Each recorder thread is
reduced to what the application sees of it: started, failed, finished, and
whether its stop channel was used or dropped. A lost capture reports twice, as
in `recording.rs`.

### CameraPreview, Profiles and RegionSelection

`CameraPreview`: the list that a poll replaces, the selected index, the preview
with its generation, the two bounded channels to and from its worker.
`Profiles`: the file, the copy in the open toolbar and the copy and text fields
of the settings window; what is typed becomes a profile by parsing and joining
URLs, which is modelled by what it does to base, fragment and token. Saves may
fail. `RegionSelection`: one axis of a display in half points, so that rounding
is visible; both axes are handled by the same code.

### Timeline and Editor

`Timeline` has the pure functions of `editor.rs` on segments and ranges (where a
time falls, ripple insert and delete, clipping to the inputs). `Editor` has the
document, the selection, the gesture under way with what it copied at mouse-down,
the playhead and the file. Reopening reads the file back and clips it to the
inputs as they are then. There is no undo in the code. Times are small integers;
the minimum lengths are parameters.

Clipping keeps every segment with `end > start` (`clamp_video_timeline_to_source_range`,
`editor.rs:5654`), so what is left of one may be shorter than the 0.01 s (`MinRange`)
that `resize_video_segment_range` (`editor.rs:5572`) takes for the least. When the
edge of such a remnant is dragged and its neighbour, or the end of the range, is
nearer than that, it gets 0.01 s all the same: it overlaps its neighbour, or leaves
the range. The same code resizes a zoom, which is as short when it was added to a
timeline that is. `Forced` is the mouse-up of such a drag. `TimelineInOrder` leaves it
out, and what follows until the document is in order again; `ZoomsFollowPictures`
is about edits of a document in order. In the scenes that open a bundle again
`MinRange` is 2 and clipping leaves segments of 1, so that the case occurs.

### EditorPreview and EditorExport

`EditorPreview`: requests carry a generation, the cut of the document and a time;
the single request slot, the worker with its cache of the last decoded frame, the
wallpaper thread the worker may wait for, and the result channel. `EditorExport`:
the dialog, the save panel whose answer comes later, and export threads that go on
after their window was closed; each step may fail. A file is absent, foreign,
partial, or whole with the version of the document it shows.

### AudioMix and ScreenCrop

`AudioMix`: the positions of `blip-audio` in whole frames and remainders, on
devices of another rate, and the export's packets. A mixed frame is the set of
source frames in it. `ScreenCrop`: one axis of the crop dialog with press, drag,
release and apply. A press at the border leaves a draft below the minimum;
dragging its far handle then calls `f32::clamp` with its bounds in the wrong
order, which panics: the model has that as its last state (`crashed`).

### StudioScene and StudioLayout

`StudioScene`: the elements in their order, the next id, the colours, the
selection, the pictures on their way to the screen (each the set of the elements it
shows, of an older scene, perhaps), the two drags, and the project file with saves
that fail silently. `StudioLayout`: one axis of one element, its drawn size on the
picture, snapping, resizing by a handle, typed values and arrow keys.

## Runs

| run | shows | bounds |
| --- | --- | --- |
| `server_race` | three concurrent requests create, sign, complete and abort one recording: published recordings have their object, answered ones stay, assembled ones keep their row, and the handlers implement `RecordingLifecycle`; browsers watch and unlock while passwords change | 3 requests, 1 recording, 2 parts, 1 bucket; 2 requests, 2 hashes; 2 recordings, 3 hashes; cookies of 2 |
| `server_owner` | buckets are switched and removed, passwords set, kept and taken away, recordings renamed, archived and aborted under a recording in progress | 2 requests, 2 buckets, 1 part, 1 asset |
| `recorder` | one recording of each kind of destination, to its last event | 3 assets, 2 concurrent uploads, queue of 1 |
| `recording_parts` | tracks of a bundle and of a file; `blip record`; headless studio | 2 samples per track, for one track of a bundle 1 (`Bounds`), queue of 2; 5 frames, 2 interrupts; 2 cameras of 3 frames |
| `capture_app` | toolbars opened and closed over recordings; selections that change while they are clicked | 2 toolbars and recordings, 1 lost capture or fault; 1 of each with windows and regions |
| `capture_parts` | cameras that come and go; a style changed while frames are rendered; copies of the profiles; typed profiles; a region at the border | see `MCCaptureParts` |
| `editor` | edits, gestures, keys, saves and reopenings | recordings of 3 and 4 units, least lengths of 1 and 2, up to 3 segment ids, 1 failing save, 2 openings (see `MCEditor`) |
| `editor_parts` | preview and wallpapers; exports; sound; crop | 3 requests, 2 wallpapers of which one is broken; 2 exports in 2 windows; rates 2, 3 and 5; 8 units |
| `studio_captures` | screens and a camera added, replaced, deleted while captures end and camera starts come late | 2 screens, 1 camera, 3 elements, 3 capturers |
| `studio_pipeline` | frames and scene changes through hubs, queue and compositor thread; streams toggled while publishers fail late | 4 scene versions, 2 frames; 2 versions, 3 toggles, queue of 1 |
| `studio_parts` | the scene, its list and its file; an element on the canvas | 3 elements; 2 displays; 2 colours, 1 failing save; a canvas of 8 units, a threshold of 2, 3 edits |
| `studio_stale_error` | violation: a queued error of a deleted capture releases the running capture of the screen added again | 1 screen, 3 elements, 3 capturers |

Why the bounds are enough to be interesting: three requests allow a complete, a
retry of it and an abort to overlap (each holding a row read at a different
time); a fourth adds no new pair of conflicting calls. Two parts distinguish a
partial from a full completion. Three assets with two concurrent uploads reach
the upload limit with an asset waiting, with successes and failures in any
order. The constants of the code (`FRAME_QUEUE_DEPTH = 8`,
`MAX_CONCURRENT_HLS_UPLOADS = 3`, `MAX_VERIFIED_HASHES = 10`) are parameters: full and
empty queues are reached with depth 1 or 2. Request slots are interchangeable,
hence the symmetry. Two toolbars and two recordings are what it takes for one to
be taken for the other. Three units and two or three segments have every
relation of two intervals, touching ends included. Two exports in two windows
can meet in one path, two requests beside the one being rendered replace each
other. Rates 2, 3 and 5 do not divide each other, and their remainders come round
within the frames played. Three capturers allow the initial capture and two
overlapping starts of one camera. Four scene versions allow a source to be
removed, added again and edited, with a late callback of the first capture; three
toggles allow a stream to be started, stopped and started again.

Deadlock is not checked where a user may simply stop acting, nor for recordings,
which end; that they always do is `RecorderEnds`, `RecordingEnds` and `StopEnds`.

## Properties

Server: `CompleteHasObject` (a recording marked complete has its object in its
own bucket), `AnsweredIsPublished` (a recording whose URL a client was given is
never removed), `AssembledKeepsRow` (assembled content keeps the row through
which a retry completes it), `StaysInSnapshotBucket` (the sentence of
`apps/blip-server/README.md`: "changing a user's bucket cannot move an
in-progress or existing recording"), `PasswordHasHash` (a hash exactly with
privacy `password`), `ImplementsLifecycle`; `UnlockedCanWatch` (only who may watch
is given a source, the three policies agree, and a browser can watch what it
unlocked last).

Recording: `NeverLost` ("A failed upload leaves the MP4 on disk",
`apps/blip-capture/README.md`), `PublishedIsPlayable`, `EventsAreTrue`,
`RecorderEnds`; `TracksInSync`, `NumbersAreTrue` (of `blip record`),
`RecordingEnds`, `HeadlessIsTrue` (the newest frames are shown, none goes back,
and the reports add up).

Capture application: `NoOrphan` (no recording goes on that no toolbar can stop),
`NothingLeftBehind`, `StopEnds`, `RecordsWhatIsShown`; `PreviewFollowsSelection`,
`StyleSettles`, `InputsBelongToProfile`, `OnlySettingsRemove`,
`OppositeEdgeStays`.

Editor: `TimelineInOrder` (but for drags without room, see Timeline and Editor),
`ZoomsFollowPictures` (the picture under each zoom and
under the playhead is the same before and after an edit of the video track),
`SavedBetweenGestures`; `EditorSettles`, `ExportIsWhole`, `SoundFollowsPicture`,
`CropIsUsable`.

Studio: `CapturesOwned` (nothing records without an owner that can stop it,
nothing waits for a start that is over, the newest of two starts wins),
`CapturesSettle`, and `HealthyIsKept`, which the code violates; `Wakeups`,
`ShownGoesForward`, `ViewerSettles`, `OnlyOwnErrors`; `SceneIsKept`,
`DragsKeepTheRest`.

## Finding

`studio_stale_error`: `add_capture_target` and `replace_selected_capture` give a new
screen capture generation 1, so a screen that is deleted and added again has the
generation of its previous capture. If that one ended and its error is still in
the event channel, `capture_failed` takes it for an error of the new capture and
releases and rebuilds it; if the rebuild fails, the source is left without a
capture. `viewer.rs:4209` (`capture_restart_ignores_stale_generations_and_unused_sources`)
states the intent. Cameras use `next_capture_generation`, which never repeats.

## Where the code differs from its documents

Met while modelling. The models do what the code does; the properties leave these
cases out, and say so where they do.

- `editor.rs:5368`: a crop pressed at the right or bottom border and released
  without a move is narrower than the minimum; dragging its far handle calls
  `clamp` with `min > max` and panics, where `Cargo.toml:174` denies panics
  (`ScreenCrop`, `crashed`).
- `viewer.rs:896`: `drop_scene_item` selects the dragged element also when it was
  deleted with the keyboard during the drag, and saves; `Project::load` refuses
  that file and the next start shows the default scene. `project.rs:101` says of
  a written project `assert!(decoded.is_valid())`. `OnlySelectionRefused` shows
  that nothing but the selection can be refused.
- `viewer.rs:1484`: a press takes the pointer's place clamped to the canvas, a move
  does not clamp it: an element held beside the canvas jumps. The test at
  `viewer.rs:4166` is named `canvas_drag_positions_are_not_clamped_to_canvas_bounds`.
- `viewer.rs:3609`: an arrow key clamps the centre to the canvas; an element dragged
  outside comes back by any distance, not by one pixel
  (`keyboard_nudge_moves_one_canvas_pixel`, `viewer.rs:4158`).
- `main.rs:1034`: Cmd-W during an upload removes the toolbar that would have opened
  and copied the link, which `apps/blip-capture/README.md:13` promises.
- `main.rs:1459`: a capture URL pasted into the server field, as
  `apps/blip-capture/README.md:6` suggests, loses its token to the empty token field.
- `blip-avfoundation/src/lib.rs:629`: audio that comes when the first frame was
  dropped ends the recording with `NoFrames`, an error that the comment at line
  613 does not name.

## Fairness

`UploadServer` states none: all its properties are safety properties, and a
server may stop anywhere. `Recorder` assumes weak fairness of each thread
(`RecorderStep`, `WriterStep`, `WorkerStep`, `CameraWriter`) and of each upload
task: the operating system schedules threads, tokio polls its tasks, and every
wait on the system or the network has a limit in the code (`CAPTURE_TIMEOUT`,
`FINISH_TIMEOUT`, `REQUEST_TIMEOUT`, the camera's 100 ms poll), so a step that
gives up is always possible where one that waits is. No fairness is assumed of
the server, the capturer, AVFoundation or the user.

`CliRecording` assumes weak fairness of its main thread, its writer and the
stream's start; `HeadlessStudio` of its pipeline and of a callback that was
called; `CaptureApp` of each recorder thread and of the main thread's event loop;
`CameraPreview` of the start of the capture, the worker and the drawing of what
it sent; `EditorPreview` of both workers and of the receipt of a result;
`EditorExport` of the receipt of events and of each export thread. They are
threads of the operating system and callbacks of a running event loop, which
nothing in the code holds back; what they wait for is modelled, so an ill-placed
wait would be found. Nothing is assumed of users, devices or the network.

`StudioCaptures` assumes that the executor runs each camera start and its
callback, and that the event loop handles errors. `StudioPipeline` assumes that
the event loop and the compositor thread run and that a callback that was called
finishes; nothing of the publisher, which may hang in a network write, nor of
captures and user. The runs over several parts state the same fairness for the
part that moves.

## Proofs

Eight modules hold theorems, about a component or several that belong together and
for all values of their constants; the assumptions are those named in the
components' modules: sizes are natural numbers, a "no value" constant is not a
value, inputs have the shape that the API's schema accepts. Every inductive
invariant was checked by TLC on an instance at least as large as the run's before it
was proved. A proof has a lemma or a step per action and, below it, a step per
conjunct that the action can disturb.

`UploadServer_proofs` (`SentinelAssumption`, `InputsAssumption`):

- `TypeCorrect`;
- `HandlersConsistent`: `HandlerInv` is invariant. It has three parts.
  `StoreInv` relates a recording's uploads and objects; `RowInv` relates a row
  to the store (a complete row has its object, an uploading one has an open
  upload, an object, or an upload lost to a failed or interrupted handler);
  `RequestInv` says what a handler in flight knows: the row it read may be stale,
  but its bucket and ids cannot have changed, and at the point between the
  store's answer and the row's update the object is there. Without
  `RequestInv` the three safety properties are not inductive: `MarkComplete`
  changes a row because of something the handler saw several steps before;
- `CompleteHasObjectTheorem`, `AnsweredIsPublishedTheorem`,
  `AssembledKeepsRowTheorem`, `StaysInSnapshotBucketTheorem`,
  `PasswordHasHashTheorem`, which follow from it;
- `ServerImplementsLifecycle`: the handlers implement `RecordingLifecycle`. A
  recording's abstract phase, place and content are functions of its row, its
  uploads and its objects (`LifePhase`, `LifePlace`, `LifeContent`). A step that
  touches one recording changes the life of that one (`OneLife`), content is in
  one bucket (`OneBucket`, from `HandlerInv`), and each store or database call is
  then one abstract step of that recording or none of it. `Recorder` uses
  `RecordingLifecycle` as its server; this theorem is what justifies that;
- `SourcesAreGuarded`, that is `UnlockedCanWatch` of the playback API
  (`ViewingAssumption`). `ViewInv` says what a request carries: rows and cookie as
  they were when it began (`Carried`); a browser whose unlocks never overlapped has
  one unlock under way at most, with the cookie it still has (`Single`). A cookie is a
  list of distinct hashes, the newest last, cut at `MAX_VERIFIED_HASHES`; `MovedAgain`
  and `MovedFirst` say where each entry goes when a hash is proved once more or for
  the first time, which is enough to see which are left.

`Recorder_proofs` (`RecorderAssumption`): `RecorderInvariant`, and from it
`RecordingNeverLost`, `PublishedPlays` and `LastEventIsTrue`. `Stages` and
`WorkerStages` say what recorder thread, writer and worker know of each other,
`DiskInv` that media stay on disk until the recorder's last step. `Delivery` is
the heart: every asset of the playlist is in the bucket, in an upload that was not
joined or in the worker's inbox, and the message `Complete` is the last one. So
the worker can ask for publication only when nothing is on the way
(`SessionInv`), however late the server executes the request after the client gave
it up.

`CaptureApp_proofs` (`CaptureAssumption`): `CaptureInvariant`, and from it
`NoRecordingIsOrphaned`, `ToolbarLeavesNothing` and `RecordedIsShown`. `Held`,
`Fields` and `Sender` say who holds registrations, overlays and the stop sender.
`Talks` lists, for each status of the toolbar, the events that can be in the
channel and the phase of the last recording: it is what shows that no `Failed`
reaches a toolbar that is idle, and it holds until a capture is lost (`Quiet`),
because a lost capture reports twice. The module also has the parts of `CaptureParts`:

- `SelectedCameraIsShown` (`CameraAssumption`): the property is inductive, because an
  update of the list moves the index with the camera or closes the preview, and a
  choice that waited in the menu's channel opens the preview of what it selects;
- `RegionIsKept` (`RegionAssumption`): what a drag remembers is tied to the region by
  `DragInv` and `ResizedInv`. A press may be rounded away from the point under the
  pointer, so a region may leave its display by one point with each press; `OnDisplay`
  counts them, and that is why the property bounds the overhang by the presses;
- `ProfilesBelong` and `ProfilesStay` (`ProfilesAssumption`). `GoodList` says of each
  of the three copies that its ids are distinct and below the next one, that its
  selection is in it and each profile is usable; `CopyInv` that the toolbar's copy is
  the file's until a save fails or is made behind it; `NamesInv` that the open menu
  names the profiles of the copy. An import of several links is a recursive function
  of their number: `StepsExist` shows that it is defined by its steps, and
  `ImportKeeps` that each keeps the lists good and the profiles already there.

The proof about profiles needs induction: on the number of links, and for the first
profile with a property; the one about the studio's scene needs it for the largest
id of a file. `Counting` gives it: a set of numbers up to n that has 0,
and with each number below n the next, has them all. It is proved from the library's
theorem that the subsets of a finite set are well-founded, because the library's
induction rules take an operator, which the provers do not instantiate.

`EditorExport_proofs` (`ExportAssumption`): `CompleteExportIsWhole`. The dialog
says "complete" when it receives an event, after the thread that wrote the file
has ended; in between another thread might write to the path. `Alone` says that
two threads write to one path only where two exports clashed, `Answers` that the
answer in the channel is the last event and that its file is settled, `First`
that in the first window a running thread is the window's own. The module also has:

- `DocumentIsSaved` (no assumption), that is
  `SavedBetweenGestures`: each edit saves at once, but for the two gestures that save
  when they end (`Unsaved`);
- `CropHolds` (`CropAssumption`), that is `CropIsUsable`. `ThinAtBorder`: a draft that is
  narrower than the minimum ends at the border. The handles must reach at least as
  far as the minimum, as they do in the dialog (10 points against 0.01 of 760): then
  they cover such a draft, and it is resized or replaced but never moved.

`RecordingParts_proofs` (`RecordingAssumption`): `RecordedNumbersAreTrue`. The
sums hold at every step once the queue is counted in: it has frames only until
`Finish` is sent, one `Finish` afterwards, and that one last if the stream was
stopped before (`QueueHolds`, `Accounts`); `ReasonsMeant` ties each reason to
stop to the thread that sent it. The module also has:

- `TracksStayInSync` (`TracksAssumption`), that is `TracksInSync`. `InTurn`: the
  samples of a track are in the order of capture, from its file through the queue to
  the next callback, though the queue has two tracks and drops what it has no room
  for. `FileKept`: a file's time starts at the first sample in it, and a sample of
  the shared clock is as far in it as it was captured after that. A frame that is
  refused starts the session as well (`Mp4Writer::append`); that does no harm because
  its thread ends (`Open`), so no bundle with such a file is completed. `FirstsKept`
  and `OffsetsKept` tie the manifest's offsets to those first samples.

`HeadlessStudio_proofs` (`HeadlessAssumption`): `ReportedNumbersAreTrue` and the
action property `NoPictureGoesBack`. A callback enters its frame and then makes
one or two counts, between which a report may read the counters; `Accounts` says
that one capture is owed while only that count is left, and so holds throughout.
`Ordered`: what waits is newer than what the pipeline keeps.

`StudioCaptures_proofs` (`StudioAssumption`): `CapturesStayOwned`. The property
is inductive once the generations are brought in: a start has a generation of its
own, below the next one and not above the one its camera waits for
(`Generations`), and a start that succeeded knows the capturer it built
(`StartsBuild`). The module also has the theorems about `StudioParts`:

- `SceneStaysKept` (`SceneAssumption`), that is `SceneIsKept`. `ListInv`: ids are
  distinct and below the next one, and a colour is kept for exactly the colour
  sources in use. `ViewInv`: what the selection, the drags and the pictures, old ones
  included, refer to was given before. `FileInv`: the file is one that the next start
  accepts but for its selection, and its colours are those its elements restore. The
  file can equal the scene after a restart because elements of one source were
  written with one colour (`GoodFile`, `StartIsOk`). That a display is not a colour
  is part of the assumption, as in `SourceId`;
- `DragsStayKept` (`SceneAssumption`, `LayoutAssumption`), that is
  `DragsKeepTheRest`. For the list it rests on `OneMoved`: what is removed at one
  place and put in at another leaves the rest. For the canvas, `BoxInv` says that a
  box is a whole number of what is drawn of it, and `GestureInv` what a gesture knows
  of the element it began on: a move its offset, a resize the box and the drawn part,
  in the ratio that the source has as long as the drag lasts. The proof corrected the
  property: an edge that is snapped to a border which lies nearer to the anchor than
  the least size goes to the least size, not to the pointer (`viewer.rs:3423`). With
  the smallest threshold no pointer is in that place; the run now has a larger one.

`StudioPipeline_proofs` (`PipelineAssumption`):

- `ScreenGoesForward`, that is `ShownGoesForward`. The invariant `FlowInv` orders
  the places in which a picture waits (screen, composition hub, compositor thread,
  render queue, event loop, frame hub): what is in one is no newer than what is in
  those after it (`NotNewer`, `Behind`). It is needed because `ShowFrame` compares
  the new picture only with what is on screen, which was composed several hand-overs
  earlier. `FlowType` states the types without TLC's bounds;
- `StreamsFailAlone`, that is `OnlyOwnErrors`. `StreamInv`: the stream has the
  current generation, later generations were never started, and an error in the
  channel is of a publisher that failed;
- `WakeupsAreKept`: no wake-up is lost or doubled. `MarkInv` says of each mark of a
  hub whether its event has exactly one place in the channel or none, and that a
  frame in the hub is marked or its callback is about to mark it. The places
  replace the count of the property, which is a cardinality. `BoundInv` has the
  types, and counts the callbacks that have yet to enter a frame.

Only model-checked, and why:

- liveness under fairness, which the prover does not reach: `RecorderEnds`,
  `RecordingEnds`, `StopEnds`, `StyleSettles`, `EditorSettles`, `CapturesSettle`,
  `ViewerSettles`, and the part of `HeadlessIsTrue` that says that the newest frame
  is shown;
- what rests on sums over lists: the lengths in `Timeline` (`ZoomsFollowPictures`, the
  playhead) and the positions over segments of `SoundFollowsPicture`;
- `TimelineInOrder`, whose induction goes over the list of segments: splitting,
  merging and clipping build new lists (clipping with `SelectSeq`, a recursive
  definition), and the places of zooms and playhead are the sums above.

## Known gaps in the code that no property covers

Nothing in the repository promises otherwise, so there is nothing to check them
against; the models have these behaviours unless it is said.

Server: an abort whose store call succeeded and whose row deletion failed can
never be finished (`Http.ts:499`); an interrupted create leaves an open multipart
upload (`Http.ts:404`); two unlocks of one browser at once overwrite each other's
cookie (`Http.ts:149`).

Recorder: a detached writer thread can recreate the directory that the cleanup of
a failed recording removed (`recording.rs:176`); a selected camera that delivers
nothing fails the whole bundle (`recording.rs:357`); audio before the first frame
is put on top of itself at the session's start (`blip-avfoundation/src/lib.rs:630`).

Capture application: a lost capture reports a second failure, which a recording
started in between takes for its own (`recording.rs:329`); a display connected
later is not found (`main.rs:3479`, not modelled); two recordings may choose one
path (`main.rs:3279`, not modelled); Cmd-W on an overlay or a preview leaves its
handle (`main.rs:3550`, `main.rs:899`); a menu of cameras sends an index into a list
that may have changed (`main.rs:387`); an open settings window saves over an
import, or into a toolbar that is gone (`main.rs:718`, `main.rs:1606`); a region under
the minimum can be dragged out of its display (`main.rs:2700`); a focused field
steps from the number it shows (`blip-ui/src/lib.rs:257`).

Editor: a bundle opened while no input can be decoded is clipped to nothing, and
the first save keeps that (`editor.rs:476`); a remnant of clipping shorter than 0.01 s
overlaps its neighbour or leaves the range once its edge is dragged (`editor.rs:5654`,
`editor.rs:5572`), and merging the two then leaves zooms and playhead past the end
(`editor.rs:5490`); the last frame of a playback may not
be shown (`editor.rs:1860`); scrolling during playback shows the cursor's picture
(`editor.rs:1931`); edits during playback do not reach its clock and its sound
(`editor.rs:1162`); two windows may export to one path (`editor.rs:6054`); an export
that fails before it writes removes the earlier file (`editor.rs:6077`).

Studio: the first frame of a source that is deleted and added again at once is
dropped (`viewer.rs:2838`), and a late frame of the old capture may be shown
(`viewer.rs:533`); the screen named on the command line is never restarted if its
capture ends while the scene does not use it (`viewer.rs:2657`); a full publisher
queue drops the last picture of a still scene (`rtmp.rs:64`); while the selected
element is not in the picture no click selects another (`viewer.rs:1437`).

## Not modelled

- Drawing, menus, the tray, text fields and window placement of the three
  applications: most of the lines of `editor.rs`, `main.rs` and `viewer.rs`. They
  build views from state that is modelled.
- GPUI and its platform back ends, most of the repository's lines: a
  third-party framework kept in the tree. What the models need of it (handlers run
  one at a time on the main thread, foreground tasks run between them) is in the
  atomicity of their actions.
- The compositor's GPU work and shaders, the Objective-C wrappers of
  ScreenCaptureKit, AVFoundation and CoreAudio beyond what their callers see, the
  decoder, the updater and the widgets.
- Encryption of credentials, Better Auth and its sessions, the web pages, the
  wiring of SQLite, D1 and Cloudflare.
- File formats: JSON, playlists and atomic renames are abstracted to whole values
  and to saves that fail.

## What is left to do

A composition of the studio's captures with its pipeline, so that a frame's
capture and its element are related.
