# A TLA+ verification of declgl-desktop

declgl-desktop runs declarative graphics applications (OCaml through a bridge,
or Elm through an embedded JavaScript engine) on SDL and OpenGL. The program
draws render trees, loads assets on a worker thread, mixes audio on SDL's
audio thread, keeps a key/value store on disk and can be driven remotely. This
directory holds TLA+ models of the parts where threads, callbacks, crashes and
the order of events matter, TLC runs that check them on small instances, and
TLAPS proofs of the most important facts for every instance.

Paths are given relative to `src/`; the sources proper are in `src/src/`, the
documents in `src/docs/`.

## 1. Inventory

### Components, their state and operations

| Component | State | Operations |
| --- | --- | --- |
| Audio engine (`audio/audio_engine`) | slots of decoded buffers, url map, command queue, voices, frame counter, ready flag | open the device, register and unregister buffers, stage and commit batches, drain, apply, mix |
| Asset loader (`resources/asset_loader`) | decode queue, ready queue, stop flag, one worker | enqueue, drain, cancel, stop; the worker's wait, take, process, push |
| Engine: assets (`engine/engine`, registries) | texture and font registries, sounds by url, pending font marks | load and unload commands, draining, shutdown |
| Engine: key/value store | in-memory map, dirty keys, waiting reads, load flags; the file | SaveValue, ReadValue, load, merge, persist |
| Palette pool and walker (`gpu/fbo_pool`, `renderer/renderable_walker`) | framebuffers and their free bits | acquire, release; draw atomic, group, composite, effect |
| Run loop (`runtime/runtime`) | quit, pause, budget, controlled clock, frame number, engine | dispatch, run, one frame, control messages |
| Remote control (`runtime/control_client`) | bounded queue of messages | receive (socket thread), poll |
| Elm host (`elm_host/elm_host`, `player/main`) | timers, held back and queued commands, latest view, waiting data file names and audio requests | port callbacks, timers, frame hooks, answers |
| Headless DOM (`elm_host/headless_dom.js`) | node tree, listeners, focused element | edit the tree, add and remove listeners, focus, dispatch |
| Declarative programs (`renderer/program_base`, `renderer/programs`) | registry, GL programs, vertex arrays, buffers and their caches, the last program bound | register, prepare a call, draw, lay text out |
| GPU program and images (`gpu/program`, `resources/texture`) | GL names | compile, upload, delete |
| Elm adapter, frame capture, decoders, logging, OCaml bridge | none; files; none; none; none | pure or I/O |

### Interactions

* The host (OCaml or Elm) implements `LoopHooks`; the run loop calls it at fixed
  points of a frame. From every such call the host may dispatch commands at once
  or queue them for the next pull.
* The engine answers through event sinks, which call the host, which may send
  further commands before the engine goes on. This happens in the middle of
  dispatching a batch and of finishing a batch of assets.
* The asset loader shares two queues with its worker under one mutex; the audio
  engine shares its command queue with SDL's audio thread under another, and one
  counter with no lock at all.
* A socket thread appends control messages which the loop takes once a frame.
* The loop gives the DOM an event, whose listeners (the application) edit the tree
  that the event is travelling through.
* The walker hands a program its call; the draw leaves state in GL (arrays, textures,
  uniforms, the current program) that the next draw meets.
* The worker writes the key/value file; the next launch reads it.

### What is hard, and what correctness means

* Audio: raw buffer pointers cross threads while the owner may unload. No
  pointer may dangle, each buffer has one owner, a sounding voice stays audible
  although time stamps race, and the ready event ships once.
* Assets: cancellation crosses the job the worker is running; callbacks
  interrupt the drain. Fonts keep the atlas they share, the latest load wins,
  marks are not left behind, loads settle and shutdown returns.
* Store: saves cross the load, writes are torn by crashes. Memory is the merge of
  disk and saves; an orderly shutdown loses nothing; other keys survive.
* Walker: palettes are recycled. The window shows the picture the tree defines,
  nothing leaks and nothing is used after its release, with and without
  exhaustion.
* Run loop: quit, pause and step come from three directions at once. A quit is
  honoured before the view, ticks do not go back, steps end where they should,
  and the loop always ends when asked.
* Elm host: commands are held back and flushed, timers run while timers are
  changed, answers find their requests by order alone.
* DOM: parents and children agree after every edit, also one made by a listener; an
  event visits the path it had when it began, and the listeners on it hear it.
* Programs: GL keeps state between draws and the code caches what it told GL. Each
  draw runs its own program and reads the data of its own call; replaced programs
  give their objects back. Text loses no glyph, and its lines fit.

`PROJECT.json` lists every hazard at its line, with the properties that would
catch it.

## 2. Plan and order

1. `AudioEngine`, `BufferLifetime` (two threads, raw memory). *Done, safety and refinement
   proved.*
2. `AssetLoader`, `JobPipe`, `Assets`. *Done, safety and refinement proved.*
3. `KvStore` on the same loader. *Done, safety proved.*
4. `Picture` and `PaletteWalk`. *Done, safety proved.*
5. `RunLoop` with the control queue. *Done, safety proved.*
6. `ElmHost`. *Timers, commands, data files and sounds done, safety proved.*
7. `DeclPrograms` and `TextLayout`. *Done; binding, ownership and what a draw
   reads proved, text layout model-checked.*
8. `HeadlessDom`. *Tree, listeners, focus and dispatch done, safety proved.*
9. Next: the conversion of SDL events; a second GL context in the
   passing run of `DeclPrograms`, once the code clears its cached binding.
10. Next: pure modules for the mixer's index and timeline arithmetic, the GLSL
   translator's line automaton, the fit rectangle and the screenshot region, each
   against a reference definition.
11. Next, proofs: `KeepsEveryGlyph` and `LinesFit` need the layout pass as a state machine, one
   step per character, instead of the recursive function it is now.

## 3. Modules

| Module | Models | State and actions |
| --- | --- | --- |
| `AudioEngine` | `audio/audio_engine.cc` | `heap`, `buffers`, `byUrl` are the allocator and the tables; `staged`, `cmdQueue`, `local`, `doomed` the way of a command from `exec_audio_cmd` to `drain_commands`; `voices`, `frames` the mixer. One action per function of the GL thread, one per step of the callback |
| `BufferLifetime` | the promise of `audio_engine.h` | a lent resource: load, lend, give back, retire, reclaim |
| `AssetLoader` | `resources/asset_loader.cc` | one action per critical section, the notifications apart |
| `JobPipe` | the promise of `asset_loader.h` | a cancellable pipe of jobs |
| `Assets` | texture, font, sound and file commands of `engine.cc`, the registries | EXTENDS `AssetLoader`; the drained batch is a variable because the application is called between its elements |
| `KvStore` | SaveValue, ReadValue, load, merge, persist | EXTENDS `AssetLoader`; adds the disk, crashes and launches; opening and writing a file are two steps |
| `Picture` | what a tree means | reference definition, without palettes: an image is the list of its layers |
| `PaletteWalk` | `renderable_walker.cc`, `fbo_pool.cc` | a frame is one step: `DrawTo`, a recursive function on trees, follows the calls of `draw_renderable`, `draw_group` and `draw_composite`, with a pool record passed along |
| `RunLoop` | `runtime.cc`, `control_client.cc` | `pc` says where `drive_one_frame` stands; `Hook` is anything a host does in a callback, and stands in every stage in which one of the two hosts is called and does something |
| `ElmHost` | `elm_host.cc` as `main.cc` and the loop drive it | `js` says JavaScript runs; it may call any host function, then return or throw |
| `DeclPrograms` | `program_base`, the registry, every program of `renderer/programs`, the life of GL programs and textures | `registry`, `images`, `fonts` are the engine's tables; `gl` is GL: programs, uniforms, units, vertex arrays; `last` is the binding the code remembers. A row of `Rows` says what one builtin program needs, streams and binds; a draw is one step from `prepare` to the draw call, and `drawn` records what GL read for it |
| `TextLayout` | the layout pass of `textbox_program.cc` | a recursive function on the state of the pass; `DeclPrograms` EXTENDS it |
| `Subsequences` | what `erase_if`, `remove_if` and a copy with a test leave of a list | `Pick(q, I)`, the elements of `q` at the places `I`: `SelectSeq` by places and without recursion, so that it can be reasoned about |
| `HeadlessDom` | `headless_dom.js` as `elm_host.cc` drives it | `tree`, `listeners`, `active` are the DOM's objects; `event` is where the loops of `dispatch` and `callListeners` stand, so that a listener can do anything in between |
| `MC*` | | TLC instances: symmetry, the trees of `PaletteWalk`, the applications, calls and texts of `DeclPrograms`, the listeners of `HeadlessDom` |
| `AudioEngineProofs`, `AssetsProofs`, `KvStoreProofs`, `RunLoopProofs`, `ElmHostProofs`, `HeadlessDomProofs`, `PaletteWalkProofs`, `DeclProgramsProofs` | | the theorems of section 6, each module about the one it is named after |

`PROJECT.json` ("map") names the lines behind each definition.

Main abstractions. Sample data, volumes, pixels and what shaders compute are not
represented; a buffer is an address and a url, an image the list of its layers, a
value the number of the save that wrote it. Decoding, uploading and (where a run
says so) writing may fail at any time. In `AudioEngine` one frame is the unit of
time. In `DeclPrograms` an array is its length and a tag that says whose it is, a
number a tag; GL gives out the lowest free name, as drivers do, so that names are
reused. A text is its characters with their advances. In `PaletteWalk` the walk is a
function, as nothing interrupts it. In `HeadlessDom` there is one type of event, as
others have lists of their own; body stands for the html element too. Control messages
are well formed, except that a `step` whose `dt_ms` is not a number is, for the loop, one
without `dt_ms` (`runtime.cc:292`: it is answered as failed, but queued).

Input is restricted in these ways only:

* no texture is named like a font's image url (`KeyAssumption`);
* the Elm program sends `start` once, after its ports are bound;
* an OCaml or Elm host starts the loop only with a window;
* the calls of application-made programs are those `MCDeclPrograms` lists with their
  sources: complete ones, some that leave fields out, and one whose count is that of its
  indices. Their shaders use at most three mapped uniforms, each mapped once
  (`DynamicsAssumption`);
* the calls of built-in programs are complete ones and those with one field missing, of
  another kind, too short or longer (`Calls`). Any program, built-in or not, is drawn in any
  use the walker has for a name: as a renderable, an effect, a compositor (`MayDraw`);
* the texts of the passing run have a character that no font knows only in boxes that may
  break words;
* in the passing run of `HeadlessDom` a program appends any node, and inserts or replaces
  with a node of another parent, or of none, but not with a sibling (`Moves = FALSE`); a
  listener dispatches no event of its own.

## 4. Runs

### Passing

| Run | Instance | What it shows |
| --- | --- | --- |
| `audio_lifetime` | 2 addresses, 2 urls, 1 group, a queue of 3, batches of 2; time stands still | `NoDanglingBuffer`, `SoleOwner`, `UrlMapSound`, `ReadyExactlyOnce`; refinement of `BufferLifetime` |
| `audio_playback` | 1 buffer, starts ahead of time, chunks of several frames, re-anchoring commands, fair audio thread | `StartedStaysAudible` in every interleaving of the racy stamp; `UnloadIsFreed` |
| `assets_pipeline` | a texture, two fonts that share an image (one with another image too), a sound, a file, three loads, fair threads | `FontsAreBacked`, `LatestLoadWins`; refinement of `JobPipe`; `LoadsSettle`, `ShutdownReturns` |
| `kv_store` | two keys, two saves, one read, two launches, failing disk, re-entry, fair threads | `StoreIsMerge`, `SavesSurviveShutdown` (with the keys that were not saved), `ReadsAreAnswered` |
| `palette_picture` | some 5600 trees, at most three palettes, frame after frame | `ShowsThePicture`, `NothingLeaks` |
| `loop_frames` | every control message, a queue of two, three frames, fair loop | `NoViewAfterQuit`, `TicksNeverGoBack`, `StepsEndOnFrame`, `StepsAreTaken`, `QuitEndsLoop` |
| `host_program` | one path, three kinds of commands (a file, a sound, a program), two commands, two timers or animation frames, fair host | `StartThenInOrder`, `AnswersFindTheirRequest`, `FramesRunNextFrame`, `TimersFire`, `RequestsAreAnswered` |
| `programs_draw` | a built-in program of every form, each beside `palette`, and four sources for run-time programs, one under a built-in's name; every program in every use; two images, two palettes, two fonts, one context; some 5000 text boxes | `RunsItsOwnProgram`, `ReadsItsCall`, `OwnsGlObjects` after every draw, creation, load and unload; `KeepsEveryGlyph`, `LinesFit` for every box |
| `dom_events` | body, root, canvas, a text, a fragment; one callback in both phases; two edits at any moment | `TreeIsSound`, `EventsFollowThePath`, `ListenersHearEvents` |

Symmetry is used in `audio_lifetime` and, of the palettes, in `programs_draw`, where no
liveness is checked. Two built-in programs have one form when their rows differ in the names
of fields and the least lengths only (`Form`); the theorems of section 6 are about every row.
Safety and liveness are checked in one run where the instance is small enough for both.
The specification with fairness allows every finite behaviour of the one without, so
nothing is lost for the safety part.

### Why these bounds

Each cfg bounds what grows without limit: numbers of loads, saves, launches,
timers, commands, frames and ticks, and the length of queues (`Max*`, `QueueCap`,
`Cap`). Their values are the smallest at which the interesting situations occur
and at which each mutant of `PROJECT.json` is caught: two urls and a reused
slot; a font's reload while its sibling is loaded; three jobs so that one is
queued, one running and one finished; two saves and a load; a queue of two so
that a third message pushes one out; palettes few enough to be recycled and to
run out; another program beside each, so that a draw meets what another left behind; two
edits, so that one happens before an event and one within it. The proofs of section 6 remove
the bounds for the safety properties they are about.

Three modules turn deadlock checking off: in `KvStore` nothing is left to do after the last
launch has ended, in `DeclPrograms` after the last context has gone, and in `HeadlessDom`
after a listener has thrown, which ends the program.

### Fairness

Fairness is assumed of the program's own threads and never of the application,
the user, the remote control or the disk. SDL calls back on an open stream
(`AudioEngine`). The worker runs whenever it is awake, and the main thread
continues what it has begun (weak fairness). The frame loop drains although the
application sends commands all the time (strong fairness of `DrainBegin`,
`DrainOne` and `Answer`: each frame ends in a drain, however many commands came
between). In `RunLoop` the loop keeps executing once entered. In `ElmHost`
JavaScript calls return, because a call that never returns stops any host.

### Where the code and its comments or documents differ

Each of these three runs checks one claim of the repository, quoted in the finding of
`PROJECT.json`, and TLC shows how the code breaks it.

| Run | Claim | What happens |
| --- | --- | --- |
| `audio_earlystart` | a future start is not heard before its frame | a volume ramp overwrites the anchor that held it back |
| `assets_unload` | after UnloadTexture no `texture_loaded` ships | the running job, and what has been drained, is not cancelled |
| `palette_exhausted` | an effect produces a fresh palette | when none is left it returns its source, which the caller releases |

Modelling met more of them. They are smaller or rest on a weaker statement, and are
not among the runs of `PROJECT.json`. Each is an operator at the end of its module
("Claims of the comments that the code does not keep"), and
`tlc -config <cfg> <MC module>` prints its counterexample; the two configurations that
end in `_claims` list several, of which TLC reports the first it finds broken.

| Configuration | Claim | What happens |
| --- | --- | --- |
| `AudioEngine_claims` | buffer ids are monotonic (`audio/audio_engine.h:85`) | vacated slots are reused |
| `AudioEngine_claims` | unregister is the inverse of register (`audio/audio_engine.h:90`) | the same url loaded twice leaves the first buffer behind |
| `Assets_stop` | queued jobs are dropped at shutdown (`resources/asset_loader.h:44`) | the worker empties the queue first |
| `KvStore_nextlaunch` | the next launch is given what was saved (`docs/ElmRuntimeDesign.md:44`) | a save that waits for the load is lost when the loop ends first |
| `KvStore_apart` | applications' stores do not collide (`engine/engine.h:149`) | a save before StartRegl loads the default store and keeps its values |
| `KvStore_reentry` | the loop may be entered again (`caml_bridge/declgl_caml.cc:176`) | the load it lost is never repeated, reads wait for ever |
| `RunLoop_claims` | pause freezes updates (`runtime/runtime.cc:628`) | not while a step's budget lasts |
| `RunLoop_claims` | audio is stamped on the clock of the ticks (`runtime/runtime.cc:209`) | not under a controlled clock |
| `RunLoop_claims` | the audio sink is wired (`runtime/loop_hooks.h:97`) | not for the second AudioEngine |
| `ElmHost_viewfirst` | commands are applied before the view (`docs/ElmRuntimeDesign.md:382`) | not those sent from a synchronous answer |
| `ElmHost_order` | timers are in a priority queue (`docs/ElmRuntimeDesign.md:239`) | they run in order of creation |
| `ElmHost_clear` | a cleared timer is cancelled (`docs/ElmRuntimeDesign.md:233`) | not within a batch that is being called |
| `DeclPrograms_restart` | a draw runs its own program (`renderer/program_base.cc:144`), also in a later GL context | the binding remembered from the old context hides that nothing is bound |
| `DeclPrograms_misuse` | a draw whose texture is missing is skipped (`renderer/program_base.h:306`) | a built-in effect, a compositor or `palette` drawn as a renderable is passed no texture (`renderable_walker.cc:133-140`), draws all the same (`crt_program.cc:14-17`) and samples what an earlier draw left |
| `DeclPrograms_residue` | the same, of a program created at run time | a call that leaves out a texture is drawn with the one of an earlier call (`dynamic_program.cc:270-275`) |
| `DeclPrograms_width` | the count of an indexed call counts indices (`renderer/program_base.h:57`) | widths of attributes are inferred from it as if it counted vertices |
| `DeclPrograms_lostglyph` | a word moves to the next line with all its glyphs | characters without a glyph are counted too, and glyphs of the line before go missing or move along (`textbox_program.cc:344`) |
| `HeadlessDom_moves` | the tree is a DOM tree (`docs/ElmRuntimeDesign.md:219`) | a child replaced by a sibling: the index is taken before the sibling leaves its old place, so another child is overwritten |
| `HeadlessDom_immediate` | after stopImmediatePropagation no listener is called (`headless_dom.js:68`) | the flag is cleared before that line reads it, so the target's bubble listeners still hear the event |

## 5. Mutants

Every property of a passing run has a mutant in `PROJECT.json`: a small change of
a mapped definition, written beside it (`..._Kept`, `..._OffByOne`, ...), that a
plausible mistake would make and that TLC then finds.

## 6. Proofs

Every safety property that a passing run checks of the first seven modules below, and the
three of `DeclPrograms` that are about draws, are proved for all values of their constants,
from the named assumptions that the module declares (TLC evaluates them in every run) and
from nothing else except where a hypothesis is named.
`PROJECT.json` lists the theorems. The specification in them has no fairness, so they hold
for the one with fairness as well.

| Module | Theorems | Assumptions |
| --- | --- | --- |
| `AudioEngineProofs` | `TypeCorrect`, `BuffersNeverDangle`, `BuffersHaveOneOwner`, `UrlMapStaysSound`, `StartedVoicesStayAudible`, `ReadyIsHeardOnce`, refinement `MixerImplementsLifetime` | `NullAssumption`, `NoUrlAssumption`, `InputAssumption`, `BoundAssumption`, `SilentAssumption` |
| `AssetsProofs` | `TypeCorrect`, `FontsKeepTheirAtlas`, `LatestLoadStays`, refinement `QueuesArePipe` | `KeyAssumption`, `NoneAssumption`, `LoadAssumption`, `FontAssumption`, `JobAssumption` |
| `KvStoreProofs` | `TypeCorrect`, `StoreStaysMerge`, `ShutdownKeepsSaves` | `FlagAssumption`, `CountAssumption`, `DataAssumption` |
| `RunLoopProofs` | `TypeCorrect`, `StepsEndAtTheirFrame`, `QuitBeforeView`, `TicksGoForward` | `RunLoopAssumption` |
| `ElmHostProofs` | `TypeCorrect`, `EngineSeesCommandsInOrder`, `AnswersAreNotMixed`, `FramesWaitForTheNextFrame` | `ElmHostAssumption` |
| `HeadlessDomProofs` | `TreeStaysSound`, `EventsKeepToThePath`, `EveryListenerIsCalled` | `NodeAssumption`, `ListenerAssumption`, `EditAssumption`, and the hypothesis `Moves = FALSE` |
| `PaletteWalkProofs` | `WalkShowsThePicture`, `WalkLeaksNothing` | `TreeAssumption`, `CameraAssumption`, `NoneAssumption`, `PoolAssumption`, `RenderedAssumption` |
| `DeclProgramsProofs` | `DrawsRunTheirOwnProgram`, `ObjectsAreOwned`, `CallsAreRead` | `DynamicsAssumption`, `AppsAssumption`, `TextsAssumption`, and the hypothesis `MaxContexts = 1` |

Most of the assumptions only keep markers (`None`, `NoJob`, `Silent`) apart from data and
bounds natural. Those that say something of the program are `KeyAssumption` (no texture
is named like a font's image), `ListenerAssumption` (a listener stands once in a list),
`TreeAssumption` (a tree is finite: `Level[d]` holds trees of depth `d` at most, whatever
their number, width and programs) and `PoolAssumption` (`0 < Seed <= Cap`: a pool without
palettes takes another path, `renderable_walker.cc:62-87`, which is not modelled).
`Moves = FALSE` is the restriction of section 3: with it removed, `HeadlessDom_moves` shows
how `replaceChild` by a sibling breaks the tree. `MaxContexts = 1` is needed as well: in a
second GL context the binding remembered from the first is wrong (`DeclPrograms_restart`).
`CallsAreRead` is about every program in every use, with any calls. What it says depends on
the draw, not on the application: the textures, numbers and arrays that a call gives are read
in every draw; that no other texture is sampled holds where the draw passes a built-in program
the framebuffer textures of its row (`IsFed`), or sets all textures that any call of its
run-time program sets (`SetsAllTextures`); that an attribute has the width of its shader and
enough vertices, where the call counts vertices (`CountsVertices`). The built-in programs need
the condition too: `prepare` refuses a call without its images, but draws without its
framebuffer textures. `DeclPrograms_misuse`, `DeclPrograms_residue` and `DeclPrograms_width`
show what happens where a condition fails. Of the text box `ReadsItsCall` says nothing.
`DynamicsAssumption` bounds the textures that the shaders of a run-time program use by the
three units modelled and maps each uniform once, and `TextsAssumption` says that the layout of
a text ends.

Each proof has one lemma per action of the module, or per family of actions that touch the
same part, and below it one step per conjunct that the action can disturb. Type invariants
are proved in parts (members, queues, flags), as a step seldom touches more than one.

### The inductive invariants

**AudioEngine**, `IInv == TypeOK /\ Quiet /\ SoleOwner /\ Borrowing`. That a voice's buffer
is allocated when the drained commands are destroyed depends on *who* may still borrow a
retired buffer: only voices and starts that come before its release. `Quiet` says what is
empty when a thread is idle. `SoleOwner` gives each allocated buffer one owner. `Borrowing`
says that a staged start borrows from a slot, or from a release that is queued no earlier
than where the start will go, that every start in a queue precedes the release of its
buffer, and that a buffer whose release was applied is borrowed by no voice. It is
preserved because releases and batches are appended to one FIFO queue, because a vacated
slot can no longer be staged, and because applying a release tears down the voices.
`StartedStaysAudible` (stamps in every queue lie at or before `frames`), `UrlMapSound`
(urls lead to slots of that url) and `ReadyExactlyOnce` (`ShippedIsDue`: the event is
marked as shipped exactly while the device is open and the sink wired) have invariants of
their own. For the refinement of
`BufferLifetime` each action maps to a step (register to Load, stage to Lend, unregister to
Retire, the end of the drain to Reclaim, a dropped voice to GiveBack, destruction to
Close) or to a stutter.

**AssetLoader.** `LoaderInv(S)`, types and the control of the worker, is a lemma schema: it
is preserved by each step of the loader for every set `S` of jobs that the jobs sent belong
to. Its lemmas stand at the beginning of `AssetsProofs` and, those that are needed, of
`KvStoreProofs`: each component has a loader of its own. `Assets` uses it with the jobs its commands make, `KvStore` with all jobs, and once
more with the load alone or with saves alone.

**Assets.** What has been drained and not yet finished, followed by the ready queue, the
running job and the decode queue, is one sequence, `InFlight`. Every step appends to it,
takes its first element, keeps a subsequence (a cancellation), or empties it (shutdown);
that is also the refinement of `JobPipe`. The invariant says of it that loads are in the
order of their numbers and unanswered (`InOrder`, `Unanswered`), that whatever is
registered is older than all of it (`RegisteredIsOld`), that every pending font mark has a
load in it (`MarksHaveLoads`) and that nothing waits for a worker that has gone
(`NoneAbandoned`). `FontsAreBacked` and `LatestLoadWins` follow.

**KvStore.** `BeforeLoad` and `AfterLoad` split at the merge. Before it the loader holds at
most the load, the disk is what it was at launch, and memory holds the dirty keys only.
After it the loader holds only saves, each of which keeps every key of the file, and the
newest of what is queued, running or on disk (`Newest`) is the store, unless a write
failed. With nothing queued and no job running, `Newest` is the disk, which is
`SavesSurviveShutdown`.

**RunLoop.** `StepsLeft` says the goal of a step is always as far away as its budget and
the loop is paused until then. `QuitKnown` says an asked-for quit is known to the loop or
queued in the host, and known to neither once the view is rendered. `ClockAhead` relates
the last tick to the clock the next one will read, which a step may exchange.

**ElmHost.** `CommandsInOrder` gives each command its place in applied, batch, queue or
held-back list by its number. `RequestsWait` says that the list of requests waiting at a
path consists of those still in hand, in the order they were made, so the first one is the
one an answer is for. `FramesAreNew` dates every animation frame on the list.

**HeadlessDom.** `TreeInv` adds to the two directions of the tree that it is rooted: there
are depths that grow from parent to child. Only then does a walk up end, and what
`Ancestors` computes is known. The edits keep it because a node is never put below itself. The
dispatch has the invariant `Dispatching`: the visits are those planned when the event
began (`Planned`, from the tree of that moment), each call heard matches one of the visits
made so far and calls stand in their order (`CallsInOrder`), none was made twice
(`CallsOnce`), and a listener kept since the beginning has been called in the visits made,
or is waiting in the present one, unless someone stopped the event (`CallsAll`). One lemma
about `Visits` (down, the target twice, up) then gives both properties.

**PaletteWalk.** Between frames nothing more is needed than the two properties themselves,
`IInv == NothingLeaks /\ ShowsThePicture`: `free_all`, and clearing what is acquired, make
a frame independent of the one before. All the work is in the frame. `Did(p, prev, below,
w, picture)` says what a call of the walker that was given the pool `p` and the palette
`prev` has done when it returns `w`: palettes are taken only if they were before, or it returns
them; and unless an acquisition was denied these are exactly the ones taken, it left the
pixels of the others alone, touched no free palette, and the returned one shows `picture`
where `prev` showed `below`. Acquire, release, the effects, the composition and
the atomics each keep `Did` (one lemma each), and `ThenDid` chains two calls. The loops over
children and effects are run side by side with those of `Picture` (`RoundsTogether`), and
the levels of trees one after the other (`EveryLevel`). What makes it go through is the
passage of a palette to a nested group: only a group without effects may inherit
(`MayInherit`), and then its picture is painted on what the palette already shows, which is
why `PaintTree` takes what is below as an argument.

**DeclPrograms.** `Inv` says of the registry and the context that each registered object
names a GL program built from its source, that two objects have different names, and that
GL holds no other program but a replaced one that is still current (`Agree`). `Binding` is
the heart of `RunsItsOwnProgram`: as long as the context lives, the name the process remembers
is the current one. A name given out again could mean another program than the one bound, but
GL keeps a deleted program that is current, so its name is not free; that is why the invariant
has to speak of `doomed`. `Owns` and `Points`
are the two halves of `OwnsGlObjects`: the buffers that exist, and what attributes point into.
`Points` survives a draw because the streamed arrays are laid out one after the other: offsets
are running sums, so no array writes over the beginning of another (`OffsetFacts`,
`WrittenFacts`), and an array that is not streamed is static. `Sampled` and `Lit` are the
types of samplers and units: textures take the units 0, 1, ... in the order of the samplers
(`UnitFacts`). That whatever `prepare` returns fits this is a lemma for each kind of program
(`BuiltinSound`, `TextSound`, `DynamicSound`).

`ReadsItsCall` says that what a call gives is what its draw reads, though a program keeps its
uniforms and a unit its texture from draw to draw. Two facts carry it. One is about the
present: a call tells its program every texture and number it gives, and two samplers of one
call never share a unit unless they name one texture (`UnitsDiffer`), so that each reads its
own (`BuiltinTextures`, `BuiltinReadsValues`, `DynamicSamples`, `DynamicReadsNumbers`). The
other is about the past and gives the part that says *nothing else*: `Told` says which
samplers and uniforms a GL program can ever have been told, those of its row, or those that
some call of its source sets. A built-in program is told every number each time, because
`prepare` puts a default for a missing one, and every texture when it is passed those of its
row (`BuiltinSamples`); a run-time program, when its call sets all of them. For arrays nothing
is kept: each draw points its attributes anew, an array read from the buffer is the one written
there (`ArraysRead`), and it has as many vertices as the call counts, or as its indices need
(`BuiltinReadsArrays`, `CountedFacts`, `DynamicReadsArrays`).

### How recursion and induction are avoided

The provers cannot instantiate an induction theorem with a predicate. Where an induction is
needed (the positions that `Pick` enumerates, the nodes on the way up, the children of a
fragment put one by one, the rounds of a loop, the levels of a tree) the proof takes the least counterexample in a set of numbers
(`SmallestOf`, from the well-ordering of the naturals) or the topmost one in a set of nodes.
Recursive definitions are functions, shown to exist first. The lemmas about `SmallestOf` and
`Pick` stand at the beginning of each module that needs them.

### What is only model-checked

* Liveness, which needs `ENABLED` and fairness: `UnloadIsFreed`, `LoadsSettle`,
  `ShutdownReturns`, `ReadsAreAnswered`, `StepsAreTaken`, `QuitEndsLoop`, `TimersFire`,
  `RequestsAreAnswered`.
* `KeepsEveryGlyph` and `LinesFit`: inductions over the characters of a text.

Not proved because it does not hold: that a draw samples no texture but those of its call
(`SamplesOnlyItsCall`, broken by `DeclPrograms_misuse` and `DeclPrograms_residue`), and
`RunsItsOwnProgram` in a second GL context (`DeclPrograms_restart`).

## 7. Not modelled

* Decoders (audio, images, fonts): pure conversions, third-party code.
* The Elm adapter: field-by-field conversion without state.
* Shaders, the GLSL translator and the arithmetic on vertices (camera, quads, glyph
  quads): data to the model; the translator is planned as a pure module.
* Attributes and styles of DOM elements, `preventDefault`, nested dispatch.
* Frame capture and logging: output only.
* The marshalling of the OCaml bridge: its calls are the host of `RunLoop`.
* `get_state`, `get_render_tree` and the answers to control messages: they read only.
* The answers to malformed control messages, and JavaScript reference counts.
