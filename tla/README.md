# TLA+ models of the Cube Trains level engine

This directory holds TLA+ models of the level simulation engine in
`src/src/level.cpp`, together with the TLC configurations that check them.
The models cover the per-tick activation and processing of entities, the
snapshot/rollback manager, the sparse solidity grid and the tile edits that
rebuild parts of it, the entity collision queries, the drawing order, and
the portals and respawns of the old driver's `play_level` loop. `PROJECT.json` is the machine-readable index of the
project. It lists:

- the components and how far each is modelled;
- every TLC run and what it checks;
- the mutants that show each property can fail;
- the source lines each definition translates;
- the findings;
- the hazards of the code.

## The system

`class level` (level.cpp) owns all simulation state.

- **Entity containers.** The containers are `chars_` (all live entities), `chars_by_label_`
  (label index), `groups_` (per-group lists used for activation),
  `active_chars_` (rebuilt every tick) and `items_`.
- **One tick.** The runner calls `backup()` and then `process()`, which reads the controls and
  calls `do_processing()`. `do_processing` does the following, in order:
  - it increments `cycle_`;
  - it decides for every entity whether it is active. An active grouped entity activates its whole `groups_` entry. An inactive `dies_on_inactive` entity is nulled out of `chars_`;
  - it compacts `chars_`;
  - it sorts and deduplicates `active_chars_`;
  - it runs the items loop, which reports and nulls destroyed items;
  - it processes every active entity, removing the destroyed ones from `chars_`, the label index and their group.
- **Rollback.** `backup()` deep-copies every live entity with the RNG seed and cycle into
  `backups_`, which is trimmed by 100 once it holds more than 300 snapshots.
  `replay_from_cycle(n)` restores the snapshot of cycle `n`
  (`restore_from_backup`), drops the later snapshots and re-runs
  `backup(); do_processing();` up to the old cycle. The caller, a multiplayer
  layer outside this repository, must supply the same controls.
- **Solidity.** `solid_` and `standable_` map a tile position to
  `solid_info {all_solid, bitmap, friction, traction, damage}`.
  - The point query is `is_solid`.
  - The writers are `set_solid`, `add_solid_rect` (with a tile-aligned fast path), `add_tile_solid` and `set_solid_area`.
  - Tile edits (`add_tile_rect` + `refresh_tile_rect`, `clear_tile_rect`, `flip_variations`) go through `rebuild_tiles_rect`. It erases the map entries of a rect and re-adds the solids of the tiles whose top-left corner lies in the rect.
  - `get_solid_contiguous_region` flood-fills the solid tiles connected to a seed pixel.
- **Queries.** Entities ask the level, while they are processed, for the entity at a point or in a rect (`collide`), a vehicle to board (`board`) and a surface to stand on (`standable`). `collide` scans `chars_`; `board` and `standable` scan `active_chars_`.
- **Animation frames** (`frame.cpp`). An entity's current frame is a strip of `nframes_` images in a texture. Each image shows for `duration` cycles, optionally ping-pongs (`reverse`) or plays backwards. `frame_number(time)` picks the image for the entity's time in the frame. `build_alpha` precomputes a transparency mask of all images side by side, and `is_alpha` reads it for a pixel, so an entity's collision body is the opaque part of the image showing. `hit` and `get_event` look up the hit frames and the timed events parsed from the frame's `events` attribute.
- **Drawing.** `draw` walks `layers_` (the zorders of tiles, props and entities) in ascending order. Before each layer it draws the water plane once the layer is above it, and then the entities of `chars_` whose zorder is at most the layer. Between the negative and the other layers it draws items, players and the fluid. In the editor it draws a copy of `chars_` sorted by `sort_entity_drawing_pos`.
- **Portals and respawn** (`level.cpp`, `src/main.cpp`). A level has an edge portal on each side whose file names `previous_level` or `next_level`, and the doors of its `portal` children. A script may force a portal with `force_enter_portal`. Every iteration of the old driver's `play_level` first replaces a dead player by the save condition in a freshly loaded level. It then asks `get_portal`, which returns the forced portal, else an edge the body is past, else the first door the body overlaps that is automatic or entered. A portal loads its `level_dest` and puts the player at `dest`, or at the new level's own player when `dest_starting_pos` is set.
- **Speech dialog.** Entity scripts open a conversation box and fill it (`set_text`, `set_options`, speakers). The game calls `process()` every frame, which types a character, scrolls the portrait and reads the joystick. It hands key events to `key_press()`, which finishes typing, pages, or moves and confirms the option cursor. A true return from either ends the dialog.
- **Camera** (`draw_scene.cpp`). The driver keeps one `screen_position`, `last_draw_position()`. It resets it and calls `set_scene_title` whenever it loads a level, and passes it to `draw_scene` every frame. `draw_scene` works in hundredths of a pixel:
  - it clamps the focus's feet to the level's boundaries less half a screen;
  - it moves `pos.x` a thirtieth and `pos.y` a tenth of the way to that target, with C++ truncating division;
  - it eases `vertical_look` towards the look key or back to zero;
  - it counts the status-bar coin counter up to the player's coins;
  - it counts the title down from 50 frames.

## Modules

| Module | Models | State (code) | Actions (code) |
|---|---|---|---|
| `Level` | entity activation, containers, rollback | `cycle` (`cycle_`), `seed` (rng seed), `chars` (`chars_`), `st` (per-object x, group, items the player destroyed), `groups` (`groups_`), `byLabel` (`chars_by_label_`), `active` (`active_chars_`), `items` (`items_`), `backups` (`backups_`), `fatal` (an ASSERT of `replay_from_cycle` or the first `assert` of `set_character_group` fired) | `Init` (the driver's level entry: `load_character` for the file, then `add_player` with the arriving player, whose records of destroyed items and objects are chosen freely), `Tick` (runner: `backup` + `process` → `do_processing`), `ReplayFromCycle` (`replay_from_cycle`, with `restore_from_backup` and the replay loop inside), `AddCharacter`, `RemoveCharacter`, `SetCharacterGroup`; the script lookups `get_entity_by_label` and `get_all_labels` are operators |
| `LevelClock` | the abstract promise of rollback | `cycle`, `world` | `Advance`: the world changes only with the cycle |
| `LevelMC` | small levels for TLC | | |
| `SolidGrid` | solidity maps and tile edits | `solid`, `standable` (the two maps, tile position → `[all, bits]`), `tmap` (`tile_maps_`: tile of every cell of every layer), `edits`, `last` (history of the last edit, for properties) | `FlipVariations`, `AddTileRect` (brush + refresh), `ClearTileRect` (+ refresh), `SetSolidArea` |
| `SolidGridMC` | tile kinds and windows for TLC | | |
| `CollisionQuery` | `collide` (both overloads), `board`, `standable`'s entity part, during the processing loop; composes `Frame` (`Fr`) for animated bodies | `chars`, `active`, `pc` (index of the entity being processed), `destroyed`, `ticks`, `frame` (`current_frame()` of animated entities, by name; `FrameDef` gives the frame record), `time` (their `time_in_frame_`) | `BeginTick` (activation, order left open), `ProcessEntity` (one loop iteration with its removal), `EndTick`, `AddCharacter`, `RemoveCharacter` |
| `Frame` | `frame_number`, `duration`, `hit`, `get_rect_in_frame_number`, `build_alpha`, `is_alpha`, the `events` parse and `get_event` | none: a frame is immutable, so every operation is an operator over a frame record and a time; `StripWalked` and `MaskAgrees` relate one frame to reference definitions over all times; `hit`, the `events` parse and `get_event` are modelled but no property is about them | none |
| `TextureImage` | the image half of `texture::initialize`: `next_power_of_2`, the padded surface, `add_alpha_channel_to_surface`, the ARGB and blit branches, `set_alpha_for_transparent_colors_in_rgba_surface`, the `alpha_map_` loop; `is_alpha` | none: a texture is built once from its sheet, so these are operators over a sheet record `[w, h, fmt, pix]`; `AlphaMapExact` checks one sheet | none |
| `CollisionQueryMC` | five entities with one-dimensional bodies; the spikes animated | | |
| `DrawOrder` | `draw`, `draw_layer`, `sort_entity_drawing_pos` | `chars`, `layers` (`layers_`), `frame` (the draw calls of the last draw), `scene` (what that draw saw) | `Draw` (whole `draw`, editor or play), `AddCharacter`, `RemoveCharacter`, `AddProp` |
| `DrawOrderMC` | four entities and a player on five layers | | |
| `KeyReplay` | key-frame recording and replay of `play_level` (`src/main.cpp`) | `mode`, `cycle`, `keyRecord` (`key_record`), `pos` (`key_record_pos`), `pkeys` (the player's key state), `inputs` (key states `process()` saw), `recorded` (those of the recording) | `RecordCycle`, `StartReplay` (`write_key_frames` → `read_key_frames`), `ReplayCycle`: one loop iteration each |
| `Portal` | `get_portal`, `force_enter_portal`, the edge portals, and the respawn and transition at the head of `play_level` | `lvl` (the level `lvl` holds), `px` (the player's x), `alive` (`hitpoints() > 0`), `entered` (`entered_portal_` while `entered_portal_active_`), `taken` (history: the portal the last iteration took) | `Iterate` (respawn, `get_portal` and the transition, then `process()`: a step, a death and a forced portal, any of them in the same cycle), `LoadStart` (a new run of the program) |
| `PlayLevel` | the `play_level` loop: `KeyReplay` and `Portal` composed | the variables of both | `RecordIteration` (`RecordCycle` ∧ `Iterate`), `NewRun` (`StartReplay` ∧ `LoadStart`), `ReplayIteration` (`ReplayCycle` ∧ `Iterate`, without `process()` when the last key frame returns early) |
| `PlayLevelMC` | two key states, two levels joined by their edges, a door, a forced portal | | |
| `Texture` | GL ids of `texture::get_id` on the graphics thread and a worker | `glid` (`ID::id`), `surf` (`ID::s`), `uploads`, `avail` (`avail_textures`), `buf`/`bufPos` (`texture_buf`, `texture_buf_pos`), `toBuild` (`id_to_build_`), per-thread `pc`, `cur`, `r`, `lp` | `GetId`, `ReadAvail`, `PopAvail`, `ReadBuf`, `IncBuf`, `SetId`, `Build` (the steps of `get_id`), `BuildFromWorkers`, `Destroy` (`ID::destroy`) |
| `TextureMC` | two threads, three images, a two-id buffer | | |
| `SpeechDialog` | the conversation box of `speech_dialog.cpp` | `cycle` (`cycle_`), `leftSpeaking`, `hpos` (`horizontal_position_`), `textChar` (`text_char_`), `sel` (`option_selected_`), `joyButton`/`joyUp`/`joyDown` (`joystick_*_pressed_`), `text`, `options`, `left`, `right`, `closed` (which call returned true), `said`/`seen` (history: the text given and the lines `draw()` showed in full) | `SetText`, `SetOptions`, `SetSpeaker`, `SetSpeakerAndFlipSide`, `SetSide`, `KeyPress` (`key_press`), `Process` (`process`) |
| `SpeechDialogMC` | three lines, three options, one speaker | | |
| `Camera` | `draw_scene` and the driver's reset of `last_draw_position` | `posX`/`posY` (`pos.x`, `pos.y`), `vlook` (`pos.vertical_look`), `init` (`pos.init`), `coins` (`pos.coins`), `titleRemaining`/`titleTex` (`title_display_remaining`, the title textures), the world the frame reads: `player`, `fx`/`fy` (the focus's feet), `lookUp`/`lookDown`, `dialog` (`message_dialog::get()`), `coinCount` | `DrawScene` (`draw_scene`), `LoadLevel` (`last_draw_position() = screen_position()` + `set_scene_title`), and the game between frames: `Move`, `Look`, `Dialog`, `Collect` |
| `CameraMC` | a 20×36 view over a 22×40 level | | |

How the state is abstracted:

- **Object identity.** An entity object is a reference `<<entity, epoch>>`.
  - `restore_from_backup` makes the snapshot's copies live. The model gives them the next epoch.
  - A pointer that `groups_` still holds to a pre-restore object is therefore a different reference from the live copy. `st` keeps the state of every reference, stale ones included.
- **The rollback loop.** The level state is also handled as a record (`Cur`/`SetLevel`), so that `ReplayFromCycle` can run `DoProcessing` repeatedly through the recursive `ReplayLoop`. One `ReplayFromCycle` step is the whole function.
- **Level entry.** The file's human `FilePlayer` is replaced on entry by `Player`, a different object, as `play_level` does at a portal or a respawn. The record of destroyed objects ranges over `Destroyable`, the entities whose `respawn()` is false.
- **Entities.** Entities move on one axis with a fixed velocity per entity; the player moves by the recorded control of the cycle.
  - Leaving `MinX..MaxX` destroys a non-player entity.
  - Activation uses the code's gap test `(p.x < x ? x - p.x : p.x - x2) < distance` on x only.
  - The y test, entity behaviour scripts and `map_entities` are not modelled.
- **Solidity grid.** `T` is `TileSize`, and the code's literal `32` in the negative fix-ups is read as `T`.
  - C++ `/` and `%` truncate toward zero (`CDiv`, `CMod`); the properties compare against TLA+ floor `\div` and `%`.
  - Friction, traction and damage are left out.
  - Tile objects are one tile large and face right.
  - `build_tiles` and `point_in_rect` are outside the repository. They are taken to select tiles whose top-left corner lies in `[x, x2) × [y, y2)`.
  - The flood fill is the least fixpoint of one-step growth over solid neighbour tiles (`Grow`), from the base tile the code computes.
- **Queries.** Geometry is one-dimensional: an entity's body, hit rect and standable surface are sets of points. Which entities are active, and in which order, is left open; the activation rule is checked in `Level`.
- **Frames.** Texture coordinates are kept in whole texels: `get_rect_in_frame_number`'s fractions of the texture size, multiplied back. `build_alpha`'s sampled texel `(width-1)*u` is computed exactly, without float rounding. The texel read is `texture::is_alpha` of the alpha map `TextureImage` builds from the frame's sheet. `width()` is taken as the image width times `scale_` (frame.hpp is not in the repository). An animated entity's time advances by one each time it is processed; what its `end_anim` handler does is outside the repository, and 2 ticks stay below every duration. Its collision body is its image's row 0 at its x, facing as the constant says.
- **Speech dialog.** A text line is a model value with a length. `draw()` is reduced to which of the first two lines it shows in full. `expiration_` keeps the constructor's -1, because nothing in the repository sets it. A key event is one of: up, down, a confirm key, another key, or a non-key event.
- **Camera.** `CDiv` is C++'s truncating `/`, `ISqrt` is `int(std::sqrt)`. The screen size, the boundaries and `auto_move_camera` are constants. The focus is the player, and the game changes one thing of what a frame reads per step.
- **Drawing.** `draw_layer` is one call per layer: culling against the view rect is output only. `std::sort` may give any order of entities with equal keys. `*layers_.end()` is undefined behaviour; the model lets it read the set's size (what libstdc++ reads) or any value of `EndJunk`.

## Runs

| Run (cfg) | Expect | Shows |
|---|---|---|
| `LevelActivation` | pass | Ticks, script spawns, removals and regroupings in which only ungrouped entities die or are removed keep `groups_` exact (`GroupIndexExact`), keep the label index exact (`LabelIndexExact`) and keep every nulled item recorded by the player (`ItemsAccounted`). Every tick processes only live entities (`ProcessOnlyLive`). A regrouping to no group (-1) may also fail the `assert` of `set_character_group`, which stops the model as a debug build would abort. 43712 states. |
| `LevelGroupGhost` | violation | Once a grouped entity can die or be removed, `ProcessOnlyLive` fails: the removed entity stays in `groups_` and is processed when its group activates. |
| `LevelRollback` | pass | With no groups or items, any replay within the retained window never fires either ASSERT (`NoFatalAssert`). It is invisible: `RollbackInvisible` is the refinement `Clock!Spec` of `LevelClock` under the mapping `world <- World`, so a restore plus replay leaves the observable world exactly as it was. 25752 states. |
| `SolidGridAligned` | pass | Brush, clear and flip edits with tile-aligned corners, negative ones included, keep both maps equal to what the tile maps say (`GridMatchesTiles`). 16278 states. |
| `SolidGridRounding` | violation | `round_tile_size(-2k·T)` returns `-(2k+1)·T`, so the brush paints cells outside the dragged rectangle (`PaintCoversRect`). The flood fill finds its base tile the same way. |
| `SolidGridArea` | pass | `set_solid_area` over rects that cut all_solid and patterned tiles changes exactly the pixels of the rect (`SolidEditsAreLocal`). `solid(x, y)`, `standable_tile` and `solid(rect)` agree with floor division at negative coordinates (`SolidQueryFloors`). The flood-fill region is closed: it holds only solid tiles and every solid neighbour of them (`RegionIsClosed`). 1779 states. |
| `CollisionQuery` | pass | In every state of the processing loop, while entities die, are erased, spawned and removed, `collide(x, y)` and `collide(rect)` over the one-point rect return the same entity for every querier (`PointRectAgree`), while the animated spikes change image. For the frame the spikes play, at times 0..13, `frame_number` walks the strip and never leaves it (`FrameFollowsStrip`). `is_alpha` reads, inside `alpha_`, the cell `build_alpha` wrote for the same pixel of the image shown, at both facings (`MaskMatchesShownImage`). The spikes' 5×5 sheet, padded to 8×8 without NPOT support, gets from `texture::initialize` an alpha map that marks exactly its brown and red pixels (`TextureAlphaExact`). 318321 states. |
| `DrawOrderEditor` | pass | In the editor, after spawns, removals and new prop layers, every draw draws each entity once, after the layers below its zorder and before the others (`DrawOrderConsistent`). It draws the water once, between the layers at or below it and those above (`WaterDrawnOnce`). 432 states. |
| `PlayLevel` | pass | While the player walks between levels, dies and is sent through forced portals, a session recorded with `--record_replay` and replayed from its `replay_data` feeds `process()` a prefix of the recorded key states (`ReplayFaithful`), and the replay always ends (`ReplayEnds`, under weak fairness of the loop, which runs every 20 ms). A portal a script forced is taken by the next iteration, even at an edge, unless the player died in that cycle (`ForcedPortalTaken`). 19185 states. |
| `TextureRace` | violation | The graphics thread and a worker in `get_id` both read `texture_buf` at the same `texture_buf_pos`, so two textures get the same GL id (`DistinctGlIds`). |
| `SpeechDialog` | pass | While scripts set text, options and speakers and the player uses keyboard and joystick (buttons 0, 1 and 10), the option cursor stays on an existing option (`OptionInRange`). Without options, the keyboard ends the dialog only after every line `set_text` gave has been shown in full (`KeyCloseAfterText`). 68664 states. |
| `Camera` | pass | While the focus moves and looks up and down, dialogs open and close, coins change and a level is loaded, the drawn rectangle stays inside the level's boundaries (`CameraInBounds`). Once the game stops changing things, the camera comes to rest within one step of its target (`CameraSettles`), and the coin counter reaches the player's coins and stays there (`CoinsCatchUp`). Both hold under weak fairness of `DrawScene`. 204262 states. |

Every property of a passing run has a mutant in `PROJECT.json`: an operator
beside the definition it replaces that makes the change a plausible bug would
make, such as a dropped guard, a missing reset or a wrong bound. TLC finds each
mutant's property violated.

## Bounds

The bounds are chosen so that the interesting cases happen:

- **Level.** There are four entities in the file (one of them the file's player) plus the arriving player and one entity a script spawns; positions run over 0..5 and there is one item.
  - The arriving record may list the item and one destroyable entity: C (ungrouped) in `LevelActivation`, A (labelled) in `LevelRollback`. Neither player has a label.
  - `MaxCycle` is 5 or 6.
  - The snapshot cap is 3 with a trim of 2. This is the code's 300/100 scaled down, so the buffer trims at least once and the post-trim window (1 snapshot after a trim at 3) is smaller than the cap.
  - `RetainWindow` is 2 (≤ snapshots kept after a trim, + 1).
  - Up to 3 restores occur in one behaviour.
  - Within these bounds every entity leaves the activation range, dies, walks off the level, or is replayed across its destruction.
- **SolidGrid.** `T = 2` keeps the bitmap at 4 bits. It is large enough for unaligned pixels, pixels that straddle a tile, and the negative-remainder fix-up.
  - The main window is 4×2 tiles around the origin, so every sign combination occurs.
  - Up to 2 edits occur per behaviour.
- **CollisionQuery.** There are five entities, one of each kind the filters tell apart: a player, a boardable vehicle, a harmful entity, a passthrough entity and a spawnable player-side entity. Their bodies overlap on three points, and there are 2 ticks. So every filter of `collide` decides some query, and an entity can be erased in the middle of a loop. The spikes' frame changes their body from two points to none after their first processing.
  - The frame checks are not a search: they are constant expressions, evaluated for the one frame the spikes play and referenced from every state of the run, so TLC evaluates them but explores nothing for them. That frame is a forward ping-pong of 3 images in rows of 2 with padding, scale 2, two rows of pixels, a hit frame and three event entries. Times run to 13, one past its duration of 6. A second frame for the spikes to start in (a backwards strip, a still frame) doubles the state space and takes the run past five minutes, so `frame_number`'s backward branch and its still-frame case are not checked.
  - The spikes' sheet is a 24-bit 5×5 image, with `NpotAllowed` false, so `initialize` pads it to 8×8 and the zeroed padding (alpha 0) reaches the `alpha_map_` loop. It has brown and red key pixels, two grey pixels and two pixels that match the brown key in two bytes only.
- **DrawOrder.** There are a player, three entities with different keys, and one entity whose key equals another's, so `std::sort` has a choice. Layers include -2, -1, 0, 1 and 1000. The water in the passing run sits on layer -1, at the edge of its own test.
- **PlayLevel.** Recordings are up to 5 cycles over 2 key states. This is enough for repeated and changing keys, a quit at any cycle, and several key frames. There are two levels of three columns, A with a `next_level` and B with a `previous_level` and a door back to A that opens on enter. The player walks in -1..3, so every edge and the door are reached, and a step across an edge can fall in the same cycle as a forced portal or a death. The forced portal goes to B's starting position.
- **Texture.** The model has 2 threads, 3 images (one asked for by both threads) and a buffer of 2 ids with 2 refills. The buffer runs out, and an id is recycled.

- **Camera.** The screen is 20 by 160 pixels (a 36-pixel view above the 124-pixel status bar). The look bound is 12² = 144, which is no multiple of the 300 step, so easing back overshoots zero unless it is clamped. The level is 22 by 40, so the camera travels 200 hundredths across and 400 down. That takes tens of truncated steps, and the last ones round to zero. The focus stands at x = 5 or 20, both outside the clamp range, so both clamps act. Coins go between 0 and 1 (100 hundredths, counted in steps that reach zero). Two game changes or level loads occur per behaviour.
- **SpeechDialog.** There are a three-line text (the middle line two characters long, so typing takes several frames and paging is needed) and a one-line text, and three options or none. `process()` runs for up to 4 frames under every joystick state, with buttons 0, 1 and 10. The pane width is 30 against a scroll step of 20, so the clamp is reached.

## Fairness and deadlock

Except `ReplayEnds`, `CameraSettles` and `CoinsCatchUp`, all properties are safety properties or refinement under stuttering, and no
fairness is assumed. `Camera` assumes weak fairness of `DrawScene`: both drivers call `draw_scene` on every iteration of their frame loop. The game's changes are bounded and unfair. `PlayLevel` assumes weak fairness of `NewRun` and `ReplayIteration`: the `while(!done)` loop of `play_level` runs an iteration every 20 ms with nothing to wait on. `Texture` assumes no fairness for `BuildFromWorkers`, because nothing in the repository calls `build_textures_from_worker_threads`. Nothing in the modelled code waits on anything: a tick runs to
completion. All cfgs set `CHECK_DEADLOCK FALSE`, because behaviours stop only at
the modelled bounds (`MaxCycle`, `MaxRestores`, `MaxEdits`) or after an ASSERT
fires, which is where the real program stops. A speech dialog stops once `key_press` or `process` returns true: its owner then deletes it.

## Disagreements not kept as runs

TLC finds these in wider bounds than the passing runs use. They are listed as hazards in `PROJECT.json`:

- **High water.** With the water at or above every layer, `WaterDrawnOnce` fails. The test after the last loop of `draw` reads `*layers_.end()`, which libstdc++ answers with the set's size, so the water is never drawn.
- **Auto-moving camera.** With `auto_move_camera` set, `CameraInBounds` fails after three frames. `pos` gains 100 hundredths per frame, but the easing pulls back only a thirtieth of the gap, so the camera settles 29 pixels ahead of its clamped target, past the level's edge.
- **Groups and rollback.** With a group, `RollbackInvisible` fails. `restore_from_backup` leaves `groups_` holding the pre-restore objects, so the replay processes them and freezes the restored copy of a grouped entity. This is the stale `groups_` of the `LevelGroupGhost` finding, seen through the restore.
- **Options hide text.** When a dialog has options and more than two lines, the confirm key chooses an option as soon as the first two lines are typed. The remaining lines are never shown, although `draw()` shows the more-text arrow. TLC finds this when `KeyCloseAfterText` is stated without its no-options premise.
- **Joystick button 10.** `process()` ends the dialog on a fresh press of button 0 or 10, but it records only buttons 0 and 1 as pressed. A held button 10 ends every dialog on its second frame.
- **Items and rollback.** `items_` is not in the snapshot. With an item, a replay over its collection breaks `ItemsAccounted`.
- **Unaligned rebuild.** A brush at an unaligned pixel makes `rebuild_tiles_rect` erase a tile it does not rebuild (`GridMatchesTiles`).
- **Lost `solid_rect`s.** An edit next to a level-file `solid_rect` drops the rect (`GridMatchesTiles`).
- **Harmful priority.** `collide(x, y)` returns the first body match rather than a harmful one, as spec 4.2 asks.
- **Stale queries.** `standable` and `board` can return entities erased earlier in the same tick.
- **Replay tail.** The replay returns at the last key frame, before `process()`, so the cycles after the last key change are never replayed.
- **Stale player label.** `add_player` neither erases the file player's `chars_by_label_` entry nor enters the arriving player's label. With a labelled file player, `LabelIndexExact` fails in the first state.
- **Destroyed grouped object on entry.** `add_player` drops an already-destroyed object from `chars_` but not from `groups_`. With a grouped destroyable, `GroupIndexExact` fails in the first state.
- **Ping-pong end.** A forward ping-pong frame shows image `nframes-1` once its time reaches `duration()`, though its strip ended on image 0. The backward branch holds its last image. Stated for times past the duration, `FrameFollowsStrip` fails for the spike frame.
- **Shifted collision mask.** `build_alpha` samples texel `(width-1)*u`. That is one texel left of and above the pixel for every texel column and row but the first. A property asking for the texel under the pixel fails for every frame wider than one texel; nothing in the repository says which is meant.
- **ARGB sheets.** `initialize` takes a 32-bit surface with `Rmask` 0xFF00 and `Amask` 0xFF as it is, but keys and tests its bytes as r, g, b, a. On a little-endian machine that surface stores a, r, g, b. `AlphaMapExact` of a 2×1 ARGB sheet gives a map in which an opaque pixel with blue 0 is transparent and a brown pixel is opaque.
- **Edge portals.** `next_level` and `previous_level` set only the portal's `dest_str`, which nothing reads (`get_dest_from_str` is never called). A player crossing a level edge is placed at `dest`, which is (0, 0).
- **Play-mode draw order.** Outside the editor, `chars_` is drawn unsorted, so a spawn with a lower zorder is drawn over layers it should be under.

## Not modelled (yet)

See `PROJECT.json` components. Still to be modelled:

- **Level.** `group_size` and `add_group` (read and called only by scripts), `remove_prop` and `remove_props_in_rect` (editor only).
- **Grid.** `get_tile_rect` and `remove_tiles_at`. `rebuild_tiles` and `variations` have no caller.
- **Other components.** The concurrent texture cache (`texture::get`), the GL upload of `initialize` and its `ratio_w_`/`ratio_h_`, the 16bpp rounding, `speech_dialog::handle_mouse_move` (iPhone only), the fades, music and `move_to_standing` of a level transition, frame loading from WML, `draw` and `play_sound` (I/O and drawing), and the flip viewport of `flip_scene`.

Widgets, formula bindings, floating-point geometry and SDL/GL I/O are left out:
no property of the simulation depends on them.
