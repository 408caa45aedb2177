------------------------------- MODULE Level -------------------------------
(***************************************************************************)
(* The simulation half of class level (src/src/level.cpp): the live entity *)
(* list chars_, the label index chars_by_label_, the group table groups_,  *)
(* per-tick activation and processing (do_processing), the items_ vector,  *)
(* and the rollback machinery backup / restore_from_backup /               *)
(* replay_from_cycle.                                                      *)
(*                                                                         *)
(* An entity object is identified by a reference <<e, k>>: e is the        *)
(* entity (a model value) and k the restore epoch in which the object was  *)
(* created.  backup() deep-copies every live entity and restore installs   *)
(* those copies as the live objects, so after a restore the live object of *)
(* e is a different object than the one other containers (groups_,        *)
(* active_chars_) may still hold.  st maps every reference to the state of *)
(* that object, so objects that are no longer live keep their own state.   *)
(*                                                                         *)
(* The world is one-dimensional: every entity stands at the same y, so the *)
(* y half of the activation test always holds and is left out.             *)
(***************************************************************************)
EXTENDS Integers, Sequences, FiniteSets, SequencesExt, TLC

CONSTANTS
  Ents,            \* entities (model values)
  Player,          \* the human the driver adds on entry; player_, players_[0]
  FilePlayer,      \* the human of the level file, replaced by add_player
  InitChars,       \* entities of the level file, in file order
  Destroyable,     \* entities with respawn() false
  InitGroup,       \* [Ents -> GroupIds \cup {-1}]: group attribute
  GroupIds,        \* indices of groups_, 0 .. groups_.size()-1
  Spawnable,       \* entities a script may add with add_character
  Removable,       \* entities a script may remove with remove_character
  Regroupable,     \* entities a script may pass to set_character_group
  DiesOnInactive,  \* entities with dies_on_inactive()
  AlwaysActive,    \* entities with always_active()
  Label,           \* [Ents -> Labels \cup {NoLabel}]
  NoLabel,         \* the empty label
  Vel,             \* [Ents -> Int]: movement per processed tick (non-humans)
  InitX,           \* [Ents -> MinX..MaxX]
  MinX, MaxX,      \* the level boundaries; leaving them destroys an entity
  FrameWidth,      \* current_frame().width()
  ActivationDist,  \* activation_distance() x component
  Items,           \* indices of items_
  ItemX,           \* [Items -> MinX..MaxX]
  ItemActivationDistance, \* the constant ActivationDistance (700)
  Moves,           \* horizontal moves the player's controls can ask for
  MaxCycle,        \* bound on cycle_
  MaxRestores,     \* bound on the number of restores (object epochs)
  BackupCap,       \* 300: backups_ is trimmed once it holds more
  BackupTrim,      \* 100: how many of the oldest backups are erased
  RetainWindow,    \* how far back the multiplayer layer may ask to replay
  RngMod           \* size of the random generator's state space

ASSUME Player \in Ents /\ Player \notin ToSet(InitChars)
ASSUME FilePlayer \in ToSet(InitChars) /\ InitGroup[FilePlayer] = -1
ASSUME Destroyable \subseteq ToSet(InitChars) \ {FilePlayer}
ASSUME {Player, FilePlayer} \cap (Spawnable \cup Removable \cup DiesOnInactive) = {}
ASSUME Spawnable \cap ToSet(InitChars) = {}
ASSUME \A a, b \in Ents : Label[a] = Label[b] /\ Label[a] # NoLabel => a = b
ASSUME BackupTrim \in 1..BackupCap /\ RetainWindow \in 1..BackupCap

VARIABLES
  cycle,     \* cycle_
  seed,      \* the random generator state (rng::get_seed)
  chars,     \* chars_: sequence of references
  st,        \* state of every object: [x, group, got]
  groups,    \* groups_: [GroupIds -> SUBSET references]
  byLabel,   \* chars_by_label_: partial function label -> reference
  active,    \* active_chars_
  items,     \* items_: "present", "destroyed" (flag set) or "null"
  epoch,     \* number of restores so far
  born,      \* references that have been allocated
  backups,   \* backups_
  controls,  \* the recorded control state for every cycle
  fatal      \* an ASSERT of replay_from_cycle or an assert of
             \* set_character_group has failed

vars == <<cycle, seed, chars, st, groups, byLabel, active, items, epoch,
          born, backups, controls, fatal>>

Refs == Ents \X (0..MaxRestores)
NoGroup == -1
StRec == [x: Int, group: GroupIds \cup {NoGroup}, got: SUBSET Items]

-----------------------------------------------------------------------------
(* The level state that do_processing and restore_from_backup transform,  *)
(* gathered into one record so that a replay can run ticks in a loop.     *)
Cur == [cycle |-> cycle, seed |-> seed, chars |-> chars, st |-> st,
        groups |-> groups, byLabel |-> byLabel, active |-> active,
        items |-> items, epoch |-> epoch, born |-> born]

SetLevel(s) ==
  /\ cycle' = s.cycle /\ seed' = s.seed /\ chars' = s.chars /\ st' = s.st
  /\ groups' = s.groups /\ byLabel' = s.byLabel /\ active' = s.active
  /\ items' = s.items /\ epoch' = s.epoch /\ born' = s.born

Live(s) == ToSet(s.chars)

\* chars_by_label_.erase(label) for the labels of a set of objects.
EraseLabels(m, objs) ==
  LET gone == {Label[r[1]] : r \in objs}
  IN  [l \in DOMAIN m \ gone |-> m[l]]

\* The one live object of the player (player_).
PlayerRef(s) == CHOOSE r \in Live(s) : r[1] = Player

\* Horizontal gap used by the activation test of do_processing.
Gap(px, x) == IF px < x THEN x - px ELSE px - (x + FrameWidth)

Abs(n) == IF n < 0 THEN -n ELSE n

Clamp(x) == IF x < MinX THEN MinX ELSE IF x > MaxX THEN MaxX ELSE x

(* The items loop reports every item found flagged destroyed to the       *)
(* player (player_->is_human()->item_destroyed).                           *)
ItemDestroyedReportNone(s, p, flagged) == s.st[p].got
ItemDestroyedReport(s, p, flagged) == s.st[p].got \cup flagged

(* A destroyed non-human entity is erased from the entry of its group.    *)
GroupsAfterKeep(s, destroyed) == s.groups
GroupsAfter(s, destroyed) ==
  [g \in GroupIds |-> s.groups[g] \ {c \in destroyed : s.st[c].group = g}]

-----------------------------------------------------------------------------
(* level::do_processing, the whole function.                              *)
DoProcessing(s, move) ==
  LET live    == Live(s)
      p       == PlayerRef(s)
      IsActive(c) == c[1] \in AlwaysActive \/ Gap(s.st[p].x, s.st[c].x) < ActivationDist
      activeNow == {c \in live : IsActive(c)}
      \* an active grouped entity activates its whole group entry instead
      act     == UNION {IF s.st[c].group >= 0 THEN s.groups[s.st[c].group] ELSE {c}
                        : c \in activeNow}
      dying   == {c \in live \ activeNow : c[1] \in DiesOnInactive}
      \* items loop: flagged items are nulled and reported to the player
      flagged == {n \in Items : s.items[n] = "destroyed"}
      got1    == ItemDestroyedReport(s, p, flagged)
      actItems == {n \in Items : s.items[n] = "present"
                                 /\ Abs(s.st[p].x - ItemX[n]) < ItemActivationDistance}
      \* entity processing
      NewX(c) == IF c[1] = Player THEN Clamp(s.st[c].x + move)
                                  ELSE s.st[c].x + Vel[c[1]]
      destroyed == {c \in act : c[1] # Player /\ NewX(c) \notin MinX..MaxX}
      st1     == [r \in DOMAIN s.st |->
                    IF r \in act THEN [s.st[r] EXCEPT !.x = NewX(r),
                                                      !.got = IF r = p THEN got1 ELSE @]
                    ELSE IF r = p THEN [s.st[r] EXCEPT !.got = got1]
                    ELSE s.st[r]]
      gone    == dying \cup destroyed
      newPx   == st1[p].x
  IN [s EXCEPT
        !.cycle   = s.cycle + 1,
        !.seed    = (s.seed + Cardinality({c \in act : c[1] # Player})) % RngMod,
        !.chars   = SelectSeq(s.chars, LAMBDA c : c \notin gone),
        !.st      = st1,
        !.groups  = GroupsAfter(s, destroyed),
        !.byLabel = EraseLabels(s.byLabel, gone),
        !.active  = act,
        !.items   = [n \in Items |->
                       IF n \in flagged THEN "null"
                       ELSE IF n \in actItems /\ newPx = ItemX[n] THEN "destroyed"
                       ELSE s.items[n]]]

-----------------------------------------------------------------------------
(* level::backup: a deep copy of every live entity (in chars_ order), the  *)
(* random seed and the cycle, appended to backups_; once backups_ holds    *)
(* more than BackupCap snapshots the oldest BackupTrim are erased.         *)
SnapshotNoSeed(s) ==
  [cycle |-> s.cycle, seed |-> 0,
   chars |-> [i \in DOMAIN s.chars |-> s.chars[i][1]],
   st    |-> [e \in {r[1] : r \in Live(s)} |-> s.st[CHOOSE r \in Live(s) : r[1] = e]]]
Snapshot(s) ==
  [cycle |-> s.cycle, seed |-> s.seed,
   chars |-> [i \in DOMAIN s.chars |-> s.chars[i][1]],
   st    |-> [e \in {r[1] : r \in Live(s)} |->
                s.st[CHOOSE r \in Live(s) : r[1] = e]]]

BackupNoTrim(s, b) == Append(b, Snapshot(s))
BackupEarlyTrim(s, b) ==
  LET b1 == Append(b, Snapshot(s))
  IN  IF Len(b1) >= BackupCap THEN SubSeq(b1, BackupTrim + 1, Len(b1)) ELSE b1
Backup(s, b) ==
  LET b1 == Append(b, Snapshot(s))
  IN  IF Len(b1) > BackupCap THEN SubSeq(b1, BackupTrim + 1, Len(b1)) ELSE b1

(* level::restore_from_backup: the snapshot's copies become the live       *)
(* objects (a new epoch of references), seed and cycle are restored and    *)
(* chars_by_label_ is rebuilt from chars_.  groups_, items_ and            *)
(* active_chars_ are left as they are.                                     *)
(* chars_by_label_ rebuilt from the new chars_: cleared, then every       *)
(* entity with a non-empty label entered.                                  *)
LabelTableWithEmpty(objs) ==
  [l \in {Label[r[1]] : r \in objs} |-> CHOOSE r \in objs : Label[r[1]] = l]
LabelTable(objs) ==
  [l \in {Label[r[1]] : r \in objs} \ {NoLabel} |-> CHOOSE r \in objs : Label[r[1]] = l]

RestoreFromBackup(s, snap) ==
  LET k     == s.epoch + 1
      refs  == [i \in DOMAIN snap.chars |-> <<snap.chars[i], k>>]
      fresh == ToSet(refs)
  IN [s EXCEPT
        !.seed    = snap.seed,
        !.cycle   = snap.cycle,
        !.chars   = refs,
        !.st      = [r \in DOMAIN s.st |-> IF r \in fresh THEN snap.st[r[1]] ELSE s.st[r]],
        !.byLabel = LabelTable(fresh),
        !.epoch   = k,
        !.born    = s.born \cup fresh]

(* The loop at the end of replay_from_cycle: backup() then do_processing() *)
(* until the cycle the level was at when the replay began.                 *)
RECURSIVE ReplayLoop(_, _, _, _)
ReplayLoop(s, b, until, ctl) ==
  IF s.cycle < until
    THEN ReplayLoop(DoProcessing(s, ctl[s.cycle + 1]), Backup(s, b), until, ctl)
    ELSE <<s, b>>

-----------------------------------------------------------------------------
InitRef(e) == <<e, 0>>

(* The level constructor's character loop, load_character for every      *)
(* entity of the file in file order: chars_, groups_ (resized to fit) and *)
(* chars_by_label_; items_ as the file lists them.                         *)
LoadCharacters ==
  [chars   |-> [i \in DOMAIN InitChars |-> InitRef(InitChars[i])],
   groups  |-> [g \in GroupIds |->
                  {InitRef(e) : e \in {e \in ToSet(InitChars) : InitGroup[e] = g}}],
   byLabel |-> [l \in {Label[e] : e \in ToSet(InitChars)} \ {NoLabel} |->
                  InitRef(CHOOSE e \in ToSet(InitChars) : Label[e] = l)],
   items   |-> [n \in Items |-> "present"]]

(* level::add_player(p): the file's player leaves chars_ and p is        *)
(* appended; the items the player's record lists for this level are       *)
(* nulled, and so are the non-respawning objects it lists, whose labels   *)
(* are erased.  Neither the replaced player's label nor p's is touched,   *)
(* and groups_ is left as it is.                                          *)
AddPlayer(s, p, destroyed, destroyedObjects) ==
  LET withP == Append(SelectSeq(s.chars, LAMBDA c : c[1] # FilePlayer), p)
      gone  == {c \in ToSet(withP) : c[1] \in destroyedObjects}
  IN [s EXCEPT !.chars   = SelectSeq(withP, LAMBDA c : c \notin gone),
               !.byLabel = EraseLabels(s.byLabel, gone),
               !.items   = [n \in DOMAIN s.items |->
                              IF n \in destroyed THEN "null" ELSE s.items[n]]]

(* Initial state: the driver enters a level (src/main.cpp, the portal and *)
(* the respawn path): load_level, then add_player with the arriving      *)
(* player, whose records of destroyed items and objects for this level    *)
(* may list anything.  cycle_ = 0 and no backups.  The controls of every  *)
(* cycle are fixed up front: the replay contract requires them recorded.  *)
Init ==
  /\ cycle = 0
  /\ seed = 0
  /\ \E got0 \in SUBSET Items, gone0 \in SUBSET Destroyable :
       LET s == AddPlayer(LoadCharacters, InitRef(Player), got0, gone0)
       IN  /\ chars = s.chars /\ byLabel = s.byLabel /\ items = s.items
           /\ st = [r \in Refs |->
                      [x |-> InitX[r[1]],
                       group |-> IF r[2] = 0 /\ r[1] \in ToSet(InitChars)
                                 THEN InitGroup[r[1]] ELSE NoGroup,
                       got |-> IF r = InitRef(Player) THEN got0 ELSE {}]]
  /\ groups = LoadCharacters.groups
  /\ active = {}
  /\ epoch = 0
  /\ born = {InitRef(e) : e \in ToSet(InitChars) \cup {Player}}
  /\ backups = <<>>
  /\ controls \in [1..MaxCycle -> Moves]
  /\ fatal = FALSE

-----------------------------------------------------------------------------
(* One cycle of the level runner: backup() then level::process(), which   *)
(* reads the local controls and calls do_processing().                     *)
Tick ==
  /\ ~fatal
  /\ cycle < MaxCycle
  /\ backups' = Backup(Cur, backups)
  /\ SetLevel(DoProcessing(Cur, controls[cycle + 1]))
  /\ UNCHANGED <<controls, fatal>>

(* level::replay_from_cycle(n), asked for by the multiplayer layer for a   *)
(* cycle at most RetainWindow cycles back.  An index below zero and a      *)
(* restored cycle other than n are the two ASSERTs of the function.        *)
ReplayFromCycle(n) ==
  LET cyclesAgo == cycle - n
      index     == Len(backups) - cyclesAgo
      restored  == RestoreFromBackup(Cur, backups[index + 1])
      out       == ReplayLoop(restored, SubSeq(backups, 1, index), cycle, controls)
  IN /\ ~fatal
     /\ epoch < MaxRestores
     /\ cyclesAgo > 0
     /\ IF index < 0 \/ restored.cycle # n
          THEN fatal' = TRUE /\ UNCHANGED <<cycle, seed, chars, st, groups,
                                  byLabel, active, items, epoch, born, backups>>
          ELSE SetLevel(out[1]) /\ backups' = out[2] /\ UNCHANGED fatal
     /\ UNCHANGED controls

-----------------------------------------------------------------------------
(* Script-driven changes to the entity containers.                        *)

(* level::add_character for a non-human entity: index its label, append   *)
(* it to chars_.  It is not entered in groups_.                           *)
AddCharacterNoLabel(e) ==
  LET r == <<e, epoch>>
  IN /\ ~fatal
     /\ e \notin {c[1] : c \in ToSet(chars)}
     /\ r \notin born
     /\ chars' = Append(chars, r)
     /\ st' = [st EXCEPT ![r] = [x |-> InitX[e], group |-> NoGroup, got |-> {}]]
     /\ born' = born \cup {r}
     /\ UNCHANGED <<cycle, seed, groups, byLabel, active, items, epoch, backups, controls, fatal>>
AddCharacter(e) ==
  LET r == <<e, epoch>>
  IN /\ ~fatal
     /\ e \notin {c[1] : c \in ToSet(chars)}
     /\ r \notin born
     /\ byLabel' = IF Label[e] # NoLabel THEN (Label[e] :> r) @@ byLabel ELSE byLabel
     /\ chars' = Append(chars, r)
     /\ st' = [st EXCEPT ![r] = [x |-> InitX[e], group |-> NoGroup, got |-> {}]]
     /\ born' = born \cup {r}
     /\ UNCHANGED <<cycle, seed, groups, active, items, epoch, backups, controls, fatal>>

(* level::remove_character: erase its label and remove it from chars_.    *)
RemoveCharacter(r) ==
  /\ ~fatal
  /\ byLabel' = IF Label[r[1]] # NoLabel THEN [l \in DOMAIN byLabel \ {Label[r[1]]} |-> byLabel[l]]
                ELSE byLabel
  /\ chars' = SelectSeq(chars, LAMBDA c : c # r)
  /\ UNCHANGED <<cycle, seed, st, groups, active, items, epoch, born, backups, controls, fatal>>

(* Variant: set_character_group does not leave the current group.         *)
SetCharacterGroupKeepOld(r, g) ==
  /\ ~fatal
  /\ groups' = [h \in GroupIds |-> IF h = g THEN groups[h] \cup {r} ELSE groups[h]]
  /\ st' = [st EXCEPT ![r].group = g]
  /\ UNCHANGED <<cycle, seed, chars, byLabel, active, items, epoch, born, backups, controls, fatal>>
(* level::set_character_group.  assert(group_num < groups_.size())        *)
(* compares an int with a size_t, so NoGroup (-1) becomes the largest     *)
(* size_t and fails it: a build with assert() aborts, one with NDEBUG     *)
(* goes on.  The model takes either outcome.  The second assert holds:    *)
(* a group attribute is NoGroup or an index of groups_.                   *)
SetCharacterGroup(r, g) ==
  LET old == st[r].group
  IN /\ ~fatal
     /\ \/ /\ g = NoGroup
           /\ fatal' = TRUE
           /\ UNCHANGED <<cycle, seed, chars, st, groups, byLabel, active,
                          items, epoch, born, backups, controls>>
        \/ /\ groups' = [h \in GroupIds |->
                           IF h = g THEN groups[h] \cup {r}
                           ELSE IF h = old THEN groups[h] \ {r}
                           ELSE groups[h]]
           /\ st' = [st EXCEPT ![r].group = g]
           /\ UNCHANGED <<cycle, seed, chars, byLabel, active, items, epoch,
                          born, backups, controls, fatal>>

ScriptNext ==
  \/ \E e \in Spawnable : AddCharacter(e)
  \/ \E r \in ToSet(chars) : r[1] \in Removable /\ RemoveCharacter(r)
  \/ \E r \in ToSet(chars), g \in GroupIds \cup {NoGroup} :
       r[1] \in Regroupable /\ SetCharacterGroup(r, g)

ReplayNext ==
  \E n \in (cycle - RetainWindow)..(cycle - 1) : n >= 0 /\ ReplayFromCycle(n)

(* Ticks and script changes, no rollback. *)
NextNoReplay == Tick \/ ScriptNext

(* Ticks and rollbacks: the entity set changes only inside ticks. *)
NextRollback == Tick \/ ReplayNext

Next == Tick \/ ScriptNext \/ ReplayNext

SpecNoReplay == Init /\ [][NextNoReplay]_vars
SpecRollback == Init /\ [][NextRollback]_vars
Spec == Init /\ [][Next]_vars

-----------------------------------------------------------------------------
(* Properties.                                                            *)

TypeOK ==
  /\ cycle \in 0..MaxCycle
  /\ seed \in 0..(RngMod - 1)
  /\ chars \in Seq(Refs) /\ Len(chars) <= Cardinality(Ents)
  /\ st \in [Refs -> StRec]
  /\ groups \in [GroupIds -> SUBSET Refs]
  /\ byLabel \in [DOMAIN byLabel -> Refs]
  /\ active \subseteq Refs
  /\ items \in [Items -> {"present", "destroyed", "null"}]
  /\ epoch \in 0..MaxRestores /\ born \subseteq Refs
  /\ Len(backups) <= BackupCap
  /\ \A i \in DOMAIN backups :
       /\ backups[i].cycle \in 0..MaxCycle /\ backups[i].seed \in 0..(RngMod - 1)
       /\ backups[i].st \in [ToSet(backups[i].chars) -> StRec]
  /\ fatal \in BOOLEAN

(* groups_ lists exactly the live entities whose group attribute names   *)
(* the group: load_character, set_character_group and the destroyed path *)
(* of do_processing must keep the table and the attribute in step.       *)
GroupIndexExact ==
  \A g \in GroupIds : groups[g] = {r \in ToSet(chars) : st[r].group = g}

(* level::get_entity_by_label: the entity chars_by_label_ holds for the   *)
(* label, or the null entity_ptr.                                          *)
NullRef == <<>>
GetEntityByLabel(l) == IF l \in DOMAIN byLabel THEN byLabel[l] ELSE NullRef

(* level::get_all_labels: the keys of chars_by_label_.                     *)
GetAllLabels == DOMAIN byLabel

(* Scripts find entities by label: get_all_labels lists exactly the labels *)
(* of the live entities, and get_entity_by_label gives, for each, the live *)
(* entity that carries it.  Every path that adds or drops an entity        *)
(* (add_character, remove_character, dies_on_inactive, destruction,        *)
(* restore) must update chars_by_label_ for this to hold.                  *)
LabelIndexExact ==
  /\ GetAllLabels = {Label[r[1]] : r \in ToSet(chars)} \ {NoLabel}
  /\ \A l \in GetAllLabels :
       GetEntityByLabel(l) \in ToSet(chars) /\ Label[GetEntityByLabel(l)[1]] = l

(* An item is gone from items_ exactly when the player's record of       *)
(* destroyed items (item_destroyed, consulted by add_player) lists it.   *)
ItemsAccounted ==
  \A n \in Items : items[n] = "null" <=> n \in st[PlayerRef(Cur)].got

(* A tick processes only entities that were live (in chars_) when it     *)
(* began: group activation in do_processing must not bring back entities *)
(* that were removed from the level.                                      *)
ProcessOnlyLive ==
  [][cycle' = cycle + 1 => active' \subseteq ToSet(chars)]_vars

(* Neither ASSERT of replay_from_cycle (index >= 0, restored cycle equal  *)
(* to the requested one) fails for a request inside the retained window. *)
NoFatalAssert == ~fatal

(* What the runner observes of a level: where every live entity is, the  *)
(* items, the player's item record and the random seed.                  *)
World ==
  [x     |-> [e \in {r[1] : r \in ToSet(chars)} |->
                st[CHOOSE r \in ToSet(chars) : r[1] = e].x],
   items |-> items,
   got   |-> st[PlayerRef(Cur)].got,
   seed  |-> seed]

(* replay_from_cycle is invisible: the level refines a clock in which    *)
(* the observable world changes only when the cycle advances by one.     *)
Clock == INSTANCE LevelClock WITH world <- World
RollbackInvisible == Clock!Spec

=============================================================================
