---------------------------- MODULE SpeechDialog ----------------------------
(***************************************************************************)
(* The conversation box of src/src/speech_dialog.cpp (desktop build).     *)
(* A script fills it with set_text, set_options and the speaker setters;  *)
(* each frame the game calls process(), which types one more character,  *)
(* scrolls the portrait pane and reads the joystick, and hands keyboard   *)
(* events to key_press().  Either returning true ends the dialog.  draw() *)
(* shows the first two lines of text_ up to text_char_ characters, and   *)
(* the options with a cursor at option_selected_ once the text is typed.  *)
(* A line of text is a model value with a length; pixel layout, fonts and *)
(* the iPhone mouse handling are left out.                                 *)
(***************************************************************************)
EXTENDS Integers, Sequences, SequencesExt

CONSTANTS
  Lines,         \* lines of text a script may pass
  LineSize,      \* [Lines -> Nat]: size() of a line
  Texts,         \* the vectors a script passes to set_text
  OptionLists,   \* the vectors a script passes to set_options
  Speakers,      \* entities a script may name as speaker
  NoEntity,      \* the null const_entity_ptr
  PaneWidth,     \* gui_section "speech_portrait_pane" width()
  Buttons,       \* joystick buttons that may be held: subset of {0, 1, 10}
  MaxCycle       \* bound on process() calls

VARIABLES
  cycle,         \* cycle_
  leftSpeaking,  \* left_side_speaking_
  hpos,          \* horizontal_position_
  textChar,      \* text_char_
  sel,           \* option_selected_
  joyButton, joyUp, joyDown,  \* joystick_*_pressed_
  text,          \* text_
  options,       \* options_
  left, right,   \* left_, right_
  closed,        \* "open", or which call returned true: "key", "process"
  said,          \* the text of the last set_text (history)
  seen           \* lines draw() has shown in full (history)

vars == <<cycle, leftSpeaking, hpos, textChar, sel, joyButton, joyUp, joyDown,
          text, options, left, right, closed, said, seen>>

ScrollSpeed == 20
Expiration == -1   \* expiration_: the constructor's value; nothing here sets it

-----------------------------------------------------------------------------
(* Characters in the first n lines of t.                                   *)
CharsUpTo(t, n) == FoldLeft(LAMBDA a, l : a + LineSize[l], 0, SubSeq(t, 1, n))

(* Variant: only the first line is counted.                                *)
NumCharsFirstLine(t) == CharsUpTo(t, IF Len(t) < 1 THEN Len(t) ELSE 1)

(* num_chars: the sizes of text_[0] and text_[1].                          *)
NumChars(t) == CharsUpTo(t, IF Len(t) < 2 THEN Len(t) ELSE 2)

(* The lines draw() shows in full: of the first two, those all of whose   *)
(* characters text_char_ reaches.                                          *)
Shown(t, tc) == {t[n] : n \in {n \in 1..Len(t) : n <= 2 /\ CharsUpTo(t, n) <= tc}}

(* move_up: wrap below zero to the last option.                            *)
MoveUp(s, o) == IF s - 1 < 0 THEN Len(o) - 1 ELSE s - 1

(* Variant: the wrap test is one past the end.                             *)
MoveDownLate(s, o) == IF s + 1 = Len(o) + 1 THEN 0 ELSE s + 1

(* move_down: wrap at options_.size() to the first option.                 *)
MoveDown(s, o) == IF s + 1 = Len(o) THEN 0 ELSE s + 1

(* Variant: the pane scrolls past its width.                              *)
ScrollNoClamp(h, leftSide) ==
  IF leftSide THEN (IF h > 0 THEN (IF h - ScrollSpeed < 0 THEN 0 ELSE h - ScrollSpeed) ELSE h)
  ELSE (IF h < PaneWidth THEN h + ScrollSpeed ELSE h)

(* The horizontal_position_ update of process().                            *)
Scroll(h, leftSide) ==
  IF leftSide THEN (IF h > 0 THEN (IF h - ScrollSpeed < 0 THEN 0 ELSE h - ScrollSpeed) ELSE h)
  ELSE (IF h < PaneWidth
          THEN (IF h + ScrollSpeed > PaneWidth THEN PaneWidth ELSE h + ScrollSpeed)
          ELSE h)

-----------------------------------------------------------------------------
Init ==
  /\ cycle = 0
  /\ leftSpeaking = FALSE
  /\ hpos = 0
  /\ textChar = 0
  /\ sel = 0
  /\ joyButton = TRUE /\ joyUp = TRUE /\ joyDown = TRUE
  /\ text = <<>> /\ options = <<>>
  /\ left = NoEntity /\ right = NoEntity
  /\ closed = "open"
  /\ said = <<>> /\ seen = {}

Open == closed = "open"

(* What draw() shows after the step is added to the history.               *)
Display == seen' = seen \cup Shown(text', textChar')

(* set_text: new lines, typed from the start.                              *)
SetText(t) ==
  /\ Open
  /\ text' = t /\ textChar' = 0 /\ said' = t
  /\ seen' = Shown(t, 0)
  /\ UNCHANGED <<cycle, leftSpeaking, hpos, sel, joyButton, joyUp, joyDown,
                 options, left, right, closed>>

(* set_options: new options, the cursor on the first.                      *)
SetOptions(o) ==
  /\ Open
  /\ options' = o /\ sel' = 0
  /\ UNCHANGED <<cycle, leftSpeaking, hpos, textChar, joyButton, joyUp, joyDown,
                 text, left, right, closed, said, seen>>

(* set_speaker(e, left_side).                                              *)
SetSpeaker(e, leftSide) ==
  /\ Open
  /\ IF leftSide THEN left' = e /\ UNCHANGED right ELSE right' = e /\ UNCHANGED left
  /\ UNCHANGED <<cycle, leftSpeaking, hpos, textChar, sel, joyButton, joyUp, joyDown,
                 text, options, closed, said, seen>>

(* set_speaker_and_flip_side(e): the other side speaks, and e is it.       *)
SetSpeakerAndFlipSide(e) ==
  /\ Open
  /\ leftSpeaking' = ~leftSpeaking
  /\ IF ~leftSpeaking THEN left' = e /\ UNCHANGED right ELSE right' = e /\ UNCHANGED left
  /\ UNCHANGED <<cycle, hpos, textChar, sel, joyButton, joyUp, joyDown,
                 text, options, closed, said, seen>>

(* set_side(left_side).                                                     *)
SetSide(b) ==
  /\ Open
  /\ leftSpeaking' = b
  /\ UNCHANGED <<cycle, hpos, textChar, sel, joyButton, joyUp, joyDown,
                 text, options, left, right, closed, said, seen>>

(* key_press(event).  ev is a key-down of SDLK_UP, SDLK_DOWN, one of the  *)
(* confirm keys (return, space, a, s) or another key, or an event that is *)
(* no key-down.  Once the text is typed and options exist, the keys move  *)
(* the cursor or choose; otherwise any event first finishes the typing,  *)
(* then drops the first line while more than two remain, then ends the    *)
(* dialog.                                                                 *)
KeyEvents == {"up", "down", "confirm", "other", "nokey"}

KeyPress(ev) ==
  /\ Open
  /\ IF textChar = NumChars(text) /\ options # <<>>
       THEN /\ sel' = CASE ev = "up"   -> MoveUp(sel, options)
                        [] ev = "down" -> MoveDown(sel, options)
                        [] OTHER       -> sel
            /\ closed' = IF ev = "confirm" THEN "key" ELSE closed
            /\ UNCHANGED <<text, textChar>>
     ELSE IF textChar < NumChars(text)
       THEN textChar' = NumChars(text) /\ UNCHANGED <<text, sel, closed>>
     ELSE IF Len(text) > 2
       THEN /\ text' = Tail(text)
            /\ textChar' = LineSize[Head(Tail(text))]
            /\ UNCHANGED <<sel, closed>>
     ELSE closed' = "key" /\ UNCHANGED <<text, textChar, sel>>
  /\ UNCHANGED <<cycle, leftSpeaking, hpos, joyButton, joyUp, joyDown, options,
                 left, right, said>>
  /\ Display

(* process(): one frame.  up, down and held are the joystick state read  *)
(* by joystick::update (held: the buttons down).  A direction moves the   *)
(* cursor only when it was not down at the previous frame; button 0 or 10 *)
(* ends the dialog when joystick_button_pressed_ (buttons 0 and 1 at the *)
(* previous frame) is clear, returning before the flags are updated.      *)
Process(up, down, held) ==
  /\ Open
  /\ cycle < MaxCycle
  /\ cycle' = cycle + 1
  /\ textChar' = IF textChar < NumChars(text) THEN textChar + 1 ELSE textChar
  /\ hpos' = Scroll(hpos, leftSpeaking)
  /\ LET s1    == IF ~joyUp /\ up THEN MoveUp(sel, options) ELSE sel
         s2    == IF ~joyDown /\ down THEN MoveDown(s1, options) ELSE s1
         press == ~joyButton /\ (0 \in held \/ 10 \in held)
     IN  IF Expiration <= 0 /\ press
           THEN /\ sel' = s2
                /\ closed' = "process"
                /\ UNCHANGED <<joyButton, joyUp, joyDown>>
           ELSE /\ sel' = IF Expiration <= 0 THEN s2 ELSE sel
                /\ joyUp' = up /\ joyDown' = down
                /\ joyButton' = (0 \in held \/ 1 \in held)
                /\ closed' = IF cycle' = Expiration THEN "process" ELSE closed
  /\ UNCHANGED <<leftSpeaking, text, options, left, right, said>>
  /\ Display

(* The script and the game loop drive the dialog.                          *)
Next ==
  \/ \E t \in Texts : SetText(t)
  \/ \E o \in OptionLists : SetOptions(o)
  \/ \E e \in Speakers, b \in BOOLEAN : SetSpeaker(e, b)
  \/ \E e \in Speakers : SetSpeakerAndFlipSide(e)
  \/ \E b \in BOOLEAN : SetSide(b)
  \/ \E ev \in KeyEvents : KeyPress(ev)
  \/ \E up, down \in BOOLEAN, held \in SUBSET Buttons : Process(up, down, held)

Spec == Init /\ [][Next]_vars

-----------------------------------------------------------------------------
TypeOK ==
  /\ cycle \in 0..MaxCycle
  /\ hpos \in 0..PaneWidth
  /\ textChar \in 0..NumChars(text)
  /\ sel \in Int
  /\ {joyButton, joyUp, joyDown, leftSpeaking} \subseteq BOOLEAN
  /\ text \in Seq(Lines) /\ options \in OptionLists \cup {<<>>}
  /\ {left, right} \subseteq Speakers \cup {NoEntity}
  /\ closed \in {"open", "key", "process"}

(* Whenever the box holds options, the cursor is on one of them: the      *)
(* wrap-around of move_up and move_down, reached from the keyboard and    *)
(* from the joystick, and the reset of set_options keep option_selected_  *)
(* a valid index, so the option a true return reports exists.              *)
OptionInRange == options # <<>> => sel \in 0..(Len(options) - 1)

(* Without options, the keyboard ends the dialog only after every line   *)
(* that set_text gave has been shown in full: key_press finishes the      *)
(* typing and pages line by line before it returns true.                   *)
KeyCloseAfterText ==
  [][closed' = "key" /\ options = <<>> => ToSet(said) \subseteq seen]_vars
=============================================================================
