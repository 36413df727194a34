------------------------------- MODULE Editor -------------------------------
(***************************************************************************)
(* shell/editor.c: one session of the text editor on one file.             *)
(*                                                                         *)
(* ed is the EditorState: the functions of the source that change it are   *)
(* operators from an EditorState to the next one, with the same names.     *)
(* Rows and columns count from 0, as in the code; line row is              *)
(* ed.lines[row + 1].  The row Len(lines) past the last line is a position *)
(* the cursor can take.  Drawing and scrolling are left out: they read the *)
(* state and write the terminal.                                           *)
(***************************************************************************)
EXTENDS Integers, Sequences, FiniteSets

CONSTANTS
  Letters,      \* characters the user types, none a control character; spaces come from Tab
  LineStep,     \* 16: lines added when e->lines is full
  UndoMax,      \* UNDO_MAX
  TabSize,      \* 4
  QueryMax,     \* sizeof(query) - 1
  ScreenRows,   \* screenrows
  Files,        \* texts the file may hold when it is opened
  MaxKeys       \* bound: keys that edit, undo, save or search

SP   == " "
NL   == "nl"
NUL  == "nul"

ASSUME EditorAssumption ==
  /\ {LineStep, UndoMax, TabSize, QueryMax, ScreenRows} \subseteq Nat \ {0}
  /\ MaxKeys \in Nat
  /\ Letters \cap {NL, NUL} = {}
  /\ Files \subseteq Seq(Letters \cup {SP, NL})

VARIABLES
  ed,           \* EditorState
  mode,         \* "open", "edit", "find", "done" or "crashed"
  query, saved, \* editor_find: the term, the cursor to go back to
  kind, file,   \* the file: "file", "missing" or "dir", and its text
  keys,         \* bounded keys so far
  before,       \* history: text and cursor before each edit not undone
  damaged,      \* history: text was lost or not read without dirty telling
  stale         \* history: a line was split through a stale pointer

vars == <<ed, mode, query, saved, kind, file, keys, before, damaged, stale>>

-----------------------------------------------------------------------------
(* Lines *)

line_insert_char(l, at, c) == SubSeq(l, 1, at) \o <<c>> \o SubSeq(l, at + 1, Len(l))

line_delete_char(l, at) == SubSeq(l, 1, at) \o SubSeq(l, at + 2, Len(l))

line_indent_len(l) ==
  CHOOSE n \in 0 .. Len(l) :
    /\ \A i \in 1 .. n : l[i] = SP
    /\ n < Len(l) => l[n + 1] # SP

(* What editor_save and editor_snap_push serialize: each line and a '\n'. *)
Serialize(ls) ==
  LET upto[n \in 0 .. Len(ls)] ==
        IF n = 0 THEN <<>> ELSE upto[n - 1] \o ls[n] \o <<NL>>
  IN  upto[Len(ls)]

(* The loop of editor_load and editor_snap_pop: lines end at a '\n', the   *)
(* last one also at the end of the text; no text gives one empty line.     *)
Split(t) ==
  LET ends   == {i \in 1 .. Len(t) : t[i] = NL}
                \cup (IF t # <<>> /\ t[Len(t)] # NL THEN {Len(t) + 1} ELSE {})
      end(k) == IF k = 0 THEN 0
                ELSE CHOOSE i \in ends : Cardinality({j \in ends : j <= i}) = k
  IN  IF ends = {} THEN << <<>> >>
      ELSE [k \in 1 .. Cardinality(ends) |-> SubSeq(t, end(k - 1) + 1, end(k) - 1)]

-----------------------------------------------------------------------------
(* EditorState *)

nlines(e) == Len(e.lines)
Cur(e)    == e.lines[e.cy + 1]
Phantom(e) == e.cy = nlines(e)

(* lines_cap after appending lines until there are n *)
Mut_Grow(cap, n) == IF n <= cap + 1 THEN cap ELSE cap + LineStep

Grow(cap, n) ==
  IF n <= cap THEN cap ELSE cap + LineStep * ((n - cap + LineStep - 1) \div LineStep)

editor_append_line(e, l) ==
  [e EXCEPT !.lines = Append(@, l), !.lines_cap = Grow(@, nlines(e) + 1)]

SetLines(e, ls) == [e EXCEPT !.lines = ls, !.lines_cap = Grow(@, Len(ls))]

editor_insert_char(e, c) ==
  LET f == IF Phantom(e) THEN editor_append_line(e, <<>>) ELSE e
  IN  [f EXCEPT !.lines[e.cy + 1] = line_insert_char(@, e.cx, c),
                !.cx = @ + 1, !.dirty = TRUE]

(* for (i < 4) editor_insert_char(e, ' ') *)
InsertTab(e) ==
  LET after[n \in 0 .. TabSize] ==
        IF n = 0 THEN e ELSE editor_insert_char(after[n - 1], SP)
  IN  after[TabSize]

(* Enter: the new line is the indentation and what follows the cursor; the *)
(* current line becomes first.                                             *)
NewLine(e, first) ==
  LET indent == SubSeq(Cur(e), 1, line_indent_len(Cur(e)))
      rest   == SubSeq(Cur(e), e.cx + 1, Len(Cur(e)))
      ls     == SubSeq(e.lines, 1, e.cy) \o <<first, indent \o rest>>
                \o SubSeq(e.lines, e.cy + 2, nlines(e))
  IN  [SetLines(e, ls) EXCEPT !.cy = @ + 1, !.cx = Len(indent), !.dirty = TRUE]

Mut_editor_insert_newline(e) ==
  IF Phantom(e) THEN [editor_append_line(e, <<>>) EXCEPT !.cy = @ + 1, !.cx = 0, !.dirty = TRUE]
  ELSE [NewLine(e, SubSeq(Cur(e), 1, e.cx)) EXCEPT !.cx = line_indent_len(Cur(e)) + 1]

editor_insert_newline(e) ==
  IF Phantom(e) THEN [editor_append_line(e, <<>>) EXCEPT !.cy = @ + 1, !.cx = 0, !.dirty = TRUE]
  ELSE NewLine(e, SubSeq(Cur(e), 1, e.cx))

(* The same when e->lines was full and realloc moved it: cur still points  *)
(* into the freed array, so the length in the live array is not changed,   *)
(* and the '\0' goes into the text through the stale copy of cur->data.    *)
StaleNewLine(e) ==
  NewLine(e, [i \in 1 .. Len(Cur(e)) |-> IF i = e.cx + 1 THEN NUL ELSE Cur(e)[i]])

Full(e) == ~Phantom(e) /\ nlines(e) >= e.lines_cap

(* Lines row and row + 1 become one. *)
Join(ls, row) ==
  SubSeq(ls, 1, row) \o <<ls[row + 1] \o ls[row + 2]>> \o SubSeq(ls, row + 3, Len(ls))

editor_delete_char(e) ==
  IF Phantom(e) THEN e
  ELSE [(IF e.cx > 0
         THEN [e EXCEPT !.lines[e.cy + 1] = line_delete_char(@, e.cx - 1), !.cx = @ - 1]
         ELSE IF e.cy > 0
         THEN [e EXCEPT !.lines = Join(@, e.cy - 1), !.cy = @ - 1,
                        !.cx = Len(e.lines[e.cy])]
         ELSE e) EXCEPT !.dirty = TRUE]

editor_delete_forward(e) ==
  IF Phantom(e) THEN e
  ELSE IF e.cx < Len(Cur(e))
  THEN [e EXCEPT !.lines[e.cy + 1] = line_delete_char(@, e.cx), !.dirty = TRUE]
  ELSE IF e.cy < nlines(e) - 1
  THEN [e EXCEPT !.lines = Join(@, e.cy), !.dirty = TRUE]
  ELSE e

InRange(x, lo, hi) == IF x < lo THEN lo ELSE IF x > hi THEN hi ELSE x

Mut_editor_clamp_cursor(e) ==
  [e EXCEPT !.cy = InRange(@, 0, nlines(e)), !.cx = IF @ < 0 THEN 0 ELSE @]

editor_clamp_cursor(e) ==
  LET y == InRange(e.cy, 0, nlines(e))
  IN  [e EXCEPT !.cy = y,
                !.cx = InRange(@, 0, IF y < nlines(e) THEN Len(e.lines[y + 1]) ELSE 0)]

Mut_editor_snap_push(e) ==
  LET s == [text |-> Serialize(e.lines), cx |-> e.cx, cy |-> e.cy]
  IN  [e EXCEPT !.undo = IF Len(@) = UndoMax THEN [@ EXCEPT ![UndoMax] = s] ELSE Append(@, s)]

editor_snap_push(e) ==
  LET s == [text |-> Serialize(e.lines), cx |-> e.cx, cy |-> e.cy]
  IN  [e EXCEPT !.undo = Append(IF Len(@) = UndoMax THEN Tail(@) ELSE @, s)]

editor_snap_pop(e) ==
  LET s == e.undo[Len(e.undo)]
  IN  editor_clamp_cursor(
        [SetLines(e, Split(s.text)) EXCEPT
           !.undo = SubSeq(@, 1, Len(@) - 1), !.cx = s.cx, !.cy = s.cy, !.dirty = TRUE])

-----------------------------------------------------------------------------
(* editor_find_next: rows after (dir = 1) or before (dir = -1) the cursor, *)
(* around the text and back to the cursor's own.  strstr stops at a '\0'   *)
(* and finds the first occurrence in a line; backwards, the last.          *)

CStr(l) ==
  SubSeq(l, 1, (CHOOSE n \in 0 .. Len(l) :
                  /\ \A i \in 1 .. n : l[i] # NUL
                  /\ n < Len(l) => l[n + 1] = NUL))

Occurrences(q, l) ==
  {c \in 0 .. Len(l) - Len(q) : SubSeq(l, c + 1, c + Len(q)) = q}

FindColumn(l, q, dir) ==
  IF dir = 1
  THEN LET o == Occurrences(q, CStr(l)) IN CHOOSE c \in o : \A d \in o : c <= d
  ELSE LET o == Occurrences(q, l)       IN CHOOSE c \in o : \A d \in o : c >= d

Matches(l, q, dir) == Occurrences(q, IF dir = 1 THEN CStr(l) ELSE l) # {}

Mut_editor_find_next(e, q, dir) ==
  LET row(i) == (e.cy + dir * i) % nlines(e)
      hits   == {i \in 1 .. nlines(e) - 1 : Matches(e.lines[row(i) + 1], q, dir)}
      i      == CHOOSE j \in hits : \A k \in hits : j <= k
  IN  IF q = <<>> \/ hits = {} THEN e
      ELSE [e EXCEPT !.cy = row(i), !.cx = FindColumn(e.lines[row(i) + 1], q, dir)]

editor_find_next(e, q, dir) ==
  LET row(i) == (e.cy + dir * i) % nlines(e)
      hits   == {i \in 1 .. nlines(e) : Matches(e.lines[row(i) + 1], q, dir)}
      i      == CHOOSE j \in hits : \A k \in hits : j <= k
  IN  IF q = <<>> \/ hits = {} THEN e
      ELSE [e EXCEPT !.cy = row(i), !.cx = FindColumn(e.lines[row(i) + 1], q, dir)]

-----------------------------------------------------------------------------
Empty == [lines |-> <<>>, lines_cap |-> 0, cx |-> 0, cy |-> 0, dirty |-> FALSE,
          quit_confirm |-> 1, undo |-> <<>>]

Init ==
  /\ ed = Empty /\ mode = "open" /\ query = <<>> /\ saved = [cx |-> 0, cy |-> 0]
  /\ kind \in {"file", "missing", "dir"}
  /\ file \in IF kind = "file" THEN Files ELSE {<<>>}
  /\ keys = 0 /\ before = <<>> /\ damaged = FALSE /\ stale = FALSE

(* editor_open and editor_load *)
editor_load ==
  /\ mode = "open" /\ kind = "file" /\ mode' = "edit"
  /\ ed' = SetLines(ed, Split(file))
  /\ UNCHANGED <<query, saved, kind, file, keys, before, damaged, stale>>

(* vfs_read_file gives NULL for a file that is not there, for a directory  *)
(* and for a file it cannot read.  In all three cases the session starts   *)
(* with an empty line if vfs_touch answers 0, which zeros_touch does for   *)
(* whatever exists; h_touch refuses a directory.                           *)
editor_load_null ==
  /\ mode = "open"
  /\ \/ /\ mode' = "edit" /\ ed' = SetLines(ed, << <<>> >>)
        /\ kind' = IF kind = "missing" THEN "file" ELSE kind
        /\ damaged' = (file # <<>>)
     \/ mode' = "done" /\ UNCHANGED <<ed, kind, damaged>>
  /\ UNCHANGED <<query, saved, file, keys, before, stale>>

(* editor_process_key: a key that edits takes a snapshot first; every key  *)
(* ends with editor_clamp_cursor.                                          *)
Key == mode = "edit" /\ keys < MaxKeys /\ keys' = keys + 1

EditWith(e) ==
  /\ ed' = editor_clamp_cursor(e)
  /\ before' = Append(before, [lines |-> ed.lines, cx |-> ed.cx, cy |-> ed.cy])
  /\ UNCHANGED <<query, saved, kind, file, damaged>>

KEY_CHAR(c) ==
  /\ Key /\ EditWith(editor_insert_char(editor_snap_push(ed), c))
  /\ UNCHANGED <<mode, stale>>

KEY_TAB ==
  /\ Key /\ EditWith(InsertTab(editor_snap_push(ed)))
  /\ UNCHANGED <<mode, stale>>

KEY_BACKSP ==
  /\ Key /\ EditWith(editor_delete_char(editor_snap_push(ed)))
  /\ UNCHANGED <<mode, stale>>

KEY_DEL ==
  /\ Key /\ EditWith(editor_delete_forward(editor_snap_push(ed)))
  /\ UNCHANGED <<mode, stale>>

KEY_ENTER ==
  /\ Key /\ EditWith(editor_insert_newline(editor_snap_push(ed)))
  /\ UNCHANGED <<mode, stale>>

(* Enter with e->lines full, and realloc moves it: either the write goes   *)
(* through the old contents of the freed array, or through what the        *)
(* allocator has put there, and the process dies.                          *)
KEY_ENTER_moved ==
  /\ Key /\ Full(ed) /\ stale' = TRUE
  /\ \/ EditWith(StaleNewLine(editor_snap_push(ed))) /\ UNCHANGED mode
     \/ mode' = "crashed"
        /\ UNCHANGED <<ed, query, saved, kind, file, before, damaged>>

Move(e) ==
  /\ mode = "edit" /\ ed' = editor_clamp_cursor(e)
  /\ UNCHANGED <<mode, query, saved, kind, file, keys, before, damaged, stale>>

KEY_UP      == Move([ed EXCEPT !.cy = @ - 1])
KEY_DOWN    == Move([ed EXCEPT !.cy = @ + 1])
KEY_PAGE_UP == Move([ed EXCEPT !.cy = @ - ScreenRows])
KEY_PAGE_DN == Move([ed EXCEPT !.cy = @ + ScreenRows])
KEY_HOME    == Move([ed EXCEPT !.cx = 0])
KEY_END     == Move(IF Phantom(ed) THEN ed ELSE [ed EXCEPT !.cx = Len(Cur(ed))])
KEY_LEFT    == Move(IF ed.cx > 0 THEN [ed EXCEPT !.cx = @ - 1]
                    ELSE IF ed.cy > 0
                    THEN [ed EXCEPT !.cy = @ - 1, !.cx = Len(ed.lines[ed.cy])]
                    ELSE ed)
KEY_RIGHT   == Move(IF Phantom(ed) THEN ed
                    ELSE IF ed.cx < Len(Cur(ed)) THEN [ed EXCEPT !.cx = @ + 1]
                    ELSE [ed EXCEPT !.cy = @ + 1, !.cx = 0])

CTRL_Z ==
  /\ Key /\ ed.undo # <<>>
  /\ ed' = editor_clamp_cursor(editor_snap_pop(ed))
  /\ before' = SubSeq(before, 1, Len(before) - 1)
  /\ UNCHANGED <<mode, query, saved, kind, file, damaged, stale>>

CTRL_Q ==
  /\ mode = "edit"
  /\ IF ed.dirty /\ ed.quit_confirm > 0
     THEN ed' = [ed EXCEPT !.quit_confirm = @ - 1] /\ UNCHANGED mode
     ELSE mode' = "done" /\ UNCHANGED ed
  /\ UNCHANGED <<query, saved, kind, file, keys, before, damaged, stale>>

(* editor_save, with vfs_write_file's answers.  Success: *)
Mut_save_ok ==
  /\ kind = "file" /\ file' = Serialize(SubSeq(ed.lines, 1, nlines(ed) - 1))
  /\ ed' = [ed EXCEPT !.dirty = FALSE, !.quit_confirm = 1]
  /\ UNCHANGED damaged

save_ok ==
  /\ kind = "file" /\ file' = Serialize(ed.lines)
  /\ ed' = [ed EXCEPT !.dirty = FALSE, !.quit_confirm = 1]
  /\ damaged' = FALSE

(* -1: zeros_write_file reports every failure, a directory too, and may    *)
(* have let the old text go first; h_write_file reports one of fopen.      *)
save_error ==
  /\ UNCHANGED ed /\ file' \in {file, <<>>}
  /\ damaged' = (damaged \/ (~ed.dirty /\ file' # file))

(* 0 from h_write_file, which does not look at what fwrite and fclose      *)
(* answer: the end of the text may be missing.                             *)
save_short ==
  /\ kind = "file" /\ file' = SubSeq(Serialize(ed.lines), 1, Len(Serialize(ed.lines)) \div 2)
  /\ ed' = [ed EXCEPT !.dirty = FALSE, !.quit_confirm = 1]
  /\ damaged' = TRUE

CTRL_S ==
  /\ Key /\ (save_ok \/ save_error \/ save_short)
  /\ UNCHANGED <<mode, query, saved, kind, before, stale>>

-----------------------------------------------------------------------------
(* editor_find: a loop of its own around read_key. *)

CTRL_F ==
  /\ Key /\ mode' = "find"
  /\ query' = <<>> /\ saved' = [cx |-> ed.cx, cy |-> ed.cy]
  /\ UNCHANGED <<ed, kind, file, before, damaged, stale>>

Find(q, dir) ==
  /\ mode = "find" /\ ed' = editor_find_next(ed, q, dir) /\ query' = q
  /\ UNCHANGED <<mode, saved, kind, file, keys, before, damaged, stale>>

find_char(c) == Len(query) < QueryMax /\ Find(Append(query, c), 1)
find_down    == query # <<>> /\ Find(query, 1)
find_up      == query # <<>> /\ Find(query, -1)

find_backsp ==
  /\ mode = "find" /\ query # <<>>
  /\ query' = SubSeq(query, 1, Len(query) - 1)
  /\ UNCHANGED <<ed, mode, saved, kind, file, keys, before, damaged, stale>>

LeaveFind(e) ==
  /\ mode = "find" /\ mode' = "edit" /\ query' = <<>>
  /\ ed' = editor_clamp_cursor(e)
  /\ saved' = [cx |-> 0, cy |-> 0]
  /\ UNCHANGED <<kind, file, keys, before, damaged, stale>>

find_enter == LeaveFind(ed)

find_esc == LeaveFind([ed EXCEPT !.cx = saved.cx, !.cy = saved.cy])

-----------------------------------------------------------------------------
Finished == mode \in {"done", "crashed"} /\ UNCHANGED vars

Next ==
  \/ editor_load \/ editor_load_null
  \/ \E c \in Letters : KEY_CHAR(c) \/ find_char(c)
  \/ KEY_TAB \/ KEY_BACKSP \/ KEY_DEL \/ KEY_ENTER \/ KEY_ENTER_moved
  \/ KEY_UP \/ KEY_DOWN \/ KEY_PAGE_UP \/ KEY_PAGE_DN
  \/ KEY_HOME \/ KEY_END \/ KEY_LEFT \/ KEY_RIGHT
  \/ CTRL_Z \/ CTRL_Q \/ CTRL_S
  \/ CTRL_F \/ find_down \/ find_up \/ find_backsp \/ find_enter \/ find_esc
  \/ Finished

Spec == Init /\ [][Next]_vars
-----------------------------------------------------------------------------
Text == Seq(Letters \cup {SP, NL, NUL})

TypeOK ==
  /\ ed.lines \in Seq(Seq(Letters \cup {SP, NUL})) /\ {ed.cx, ed.cy, ed.lines_cap} \subseteq Nat
  /\ ed.dirty \in BOOLEAN /\ ed.quit_confirm \in {0, 1}
  /\ \A i \in 1 .. Len(ed.undo) : ed.undo[i].text \in Text
  /\ Len(ed.undo) <= UndoMax /\ nlines(ed) <= ed.lines_cap
  /\ mode \in {"open", "edit", "find", "done", "crashed"}
  /\ query \in Seq(Letters) /\ Len(query) <= QueryMax
  /\ kind \in {"file", "missing", "dir"}
  /\ file \in Text /\ {damaged, stale} \subseteq BOOLEAN
  /\ keys \in 0 .. MaxKeys

(* Every position the editor computes with is inside the text: the cursor  *)
(* stays in its line after any key, and after a search that was cancelled  *)
(* or that landed somewhere.  editor_insert_newline and line_delete_char   *)
(* copy Len - cx bytes from there without a test.                          *)
CursorInside ==
  mode \in {"edit", "find"} =>
    /\ nlines(ed) >= 1 /\ ed.cy <= nlines(ed)
    /\ ed.cx <= IF Phantom(ed) THEN 0 ELSE Len(Cur(ed))

(* The undo stack is the newest part of the history of edits: each level   *)
(* is the text and the cursor as they were before that edit, through       *)
(* serialization and splitting, and when the stack is full only the oldest *)
(* levels are forgotten.                                                   *)
UndoMatches ==
  /\ Len(ed.undo) <= Len(before)
  /\ \A i \in 1 .. Len(ed.undo) :
       LET u == ed.undo[i]
           b == before[Len(before) - Len(ed.undo) + i]
       IN  Split(u.text) = b.lines /\ u.cx = b.cx /\ u.cy = b.cy

(* A session that shows no "[+]" can be left without losing anything:      *)
(* opening the file again gives the text on the screen.  The exceptions    *)
(* are a file that could not be read and is shown as an empty one, a save  *)
(* that failed over unchanged text, and a write that the host backend      *)
(* reports as done when it is not.                                         *)
CleanMeansSaved ==
  mode \in {"edit", "find"} /\ ~ed.dirty /\ ~damaged => Split(file) = ed.lines

(* What each key does to the text as one string, t, with the cursor at     *)
(* offset At: insertions and deletions happen at the cursor and nowhere    *)
(* else, across the ends of lines too, and the cursor follows them.        *)
Flat(e) == LET t == Serialize(e.lines) IN SubSeq(t, 1, Len(t) - 1)
At(e)   == Len(Serialize(SubSeq(e.lines, 1, e.cy))) + e.cx

Inserted(ins) ==
  LET t == Flat(ed) \o (IF Phantom(ed) THEN <<NL>> ELSE <<>>)
  IN  /\ Flat(ed)' = SubSeq(t, 1, At(ed)) \o ins \o SubSeq(t, At(ed) + 1, Len(t))
      /\ At(ed)' = At(ed) + Len(ins)

Deleted(at) ==
  LET t == Flat(ed)
  IN  /\ Flat(ed)' = IF at \in 1 .. Len(t) /\ ~Phantom(ed)
                     THEN SubSeq(t, 1, at - 1) \o SubSeq(t, at + 1, Len(t)) ELSE t
      /\ At(ed)' = IF at \in 1 .. Len(t) /\ ~Phantom(ed) THEN at - 1 ELSE At(ed)

EditsAreLocal ==
  [][/\ \A c \in Letters : KEY_CHAR(c) => Inserted(<<c>>)
     /\ KEY_TAB => Inserted([i \in 1 .. TabSize |-> SP])
     /\ KEY_BACKSP => Deleted(At(ed))
     /\ KEY_DEL => Deleted(At(ed) + 1)
     /\ KEY_ENTER /\ ~Phantom(ed) =>
          Inserted(<<NL>> \o SubSeq(Cur(ed), 1, line_indent_len(Cur(ed))))]_vars

(* A search lands on an occurrence of the term, gives up only when the     *)
(* text has none, and changes no text; cancelling it puts the cursor back  *)
(* where it was when the search began.                                     *)
SearchFinds ==
  [][/\ (find_down \/ find_up \/ \E c \in Letters : find_char(c)) /\ ~stale =>
          IF \E i \in 1 .. nlines(ed) : Occurrences(query', ed.lines[i]) # {}
          THEN ed'.cx \in Occurrences(query', Cur(ed'))
          ELSE ed' = ed
     /\ mode = "find" => ed'.lines = ed.lines /\ ed'.undo = ed.undo
     /\ find_esc => ed'.cx = saved.cx /\ ed'.cy = saved.cy]_vars

(* "Dividimos la linea actual en la posicion del cursor" (editor.c:316),   *)
(* "Truncamos la linea actual" (editor.c:339): Enter inserts a line break  *)
(* and the indentation at the cursor, also when the array of lines is full *)
(* and realloc moves it.                                                   *)
EnterSplits ==
  [][KEY_ENTER_moved /\ mode' = "edit" =>
       Inserted(<<NL>> \o SubSeq(Cur(ed), 1, line_indent_len(Cur(ed))))]_vars
=============================================================================
