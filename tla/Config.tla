------------------------------- MODULE Config -------------------------------
(***************************************************************************)
(* The configuration library: config.c over the line reader of cfg_util.c. *)
(* A handle holds a head comment and sections of keys; a file is a sequence *)
(* of lines.  A comment is the sequence of its lines.  Names and values     *)
(* are free of the characters trim and the line types give a meaning to,   *)
(* and files hold no line of an unknown type.                              *)
(***************************************************************************)
EXTENDS Integers, Sequences, SequencesExt

CONSTANTS
  Section, Key,   \* names; "" names the default section
  Lower,          \* what strcasecmp compares of a name
  Value,          \* values, "" among them
  Text,           \* lines of comments, "" among them
  Comment,        \* comments a caller sets
  NULL,
  FirstFiles,     \* contents the file may have at first
  MaxCalls        \* bound: calls of the library

Lines == Seq(Text) \ {<<>>}
Note  == Lines \cup {NULL}

KeyRec     == [name : Key, value : Value \cup {NULL}, comment : Note]
SectionRec == [name : Section, comment : Note, keys : Seq(KeyRec)]

Remark(t)     == [type |-> "comment", text |-> t]
EmptyLine     == [type |-> "empty", text |-> ""]
Header(n)     == [type |-> "section", text |-> n]
Setting(n, v) == [type |-> "key", text |-> n, value |-> v]

Line ==
  [type : {"comment"}, text : Text] \cup {EmptyLine} \cup [type : {"section"}, text : Section]
    \cup [type : {"key"}, text : Key, value : Value]

ASSUME ConfigAssumption ==
  /\ Lower \in [Section \cup Key -> Section \cup Key] /\ "" \in Section /\ "" \notin Key
  /\ "" \in Value /\ "" \in Text /\ Comment \subseteq Lines /\ FirstFiles \subseteq Seq(Line)
  /\ NULL \notin Value \cup Lines \cup SectionRec \cup Seq(SectionRec) /\ MaxCalls \in Nat

VARIABLES
  cfg,        \* [comment, sections] of the open handle
  path,       \* "file", or NULL: the handle was opened without a path
  modified,
  state,      \* "closed", "open" or "crashed"
  disk,       \* the lines of the one file
  calls

vars == <<cfg, path, modified, state, disk, calls>>

Blank == [comment |-> NULL, sections |-> <<>>]
NoKeys(n, c) == [name |-> n, comment |-> c, keys |-> <<>>]

-----------------------------------------------------------------------------
(* Looking up, adding and merging.                                         *)

\* Seeded fault: names are compared with strcmp.
Same_Exact(m, n) == m = n
Same(m, n) == Lower[m] = Lower[n]

\* cfg_get_key_index, cfg_get_section_index: 0 for none.
Index(items, n) == SelectInSeq(items, LAMBDA x : Same(x.name, n))

\* cfg_add_key, or cfg_merge_key into the key that is there.
MergeKey(keys, k) ==
  LET i == Index(keys, k.name) IN
  IF i = 0 THEN Append(keys, k)
  ELSE [keys EXCEPT ![i].value = k.value, ![i].comment = k.comment]

\* The default section has no header line, so it must come first.
\* Seeded fault: it is added last like any other.
cfg_add_section_Last(sections, s) == Append(sections, s)
cfg_add_section(sections, s) ==
  IF s.name = "" THEN <<s>> \o sections ELSE Append(sections, s)

\* The comment of a section that is already there stays.
MergeSection(sections, s) ==
  LET i == Index(sections, s.name) IN
  IF i = 0 THEN cfg_add_section(sections, s)
  ELSE [sections EXCEPT ![i].keys = FoldLeft(MergeKey, @, s.keys)]

-----------------------------------------------------------------------------
(* Writing.                                                                *)

\* split leaves out an empty piece at the end.
\* Seeded fault: it keeps the piece.
Pieces_All(c) == c
Pieces(c) == IF c # <<>> /\ Last(c) = "" THEN Front(c) ELSE c

cfg_write_comment(c) ==
  IF c = NULL THEN <<>>
  ELSE [i \in DOMAIN Pieces(c) |-> IF c[i] = "" THEN EmptyLine ELSE Remark(c[i])]

cfg_write_key(k) ==
  Append(cfg_write_comment(k.comment), Setting(k.name, IF k.value = NULL THEN "" ELSE k.value))

cfg_write_section(s) ==
  cfg_write_comment(s.comment)
    \o (IF s.name = "" THEN <<>> ELSE <<Header(s.name)>>)
    \o FlattenSeq([i \in DOMAIN s.keys |-> cfg_write_key(s.keys[i])])

cfg_write(c) ==
  (IF c.comment = NULL THEN <<>> ELSE Append(cfg_write_comment(c.comment), EmptyLine))
    \o FlattenSeq([i \in DOMAIN c.sections |-> Append(cfg_write_section(c.sections[i]), EmptyLine)])

-----------------------------------------------------------------------------
(* Reading: one fold over the lines.  "above" is the comment read since the *)
(* last header or key, "open" the section being read (NULL before any).    *)

\* The comment above the first section is the head comment; if it has several
\* lines the last one becomes the section's.
\* Seeded fault: the line split off belongs to nobody.
SplitOff_Lost(c) == NULL
SplitOff(c) == IF c = NULL \/ Len(c) = 1 THEN NULL ELSE <<Last(c)>>

\* Seeded fault: a comment of one line is split too.
HeadOf_Always(c) == IF c = NULL THEN c ELSE Front(c)
HeadOf(c) == IF c = NULL \/ Len(c) = 1 THEN c ELSE Front(c)

Begin(r, n) ==
  IF r.open = NULL
  THEN [r EXCEPT !.comment = HeadOf(r.above), !.above = NULL,
                 !.open = NoKeys(n, SplitOff(r.above))]
  ELSE [r EXCEPT !.sections = MergeSection(@, r.open), !.above = NULL,
                 !.open = NoKeys(n, r.above)]

cfg_read_key(r, line) ==
  [r EXCEPT !.above = NULL,
            !.open.keys = MergeKey(@, [name |-> line.text, value |-> line.value,
                                       comment |-> r.above])]

ReadLine(r, line) ==
  CASE line.type = "comment" -> [r EXCEPT !.above = IF @ = NULL THEN <<line.text>> ELSE Append(@, line.text)]
    [] line.type = "empty"   -> [r EXCEPT !.above = IF @ = NULL THEN NULL ELSE Append(@, "")]
    [] line.type = "section" -> Begin(r, line.text)
    [] line.type = "key"     -> cfg_read_key(IF r.open = NULL THEN Begin(r, "") ELSE r, line)

\* At the end fgetline yields one more empty line, so any comment has several
\* lines then; without a section, cfg_add_section is given a null pointer.
Crash == [comment |-> NULL, sections |-> NULL]

cfg_read(lines) ==
  LET r == FoldLeft(ReadLine, [comment |-> NULL, sections |-> <<>>, open |-> NULL, above |-> NULL],
                    lines)
  IN  IF r.open # NULL
        THEN [comment |-> r.comment, sections |-> MergeSection(r.sections, r.open)]
      ELSE IF r.above # NULL THEN Crash ELSE Blank

-----------------------------------------------------------------------------
(* The calls of config.h.                                                  *)

TypeOK ==
  /\ cfg \in [comment : Note, sections : Seq(SectionRec)]
  /\ path \in {"file", NULL} /\ modified \in BOOLEAN
  /\ state \in {"closed", "open", "crashed"} /\ calls \in 0..MaxCalls

Init ==
  /\ cfg = Blank /\ path = NULL /\ modified = FALSE /\ state = "closed"
  /\ disk \in FirstFiles /\ calls = 0

Call(s) == state = s /\ calls < MaxCalls /\ calls' = calls + 1

\* Takes over what a file holds, unless reading it crashes.
Adopt(c) == IF c = Crash THEN state' = "crashed" /\ cfg' = Blank ELSE state' = "open" /\ cfg' = c

config_open(p) ==
  /\ Call("closed")
  /\ Adopt(IF p = NULL THEN Blank ELSE cfg_read(disk))
  /\ path' = p /\ modified' = FALSE
  /\ UNCHANGED disk

config_load ==
  /\ Call("open")
  /\ Adopt(cfg_read(disk))
  /\ modified' = TRUE
  /\ UNCHANGED <<path, disk>>

config_save ==
  /\ Call("open")
  /\ disk' = cfg_write(cfg)
  /\ UNCHANGED <<cfg, path, modified, state>>

config_close ==
  /\ Call("open")
  /\ disk' = IF modified /\ path # NULL THEN cfg_write(cfg) ELSE disk
  /\ state' = "closed" /\ cfg' = Blank
  /\ UNCHANGED <<path, modified>>

Update(c) == Call("open") /\ cfg' = c /\ modified' = TRUE /\ UNCHANGED <<path, state, disk>>

SectionAt(n) == Index(cfg.sections, n)
KeyAt(n, k)  == IF SectionAt(n) = 0 THEN 0 ELSE Index(cfg.sections[SectionAt(n)].keys, k)

\* The sections with n among them, and with key k in n among them.
WithSection(n) ==
  IF SectionAt(n) # 0 THEN cfg.sections ELSE cfg_add_section(cfg.sections, NoKeys(n, NULL))

WithKey(n, k) ==
  IF KeyAt(n, k) # 0 THEN cfg.sections
  ELSE LET w == WithSection(n) IN
       [w EXCEPT ![Index(w, n)].keys = Append(@, [name |-> k, value |-> NULL, comment |-> NULL])]

\* The sections w, with the key for k in n changed.
Change(w, n, k, f(_)) ==
  LET i == Index(w, n) IN [w EXCEPT ![i].keys[Index(w[i].keys, k)] = f(@)]

config_set_comment(c) == Update([cfg EXCEPT !.comment = c])

config_set_section_comment(n, c) ==
  LET w == WithSection(n) IN
  Update([cfg EXCEPT !.sections = [w EXCEPT ![Index(w, n)].comment = c]])

config_set_key_comment(n, k, c) ==
  Update([cfg EXCEPT !.sections = Change(WithKey(n, k), n, k, LAMBDA x : [x EXCEPT !.comment = c])])

\* The variants for integers, floats and booleans store a text the same way.
config_set_value_string(n, k, v) ==
  Update([cfg EXCEPT !.sections = Change(WithKey(n, k), n, k, LAMBDA x : [x EXCEPT !.value = v])])

config_delete_section(n) ==
  /\ SectionAt(n) # 0
  /\ Update([cfg EXCEPT !.sections = RemoveAt(@, SectionAt(n))])

config_delete_key(n, k) ==
  /\ KeyAt(n, k) # 0
  /\ Update([cfg EXCEPT !.sections[SectionAt(n)].keys = RemoveAt(@, KeyAt(n, k))])

config_delete_value(n, k) ==
  /\ KeyAt(n, k) # 0
  /\ Update([cfg EXCEPT !.sections = Change(@, n, k, LAMBDA x : [x EXCEPT !.value = NULL])])

\* config_get_value_string, in handle c.
Get(c, n, k, default) ==
  LET i == Index(c.sections, n) IN
  LET j == IF i = 0 THEN 0 ELSE Index(c.sections[i].keys, k) IN
  IF j # 0 /\ c.sections[i].keys[j].value # NULL THEN c.sections[i].keys[j].value ELSE default

Next ==
  \/ \E p \in {"file", NULL} : config_open(p)
  \/ config_load \/ config_save \/ config_close
  \/ \E c \in Comment \cup {NULL} : config_set_comment(c)
  \/ \E n \in Section :
       \/ config_delete_section(n)
       \/ \E c \in Comment \cup {NULL} : config_set_section_comment(n, c)
       \/ \E k \in Key :
            \/ config_delete_key(n, k) \/ config_delete_value(n, k)
            \/ \E c \in Comment \cup {NULL} : config_set_key_comment(n, k, c)
            \/ \E v \in Value \cup {NULL} : config_set_value_string(n, k, v)

Spec == Init /\ [][Next]_vars

-----------------------------------------------------------------------------
\* What the next handle finds if this one is saved now.
Reloaded == cfg_read(cfg_write(cfg))
Survives == state = "open" /\ Reloaded # Crash

\* Nothing but comments would be written.
HoldsNothing ==
  \A i \in DOMAIN cfg.sections : cfg.sections[i].name = "" /\ cfg.sections[i].keys = <<>>

\* The key is there, its value has been deleted.
Erased(n, k) == KeyAt(n, k) # 0 /\ cfg.sections[SectionAt(n)].keys[KeyAt(n, k)].value = NULL

\* Saving and loading keeps every setting, whatever comments, case variants and
\* default section are there: a lookup in the new handle finds the value it finds
\* in this one, and nothing where it finds nothing.  There is one exception: a
\* deleted value, for which this handle answers the default (config.c:1144), comes
\* back as the empty text.  Only a handle without any setting
\* makes a file that ends the program.
SettingsSurvive ==
  state = "open" =>
    IF Reloaded = Crash THEN HoldsNothing
    ELSE \A n \in Section, k \in Key, default \in Value \cup {NULL} :
           Get(Reloaded, n, k, default) = IF Erased(n, k) THEN "" ELSE Get(cfg, n, k, default)

\* Saving and loading keeps every line but blank ones, in order: the comment
\* moved from a section or a key to the head of the file stays before it.
Solid(lines) == FlattenSeq([i \in DOMAIN lines |->
                              IF lines[i].type = "empty" THEN <<>> ELSE <<lines[i]>>])
LinesSurvive == Survives => Solid(cfg_write(Reloaded)) = Solid(cfg_write(cfg))

\* From the second save of a handle on, a file that is loaded and saved again does
\* not grow: blank lines do not pile up with each restart.  The saves before may add
\* some of the writer's own; a later one may drop the last of several after a comment.
FilesSettle ==
  Survives => Len(cfg_write(cfg_read(cfg_write(Reloaded)))) <= Len(cfg_write(Reloaded))

\* No two sections, and no two keys of a section, have the same name: a call
\* that sets a value cannot leave an older value to be found.
NamesUnique ==
  LET Distinct(items) == \A i, j \in DOMAIN items :
        Lower[items[i].name] = Lower[items[j].name] => i = j
  IN  /\ Distinct(cfg.sections)
      /\ \A i \in DOMAIN cfg.sections : Distinct(cfg.sections[i].keys)
=============================================================================
