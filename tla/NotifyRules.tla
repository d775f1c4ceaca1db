----------------------------- MODULE NotifyRules -----------------------------
(***************************************************************************)
(* The rules by which notify-kit makes a message of an event: what an      *)
(* event says after it was edited (event.rs), what fits in a message       *)
(* (sinks/text.rs), how Markdown becomes lines (sinks/markdown.rs) and the *)
(* lines a post (sinks/feishu/payload.rs); which files an image may be     *)
(* (sinks/feishu/media.rs) and which paths a webhook may have (http-kit    *)
(* url.rs); and the hub that the environment describes (env.rs).           *)
(*                                                                         *)
(* A question is put and answered; the answers are compared with what the  *)
(* rules are for.  A text is a sequence of characters.                     *)
(***************************************************************************)
EXTENDS Integers, Sequences, SequencesExt, FiniteSets

CONSTANTS NoticeQuestions,   \* what is asked
          ClipLimits         \* TextLimits but for max_chars

Dots == <<".", ".", ".">>
Unanswered == <<>>

VARIABLES noticeQuestion, notice

noticeVars == <<noticeQuestion, notice>>

NoticeInit == noticeQuestion \in NoticeQuestions /\ notice = Unanswered

Chars(n, c) == [i \in 1..n |-> c]
Least(a, b) == IF a < b THEN a ELSE b

-----------------------------------------------------------------------------
(* Texts that fit. *)

\* truncate_chars_cow
Clip(text, max) ==
    CASE Len(text) <= max -> text
      [] Len(text) > max /\ max > 3 -> SubSeq(text, 1, max - 3) \o Dots
      [] OTHER -> SubSeq(text, 1, max)

\* LimitedChars
IsFull(out, max) == out.cut \/ Len(out.text) >= max
Push(out, text, max) ==
    IF IsFull(out, max) THEN out
    ELSE [text |-> out.text \o SubSeq(text, 1, Least(Len(text), max - Len(out.text))),
          cut |-> Len(text) > max - Len(out.text)]
Finish(out, max) ==
    IF out.cut /\ max > 3 THEN SubSeq(out.text, 1, max - 3) \o Dots ELSE out.text

\* What a bug would do: start a line in the last place there is.
AddLineTight(out, pieces, max) ==
    IF IsFull(out, max) THEN out
    ELSE FoldLeft(LAMBDA o, piece : Push(o, piece, max),
                  IF out.text = <<>> THEN out ELSE [out EXCEPT !.text = Append(@, "nl")], pieces)

\* One line more of format_event_text_parts_limited, piece by piece
AddLine(out, pieces, max) ==
    CASE IsFull(out, max) -> out
      [] ~IsFull(out, max) /\ out.text # <<>> /\ max - Len(out.text) <= 1 -> [out EXCEPT !.cut = TRUE]
      [] OTHER -> FoldLeft(LAMBDA o, piece : Push(o, piece, max),
                           IF out.text = <<>> THEN out ELSE [out EXCEPT !.text = Append(@, "nl")],
                           pieces)

\* The lines of an event; a tag without a value is none
EventLines(event, withTitle) ==
    LET tags == SelectSeq(event.tags, LAMBDA tag : tag.value # <<>>)
    IN (IF withTitle /\ event.title # <<>> THEN <<<<Clip(event.title, ClipLimits.title)>>>> ELSE <<>>)
       \o (IF event.body # <<>> THEN <<<<Clip(event.body, ClipLimits.body)>>>> ELSE <<>>)
       \o [i \in 1..Least(Len(tags), ClipLimits.tags) |->
             <<Clip(tags[i].key, ClipLimits.key), <<"=">>, Clip(tags[i].value, ClipLimits.value)>>]

\* format_event_text_limited, format_event_body_and_tags_limited
EventText(event, withTitle, max) ==
    Finish(FoldLeft(LAMBDA out, pieces : AddLine(out, pieces, max),
                    [text |-> <<>>, cut |-> FALSE], EventLines(event, withTitle)), max)

-----------------------------------------------------------------------------
(* Markdown, and the post that is made of it. *)

Said(text) == [is |-> "text", text |-> text]
LastIs(line, kind) == line # <<>> /\ line[Len(line)].is = kind

\* push_text: joins a text that is there
PushText(line, text) ==
    IF LastIs(line, "text") THEN [line EXCEPT ![Len(line)].text = @ \o text]
    ELSE Append(line, Said(text))

Flushed(md) ==
    IF md.line = <<>> THEN md ELSE [md EXCEPT !.lines = Append(@, md.line), !.line = <<>>]

\* Text, code and HTML go to the innermost image, else to the innermost link
Writes(md, text) ==
    CASE md.images # <<>> -> [md EXCEPT !.images[Len(md.images)] = @ \o text]
      [] md.images = <<>> /\ md.links # <<>> -> [md EXCEPT !.links[Len(md.links)] = @ \o text]
      [] OTHER -> [md EXCEPT !.line = PushText(@, text)]

\* One event of the parser, in parse_markdown_lines
Marked(md, event) ==
    CASE event = "link"  -> [md EXCEPT !.links = Append(@, <<>>)]
      [] event = "image" -> [md EXCEPT !.images = Append(@, <<>>)]
      [] event = "/link" ->
           LET text == Last(md.links)
           IN [md EXCEPT !.links = Front(@),
                         !.line = Append(@, [is |-> "link", text |-> IF text = <<>> THEN <<"href">> ELSE text])]
      [] event = "/image" ->
           [md EXCEPT !.images = Front(@), !.line = Append(@, [is |-> "image", text |-> Last(md.images)])]
      [] event = "code" -> [md EXCEPT !.code = TRUE]
      [] event = "/code" -> Flushed([md EXCEPT !.code = FALSE])
      [] event = "break" /\ md.code -> [md EXCEPT !.line = PushText(@, <<"nl">>)]
      [] event \in {"/block"} \/ (event = "break" /\ ~md.code) -> Flushed(md)
      [] OTHER -> Writes(md, <<event>>)

MarkdownLines(events) ==
    Flushed(FoldLeft(Marked, [lines |-> <<>>, line |-> <<>>, links |-> <<>>, images |-> <<>>, code |-> FALSE],
                     events)).lines

\* take_text_budget
Spend(row, left, entry) ==
    LET text == Clip(entry.text, left)
    IN IF text = <<>> THEN [row |-> row, left |-> left]
       ELSE [row |-> Append(row, [entry EXCEPT !.text = text]), left |-> left - Len(text)]

\* An image with a key costs nothing; one without is a text
RowOf(line, left, keys) ==
    FoldLeft(LAMBDA acc, entry :
               IF entry.is = "image" /\ entry.text \in keys
               THEN [acc EXCEPT !.row = Append(@, [is |-> "key", text |-> <<>>])]
               ELSE Spend(acc.row, acc.left, IF entry.is = "image" THEN Said(<<"image">> \o entry.text) ELSE entry),
             [row |-> <<>>, left |-> left], line)

\* The rows of build_payload; a message without rows is a plain text
PostRows(lines, tags, max, keys) ==
    LET add(acc, line) ==
            IF acc.over THEN acc
            ELSE LET made == RowOf(line, acc.left, keys)
                 IN [rows |-> IF made.row = <<>> THEN acc.rows ELSE Append(acc.rows, made.row),
                     left |-> made.left, over |-> made.left = 0]
        body == FoldLeft(add, [rows |-> <<>>, left |-> max, over |-> FALSE], lines)
    IN FoldLeft(add, [body EXCEPT !.over = body.left = 0], tags).rows

-----------------------------------------------------------------------------
(* Edits of an event, paths of webhooks, the environment. *)

NoPlain == <<"nothing">>

\* TextProjection, OptionalTextProjection, TagProjection: the plain text that is kept
\* beside a text from a catalog
Edited(field, edit) ==
    CASE edit.do = "plain"   -> [set |-> TRUE, plain |-> edit.text]
      [] edit.do = "catalog" -> [set |-> TRUE, plain |-> field.plain]
      [] edit.do = "clear"   -> [set |-> FALSE, plain |-> NoPlain]

\* What a sink is shown: nothing, if the field is not there
Rendered(edits) ==
    LET field == FoldLeft(Edited, [set |-> FALSE, plain |-> NoPlain], edits)
    IN IF field.set THEN field.plain ELSE <<"absent">>

\* validate_url_path_prefix
AllowsPath(path, prefix) ==
    CASE prefix = <<>> -> FALSE
      [] prefix # <<>> /\ Last(prefix) = "/" -> IsPrefix(prefix, path)
      [] OTHER -> \/ path = prefix
                  \/ IsStrictPrefix(prefix, path) /\ path[Len(prefix) + 1] = "/"

\* normalize_relative_local_image_path: one component more, below a root
Steps(root, symlinks, walk, component) ==
    CASE walk.is # "under" -> walk
      [] walk.is = "under" /\ component = ".." ->
           IF walk.at = <<>> THEN [walk EXCEPT !.is = "outside"] ELSE [walk EXCEPT !.at = Front(@)]
      [] OTHER -> IF root \o walk.at \o <<component>> \in symlinks THEN [walk EXCEPT !.is = "error"]
                  ELSE [walk EXCEPT !.at = Append(@, component)]

\* resolve_relative_local_image_path_within_root
WithinRoot(root, from, symlinks) ==
    IF ~IsPrefix(root, from) THEN [is |-> "outside", at |-> <<>>]
    ELSE LET walk == FoldLeft(LAMBDA w, c : Steps(root, symlinks, w, c),
                              [is |-> "under", at |-> <<>>], SubSeq(from, Len(root) + 1, Len(from)))
         IN IF walk.is = "under" /\ walk.at = <<>> THEN [walk EXCEPT !.is = "error"] ELSE walk

\* resolve_allowed_local_image_path: the first root that has it or finds it wrong
ImageFile(q) ==
    LET from == IF q.absolute THEN q.path ELSE q.base \o q.path
        walks == [i \in DOMAIN q.roots |-> WithinRoot(q.roots[i], from, q.symlinks)]
        decisive == {i \in DOMAIN walks : walks[i].is # "outside"}
    IN IF decisive = {} THEN <<"error", <<>>>>
       ELSE LET i == CHOOSE i \in decisive : \A j \in decisive : i <= j
            IN IF walks[i].is = "error" THEN <<"error", <<>>>> ELSE <<"file", q.roots[i] \o walks[i].at>>

\* hub_timeout_with_slack
WithSlack(timeout) ==
    timeout + (IF timeout \div 5 < 250 THEN 250 ELSE Least(timeout \div 5, 1000))

\* A timeout that is not a number; 0 is one that is not set, and -1 the 0 that counts as 1.
Malformed == -2

\* parse_timeout_config; all three are parsed before one is chosen
Timeouts(env) ==
    LET given(v) == IF v = -1 THEN 1 ELSE v
        sink == CASE env.sink # 0 -> given(env.sink)
                  [] env.sink = 0 /\ env.legacy # 0 -> given(env.legacy)
                  [] OTHER -> 5000
        hub == IF env.hub # 0 THEN given(env.hub) ELSE WithSlack(sink)
    IN IF Malformed \in {env.sink, env.legacy, env.hub} \/ hub <= sink THEN {}
       ELSE {[sink |-> sink, hub |-> hub]}

\* build_hub_from_env: no hub, and an error if one is required, where there is no sink
HubOf(env) ==
    LET sinks == env.webhooks \cup (IF env.sound = "yes" \/ (env.sound = "unset" /\ env.soundDefault)
                                    THEN {"sound"} ELSE {})
    IN IF env.sound = "bad" \/ Timeouts(env) = {} \/ "bad" \in env.webhooks
          \/ (sinks = {} /\ env.required)
       THEN [is |-> "error"]
       ELSE IF sinks = {} THEN [is |-> "none"]
       ELSE [is |-> "hub", sinks |-> sinks, timeout |-> (CHOOSE t \in Timeouts(env) : TRUE).hub,
             kinds |-> IF env.events = {} THEN "all" ELSE "listed"]

-----------------------------------------------------------------------------

\* What each rule answers
AnswersNotice(q) ==
    CASE q.of = "text"     -> EventText(q.event, q.withTitle, q.max)
      [] q.of = "markdown" -> MarkdownLines(q.events)
      [] q.of = "post"     -> PostRows(q.lines, q.tags, q.max, q.keys)
      [] q.of = "edits"    -> Rendered(q.edits)
      [] q.of = "image"    -> ImageFile(q)
      [] q.of = "path"     -> AllowsPath(q.path, q.prefix)
      [] q.of = "env"      -> HubOf(q.env)

NoticeNext ==
    /\ notice = Unanswered
    /\ notice' = <<AnswersNotice(noticeQuestion)>> /\ UNCHANGED noticeQuestion

-----------------------------------------------------------------------------
(* What the rules are for. *)

Asked(about) == notice # Unanswered /\ noticeQuestion.of = about

\* All of an event, however long
WholeText(event, withTitle) ==
    LET joined(line) == FoldLeft(LAMBDA acc, piece : acc \o piece, <<>>, line)
    IN FoldLeft(LAMBDA acc, line : IF acc = <<>> THEN joined(line) ELSE acc \o <<"nl">> \o joined(line),
                <<>>, EventLines(event, withTitle))

(***************************************************************************)
(* A message has no more characters than its sink allows.  If the event    *)
(* fits it is there whole; if not, the message is its beginning, cut at    *)
(* the limit and marked as cut unless the limit leaves no room for the     *)
(* mark or a line happens to end there, and no line is begun in vain.      *)
(***************************************************************************)
TextsFit ==
    Asked("text") =>
        LET q == noticeQuestion
            text == notice[1]
            whole == WholeText(q.event, q.withTitle)
        IN /\ Len(text) <= q.max
           /\ Len(whole) <= q.max => text = whole
           /\ Len(whole) > q.max =>
                \/ q.max > 3 /\ text = SubSeq(whole, 1, q.max - 3) \o Dots
                \/ IsPrefix(text, whole) /\ (q.max > 3 => Len(text) = q.max)
           /\ text # <<>> => Last(text) # "nl"

Letters == {"a", "b"}
CountOf(lines, c) ==
    FoldLeft(LAMBDA n, line : FoldLeft(LAMBDA k, entry :
                 k + Cardinality({i \in DOMAIN entry.text : entry.text[i] = c}), n, line), 0, lines)

(***************************************************************************)
(* Markdown becomes lines that have each character once: in a text, a      *)
(* link or the description of an image, however they are nested; and no    *)
(* line is empty.                                                          *)
(***************************************************************************)
MarkdownIsKept ==
    Asked("markdown") =>
        /\ \A c \in Letters :
             CountOf(notice[1], c) = Cardinality({i \in DOMAIN noticeQuestion.events : noticeQuestion.events[i] = c})
        /\ <<>> \notin Range(notice[1])

(***************************************************************************)
(* A post has no more characters than its budget, in the order of the      *)
(* lines; and either the budget is spent or nothing is missing: every text *)
(* whole, every image as its key or as a text.                             *)
(***************************************************************************)
PostsFit ==
    Asked("post") =>
        LET q == noticeQuestion
            rows == notice[1]
            sum(rs) == FoldLeft(LAMBDA n, row : FoldLeft(LAMBDA k, e : k + Len(e.text), n, row), 0, rs)
            shown(e) == CASE e.is = "image" /\ e.text \in q.keys -> [is |-> "key", text |-> <<>>]
                          [] e.is = "image" /\ e.text \notin q.keys -> Said(<<"image">> \o e.text)
                          [] OTHER -> e
        IN /\ sum(rows) <= q.max
           /\ sum(rows) < q.max =>
                rows = [i \in 1..Len(q.lines) |-> [j \in DOMAIN q.lines[i] |-> shown(q.lines[i][j])]] \o q.tags

(***************************************************************************)
(* A field that was edited shows the plain text it was given last, even    *)
(* where a text of a catalog has replaced it since, and nothing of what    *)
(* it said before it was cleared.                                          *)
(***************************************************************************)
EditsAreShown ==
    Asked("edits") =>
        LET edits == noticeQuestion.edits
            since == {i \in DOMAIN edits : \A j \in i..Len(edits) : edits[j].do # "clear"}
            plain == {i \in since : edits[i].do = "plain"}
        IN notice[1] = CASE since = {} -> <<"absent">>
                         [] since # {} /\ plain = {} -> NoPlain
                         [] OTHER -> edits[CHOOSE i \in plain : \A j \in plain : j <= i].text

(***************************************************************************)
(* A webhook may have the paths at and under the prefix of its provider    *)
(* and no others: a longer name that begins like it is not under it.       *)
(***************************************************************************)
PathsStayUnder ==
    Asked("path") =>
        LET path == noticeQuestion.path
            prefix == noticeQuestion.prefix
            segments == Len(prefix) + (IF prefix # <<>> /\ Last(prefix) = "/" THEN 0 ELSE 1)
        IN notice[1] <=> /\ prefix # <<>>
                         /\ \/ path = prefix
                            \/ IsPrefix(prefix, path) /\ Len(path) >= segments /\ path[segments] = "/"

(***************************************************************************)
(* A file that is read for an image is the one its path leads to, below a  *)
(* root and through no symlink below it; without detours it is found.      *)
(***************************************************************************)
ImagesStayBelow ==
    Asked("image") =>
        LET q == noticeQuestion
            from == IF q.absolute THEN q.path ELSE q.base \o q.path
            up(at, c) == IF c # ".." THEN Append(at, c) ELSE IF at = <<>> THEN at ELSE Front(at)
            lexical == FoldLeft(up, <<>>, from)
            file == notice[1][2]
            below(root) == IsStrictPrefix(root, file) /\ \A n \in Len(root) + 1..Len(file) : SubSeq(file, 1, n) \notin q.symlinks
        IN /\ notice[1][1] = "file" => file = lexical /\ \E i \in DOMAIN q.roots : below(q.roots[i])
           /\ ".." \notin Range(from) /\ q.symlinks = {} /\ (\E i \in DOMAIN q.roots : IsStrictPrefix(q.roots[i], from))
                /\ (\A i \in DOMAIN q.roots : q.roots[i] # from)
              => notice[1] = <<"file", from>>

(***************************************************************************)
(* A hub made from the environment waits longer for its sinks than they    *)
(* wait themselves; a timeout that is given for the sinks alone is never   *)
(* refused, and one that is no number always, also where it is overridden. *)
(***************************************************************************)
HubOutlastsSinks ==
    Asked("env") =>
        LET env == noticeQuestion.env
        IN /\ notice[1].is = "hub" => \A t \in Timeouts(env) : notice[1].timeout > t.sink
           /\ env.hub = 0 /\ env.sink # Malformed /\ env.legacy # Malformed => Timeouts(env) # {}
           /\ Malformed \in {env.sink, env.legacy, env.hub} => notice[1].is = "error"

NoticesSayTheEvent ==
    /\ TextsFit /\ MarkdownIsKept /\ PostsFit
    /\ EditsAreShown /\ ImagesStayBelow /\ PathsStayUnder /\ HubOutlastsSinks

=============================================================================
