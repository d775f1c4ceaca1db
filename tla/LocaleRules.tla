---------------------------- MODULE LocaleRules ----------------------------
(****************************************************************************)
(* The rules of i18n-kit and i18n-runtime-kit that work on one request:     *)
(* which locale a request is answered with, what is left of a command line  *)
(* once its locale flag is taken, and what a template renders to.           *)
(* A question is put and answered; the answers are compared with what the   *)
(* rules are for.                                                           *)
(****************************************************************************)
EXTENDS Naturals, Sequences, FiniteSets, SequencesExt

CONSTANTS LocaleTags,      \* subtags of a request, case folded
          LanguageTags,    \* those that may be a language: 2 or 3 letters
          RegionTags,      \* those that may be a region: 2 letters or 3 digits
          ScriptTags,      \* those that may be a script: 4 letters
          MaxTags,
          EnabledSets,     \* the locales of a catalog
          DefaultLocales,
          MaxArgs,
          MaxTokens

NoTag == ""
NoQuestion == [of |-> "nothing"]
NoAnswer == [of |-> "nothing"]

VARIABLES question, answer

ruleVars == <<question, answer>>

Locale(language, script, region) ==
    [language |-> language, script |-> script, region |-> region]

-----------------------------------------------------------------------------
(* Locales. *)

\* NormalizedLocaleParts::parse: language[_script][_region]; a second subtag
\* is a region if it can be one
PartsOf(tags) ==
    CASE Len(tags) = 1 /\ tags[1] \in LanguageTags -> {Locale(tags[1], NoTag, NoTag)}
      [] Len(tags) = 2 /\ tags[1] \in LanguageTags /\ tags[2] \in RegionTags ->
             {Locale(tags[1], NoTag, tags[2])}
      [] Len(tags) = 2 /\ tags[1] \in LanguageTags /\ tags[2] \in ScriptTags \ RegionTags ->
             {Locale(tags[1], tags[2], NoTag)}
      [] Len(tags) = 3 /\ tags[1] \in LanguageTags /\ tags[2] \in ScriptTags
                       /\ tags[3] \in RegionTags -> {Locale(tags[1], tags[2], tags[3])}
      [] OTHER -> {}

\* locale_modifier_script, of the languages that have one
ScriptOfModifier(language, modifier) ==
    CASE language = "zh" /\ modifier = "traditional" -> "hant"
      [] language = "zh" /\ modifier = "simplified"  -> "hans"
      [] language = "sr" /\ modifier = "latin"       -> "latn"
      [] language = "sr" /\ modifier = "cyrillic"    -> "cyrl"
      [] OTHER -> NoTag

\* apply_locale_modifier: a script the locale contradicts spoils it; euro and
\* the modifiers it does not know are ignored
Modified(parts, modifier) ==
    LET script == ScriptOfModifier(parts.language, modifier)
    IN CASE script = NoTag \/ parts.script = script -> {parts}
         [] parts.script = NoTag /\ script # NoTag  -> {[parts EXCEPT !.script = script]}
         [] OTHER -> {}

\* A modifier of a character it may not have, and an empty one.
BadModifiers == {"b_d"}

\* The codeset is cut off; "@" is no part of an explicit request.
Normalized(q) ==
    IF q.explicit
    THEN IF q.modifier = NoTag THEN PartsOf(q.tags) ELSE {}
    ELSE IF q.modifier \in BadModifiers THEN {}
         ELSE UNION {Modified(parts, q.modifier) : parts \in PartsOf(q.tags)}

\* The script of Chinese follows from the region, where it is not given.
LikelyScript(parts) ==
    CASE parts.language = "zh" /\ parts.script = NoTag /\ parts.region \in {"cn", "sg", "my"} -> "hans"
      [] parts.language = "zh" /\ parts.script = NoTag /\ parts.region \in {"tw", "hk", "mo"} -> "hant"
      [] OTHER -> NoTag

\* What a bug would do: know no likely script.
CandidatesAsSpelled(parts) ==
    LET as(s, r) == Locale(parts.language, s, r)
    IN <<as(parts.script, parts.region), as(parts.script, NoTag), as(NoTag, parts.region),
         as(NoTag, NoTag)>>

\* the locale as it is, with the likely script, and with less and less
CandidatesOf(parts) ==
    LET script == parts.script   region == parts.region
        likely == LikelyScript(parts)
        as(s, r) == Locale(parts.language, s, r)
        if(condition, locale) == IF condition THEN <<locale>> ELSE <<>>
    IN <<as(script, region)>>
       \o if(likely # NoTag, as(likely, region))
       \o if(likely # NoTag, as(likely, NoTag))
       \o if(region # NoTag, as(script, NoTag))
       \o if(script # NoTag /\ region # NoTag, as(NoTag, region))
       \o if(script # NoTag \/ region # NoTag, as(NoTag, NoTag))

FirstEnabled(parts, enabled) == SelectSeq(CandidatesOf(parts), LAMBDA l : l \in enabled)

Refused(why) == [of |-> "locale", ok |-> FALSE, why |-> why]
Chosen(l) == [of |-> "locale", ok |-> TRUE, locale |-> l]

\* resolve_default
Defaulted(q) ==
    IF q.default \in q.enabled THEN Chosen(q.default) ELSE Refused("default not enabled")

\* resolve_explicit and resolve_environment
ResolvesLocale(q) ==
    LET found == UNION {Range(FirstEnabled(parts, q.enabled)) : parts \in Normalized(q)}
        first == CHOOSE parts \in Normalized(q) : TRUE
    IN CASE found # {} -> Chosen(Head(FirstEnabled(first, q.enabled)))
         [] found = {} /\ ~q.explicit -> Defaulted(q)
         [] found = {} /\ q.explicit /\ Normalized(q) = {} -> Refused("unknown")
         [] OTHER -> Refused("not enabled")

-----------------------------------------------------------------------------
(* Arguments.  "v" is a value, and a positional argument otherwise. *)

ArgKinds == {"--lang", "--lang=v", "--lang=", "-x", "v", "--"}
IsOption(arg) == arg # "v"

\* how far strip_locale_args is: mode "open", "value" after a flag, "rest" after
\* "--", or the error it ended with
Stripping == [mode |-> "open", allowed |-> TRUE, requested |-> NoTag, cleaned |-> <<>>]

\* set_requested_cli_locale
TakesLocale(s) == IF s.requested # NoTag THEN [s EXCEPT !.mode = "duplicate"]
               ELSE [s EXCEPT !.requested = "v", !.mode = "open"]

Keeps(s, arg) == [s EXCEPT !.cleaned = Append(@, arg)]

\* What a bug would do: let a flag come anywhere before "--".
StripsAnywhere(s, arg) ==
    CASE s.mode = "rest" -> Keeps(s, arg)
      [] s.mode = "value" -> IF IsOption(arg) THEN [s EXCEPT !.mode = "missing"] ELSE TakesLocale(s)
      [] s.mode = "open" /\ arg = "--" -> [Keeps(s, arg) EXCEPT !.mode = "rest"]
      [] s.mode = "open" /\ arg = "--lang" -> [s EXCEPT !.mode = "value"]
      [] s.mode = "open" /\ arg = "--lang=" -> [s EXCEPT !.mode = "missing"]
      [] s.mode = "open" /\ arg = "--lang=v" -> TakesLocale(s)
      [] s.mode = "open" /\ arg \in {"v", "-x"} -> Keeps(s, arg)
      [] OTHER -> s

Strips(s, arg) ==
    CASE s.mode = "rest" -> Keeps(s, arg)
      [] s.mode = "value" -> IF IsOption(arg) THEN [s EXCEPT !.mode = "missing"] ELSE TakesLocale(s)
      [] s.mode = "open" /\ arg = "--" -> [Keeps(s, arg) EXCEPT !.mode = "rest"]
      [] s.mode = "open" /\ arg \in {"--lang", "--lang=v", "--lang="} /\ ~s.allowed ->
             [s EXCEPT !.mode = "misplaced"]
      [] s.mode = "open" /\ s.allowed /\ arg = "--lang" -> [s EXCEPT !.mode = "value"]
      [] s.mode = "open" /\ s.allowed /\ arg = "--lang=" -> [s EXCEPT !.mode = "missing"]
      [] s.mode = "open" /\ s.allowed /\ arg = "--lang=v" -> TakesLocale(s)
      [] s.mode = "open" /\ arg \in {"v", "-x"} ->
             [Keeps(s, arg) EXCEPT !.allowed = @ /\ IsOption(arg)]
      [] OTHER -> s

\* a flag whose value never came
Stripped(args) ==
    LET s == FoldLeft(Strips, Stripping, args)
    IN [of |-> "args", ok |-> s.mode \in {"open", "rest"}, requested |-> s.requested,
        cleaned |-> s.cleaned]

\* --lang, then the environment, then the default of the catalog
LocaleSource(a, environment) ==
    IF a.requested # NoTag THEN "flag" ELSE IF environment THEN "environment" ELSE "default"

-----------------------------------------------------------------------------
(* Templates, as tokens: "n" and "." are characters of a name, "!" is not. *)

Tokens == {"{", "}", "n", ".", "!"}

\* is_valid_catalog_identifier
IsIdentifier(name) ==
    /\ name # <<>> /\ "!" \notin Range(name) /\ "{" \notin Range(name)
    /\ name[1] # "." /\ name[Len(name)] # "."
    /\ \A i \in 1..(Len(name) - 1) : ~(name[i] = "." /\ name[i + 1] = ".")

\* validate_catalog_template, token by token
Validates(s, token) ==
    CASE s.mode = "text" /\ token = "{" -> [mode |-> "name", name |-> <<>>]
      [] s.mode = "text" /\ token = "}" -> [s EXCEPT !.mode = "invalid"]
      [] s.mode = "name" /\ token = "}" ->
             [mode |-> IF IsIdentifier(s.name) THEN "text" ELSE "invalid", name |-> <<>>]
      [] s.mode = "name" /\ token # "}" -> [s EXCEPT !.name = Append(@, token)]
      [] OTHER -> s

IsValidTemplate(template) ==
    FoldLeft(Validates, [mode |-> "text", name |-> <<>>], template).mode = "text"

\* interpolate: the value of a name, or the placeholder as it was
Interpolates(args, s, token) ==
    CASE ~s.inName /\ token = "{" -> [s EXCEPT !.inName = TRUE, !.name = <<>>]
      [] ~s.inName /\ token # "{" -> [s EXCEPT !.out = Append(@, token)]
      [] s.inName /\ token = "}" ->
             [s EXCEPT !.inName = FALSE,
                       !.out = @ \o (IF s.name \in DOMAIN args THEN args[s.name]
                                     ELSE <<"{">> \o s.name \o <<"}">>)]
      [] s.inName /\ token # "}" -> [s EXCEPT !.name = Append(@, token)]

\* a placeholder that is not closed is text
Interpolated(template, args) ==
    LET s == FoldLeft(LAMBDA x, y : Interpolates(args, x, y),
                      [inName |-> FALSE, name |-> <<>>, out |-> <<>>], template)
    IN IF DOMAIN args = {} THEN template
       ELSE IF s.inName THEN s.out \o <<"{">> \o s.name ELSE s.out

-----------------------------------------------------------------------------

LocaleQuestions ==
    [of : {"locale"}, explicit : BOOLEAN, tags : SeqOf(LocaleTags, MaxTags),
     modifier : {NoTag, "euro", "traditional", "simplified"} \cup BadModifiers,
     enabled : EnabledSets, default : DefaultLocales]

ArgQuestions == [of : {"args"}, args : SeqOf(ArgKinds, MaxArgs), environment : BOOLEAN]
TextQuestions == [of : {"text"}, template : SeqOf(Tokens, MaxTokens)]

LocaleRulesInit ==
    /\ question \in LocaleQuestions \cup ArgQuestions \cup TextQuestions
    /\ answer = NoAnswer

OneName == <<"n">>
ByItself == OneName :> (<<"{">> \o OneName \o <<"}">>)
WithText == OneName :> <<"!">>

AnswersLocale == question.of = "locale" /\ answer' = ResolvesLocale(question)
AnswersArgs ==
    /\ question.of = "args"
    /\ LET stripped == Stripped(question.args)
       IN answer' = [stripped EXCEPT !.of = LocaleSource(stripped, question.environment)]
AnswersText ==
    /\ question.of = "text"
    /\ answer' = [of |-> "text", valid |-> IsValidTemplate(question.template),
                  plain |-> Interpolated(question.template, WithText),
                  same |-> Interpolated(question.template, ByItself)]

LocaleRulesNext ==
    /\ answer = NoAnswer
    /\ AnswersLocale \/ AnswersArgs \/ AnswersText
    /\ UNCHANGED question

-----------------------------------------------------------------------------

(* What the answers are to be. *)

\* A locale a reader of the request can be given: in the language, of no other
\* region and in no other script than the one asked for or implied.
Suits(l, parts) ==
    /\ l.language = parts.language
    /\ l.region \in {NoTag, parts.region}
    /\ l.script \in {NoTag, parts.script, LikelyScript(parts)}

TaiwanReadsTraditional(l, q) ==
    q.tags = <<"zh", "tw">> /\ q.modifier # "simplified" => ~(l.language = "zh" /\ l.script = "hans")

(****************************************************************************)
(* A request is answered with an enabled locale that suits it whenever      *)
(* there is one, with the one it names before all others; an explicit       *)
(* request is never answered with the default instead.                      *)
(****************************************************************************)
LocaleSuitsRequest ==
    answer.of = "locale" =>
        LET q == question
            parts == Normalized(q)
            suitable == {l \in q.enabled : \E p \in parts : Suits(l, p)}
        IN /\ answer.ok => answer.locale \in q.enabled
           /\ suitable # {} => answer.ok /\ answer.locale \in suitable
           /\ suitable = {} /\ q.explicit => ~answer.ok
           /\ suitable = {} /\ ~q.explicit => answer.ok = (q.default \in q.enabled)
           /\ parts \cap q.enabled # {} => answer.locale \in parts
           /\ answer.ok /\ suitable # {} => TaiwanReadsTraditional(answer.locale, q)

\* Where the arguments end for the program that reads them.
EndOfOptions(args) ==
    LET ends == {i \in DOMAIN args : args[i] = "--"}
    IN IF ends = {} THEN Len(args) + 1 ELSE CHOOSE i \in ends : \A j \in ends : i <= j

(****************************************************************************)
(* The locale flag is taken from a command line and nothing else: what is   *)
(* left are the other arguments in their order, everything from "--" on is  *)
(* the program's, and no flag before it is passed on.                       *)
(****************************************************************************)
ArgsAreThePrograms ==
    answer.of \in {"flag", "environment", "default"} /\ answer.ok =>
        LET args == question.args
            end == EndOfOptions(args)
            flags == {i \in 1..(end - 1) : args[i] \in {"--lang", "--lang=v"}}
            taken == flags \cup {i + 1 : i \in {j \in flags : args[j] = "--lang"}}
            kept == SelectSeq([i \in DOMAIN args |-> i], LAMBDA i : i \notin taken)
        IN /\ answer.cleaned = [i \in DOMAIN kept |-> args[kept[i]]]
           /\ Cardinality(flags) <= 1 /\ (flags # {} <=> answer.of = "flag")
           /\ \A i \in flags : \A j \in 1..(i - 1) : args[j] # "v"

\* A template with "n" where "!" is put for "{n}": the placeholders it has.
HasPlaceholder(text) ==
    \E i \in 1..(Len(text) - 2) : SubSeq(text, i, i + 2) = <<"{">> \o OneName \o <<"}">>

(****************************************************************************)
(* Templates are substituted in one pass: a placeholder replaced by itself  *)
(* leaves the text as it was, so a value is never read as a template.  A    *)
(* template that was accepted when the catalog was loaded has every         *)
(* placeholder replaced.                                                    *)
(****************************************************************************)
ValuesAreNotTemplates ==
    answer.of = "text" =>
        /\ answer.same = question.template
        /\ answer.valid => ~HasPlaceholder(answer.plain)

=============================================================================
