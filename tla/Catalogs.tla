------------------------------ MODULE Catalogs ------------------------------
(****************************************************************************)
(* The translation catalogs of i18n-kit and the hot-swapped handle of       *)
(* i18n-runtime-kit: a GlobalCatalog holds one dynamic catalog, or a        *)
(* ComposedCatalog that asks several in order.  Each dynamic catalog is     *)
(* reloaded behind its own lock while readers resolve a locale and look a   *)
(* key up, one lock after the other.                                        *)
(*                                                                          *)
(* One key is looked up.  A text is the number of the load it came from;    *)
(* 0 stands for a locale that is enabled and does not have the key.         *)
(****************************************************************************)
EXTENDS Naturals, Sequences, FiniteSets

CONSTANTS Statics,          \* the StaticJsonCatalogs, which are never reloaded
          Dynamics,         \* the DynamicJsonCatalogs
          CatalogLocales,
          DefaultOf,        \* the default locale of each catalog
          ComposedDefault,  \* that of the ComposedCatalog
          StrategyOf,       \* FallbackStrategy of each dynamic catalog
          Compositions,     \* what the handle may hold, as a sequence
          LocaleRequests,   \* [explicit, candidates]
          Readers,
          Reloaders,
          MaxSources,
          MaxLoads          \* bound on the loads of a behaviour

Strategies == {"ReturnKey", "ReturnDefaultLocale", "Both"}

ASSUME CatalogsAssumption ==
    /\ Statics \cap Dynamics = {}
    /\ DefaultOf \in [Statics \cup Dynamics -> CatalogLocales]
    /\ ComposedDefault \in CatalogLocales
    /\ StrategyOf \in [Dynamics -> Strategies]
    /\ Compositions \subseteq Seq(Statics \cup Dynamics) \ {<<>>}
    /\ MaxSources \in Nat /\ MaxLoads \in Nat \ {0}

VARIABLES
    installed,        \* per catalog: the enabled locales, and the key's text in each
    handle,       \* the catalogs behind the handle, <<>> before the first
    building,     \* per reloader: the catalog it reloads and its map so far
    loads,        \* loads started
    reading,      \* per reader: where its call is and what it has seen
    storesSeen    \* per reader: the stores each catalog had during its call

catalogVars == <<installed, handle, building, loads, reading, storesSeen>>

AllCatalogs == Statics \cup Dynamics
Stores == UNION {[S -> 0..MaxLoads] : S \in SUBSET CatalogLocales}
NoLoad == [catalog |-> 0, texts |-> <<>>, load |-> 0, sources |-> 0]
NoText == 0

\* try_new refuses a static catalog without its default locale; empty() is a
\* dynamic catalog without any.
StaticStores(c) == {s \in Stores : DefaultOf[c] \in DOMAIN s /\ \A l \in DOMAIN s : s[l] <= 1}

NotReading == [pc |-> "idle", explicit |-> FALSE, candidates |-> <<>>, asks |-> <<>>,
         available |-> {}, locale |-> ComposedDefault, fallback |-> NoText,
         synthetic |-> FALSE, result |-> "none", text |-> NoText]

CatalogsInit ==
    /\ installed \in [AllCatalogs -> Stores]
    /\ \A c \in Statics : installed[c] \in StaticStores(c)
    /\ \A c \in Dynamics : installed[c] = <<>>
    /\ handle = <<>>
    /\ building = [r \in Reloaders |-> NoLoad]
    /\ loads = 1
    /\ reading = [t \in Readers |-> NotReading]
    /\ storesSeen = [t \in Readers |-> [c \in AllCatalogs |-> {}]]

HasText(s, l) == l \in DOMAIN s /\ s[l] # NoText

-----------------------------------------------------------------------------
(* Reloads. *)

BeginsReload(r, c) ==
    /\ building[r] = NoLoad /\ loads < MaxLoads
    /\ loads' = loads + 1
    /\ building' = [building EXCEPT ![r] = [catalog |-> c, texts |-> <<>>,
                                            load |-> loads', sources |-> 0]]
    /\ UNCHANGED <<installed, handle, reading, storesSeen>>

\* A reload that fails leaves the catalog as it was.
ReloadFails(r) ==
    /\ building' = [building EXCEPT ![r] = NoLoad]
    /\ UNCHANGED <<installed, handle, loads, reading, storesSeen>>

WithSource(s, l, text) == [m \in {l} \cup DOMAIN s |-> IF m = l THEN text ELSE s[m]]

\* the next source: its limits, its name, whether its locale is new, its JSON
TakesSource(r, l, content) ==
    LET b == building[r]
        bad == b.sources = MaxSources \/ content = "bad" \/ l \in DOMAIN b.texts
        text == IF content = "with key" THEN b.load ELSE NoText
    IN /\ b # NoLoad
       /\ \/ bad /\ ReloadFails(r)
          \/ /\ ~bad
             /\ building' = [building EXCEPT ![r].sources = @ + 1,
                                             ![r].texts = WithSource(@, l, text)]
             /\ UNCHANGED <<installed, handle, loads, reading, storesSeen>>

\* the sources are over: the default locale has to be among them
EndsReload(r) ==
    LET b == building[r] IN
    /\ b # NoLoad
    /\ \/ DefaultOf[b.catalog] \notin DOMAIN b.texts /\ ReloadFails(r)
       \/ /\ DefaultOf[b.catalog] \in DOMAIN b.texts
          /\ installed' = [installed EXCEPT ![b.catalog] = b.texts]
          /\ building' = [building EXCEPT ![r] = NoLoad]
          /\ storesSeen' = [t \in Readers |->
                [storesSeen[t] EXCEPT ![b.catalog] =
                    IF reading[t].pc = "idle" THEN @ ELSE @ \cup {b.texts}]]
          /\ UNCHANGED <<handle, loads, reading>>

\* GlobalCatalog::replace
Replaces(cs) ==
    /\ handle' = cs
    /\ UNCHANGED <<installed, building, loads, reading, storesSeen>>

-----------------------------------------------------------------------------
(* Readers.  A call clones the Arc once and works on what it holds. *)

Composed(cs) == Len(cs) > 1

ReaderMoves(t, r) ==
    /\ reading' = [reading EXCEPT ![t] = r]
    /\ UNCHANGED <<installed, handle, building, loads, storesSeen>>

ReaderStarts(t, r) ==
    /\ reading[t].pc = "idle"
    /\ reading' = [reading EXCEPT ![t] = r]
    /\ storesSeen' = [storesSeen EXCEPT ![t] = [c \in AllCatalogs |-> {installed[c]}]]
    /\ UNCHANGED <<installed, handle, building, loads>>

\* resolve_locale: an empty handle is an initialization error
AsksForLocale(t, request) ==
    ReaderStarts(t,
        IF handle = <<>> THEN [NotReading EXCEPT !.pc = "done", !.result = "uninitialized"]
        ELSE [NotReading EXCEPT !.pc = "locales", !.explicit = request.explicit,
                          !.candidates = request.candidates, !.asks = handle,
                          !.locale = IF Composed(handle) THEN ComposedDefault
                                                         ELSE DefaultOf[handle[1]]])

\* CatalogLocaleSnapshot::capture, one catalog at a time
SeesLocales(t) ==
    LET r == reading[t] IN
    /\ r.pc = "locales" /\ r.asks # <<>>
    /\ ReaderMoves(t, [r EXCEPT !.asks = Tail(@),
                                !.available = @ \cup DOMAIN installed[Head(r.asks)]])

\* the first candidate that is enabled; an explicit request has no default
LocaleOf(r) ==
    LET first == {i \in DOMAIN r.candidates :
                    /\ r.candidates[i] \in r.available
                    /\ \A j \in 1..(i - 1) : r.candidates[j] \notin r.available}
        default == {l \in {r.locale} : first = {} /\ ~r.explicit /\ l \in r.available}
    IN {r.candidates[i] : i \in first} \cup default

ChoosesLocale(t) ==
    LET r == reading[t] IN
    /\ r.pc = "locales" /\ r.asks = <<>>
    /\ \/ LocaleOf(r) = {} /\ ReaderMoves(t, [r EXCEPT !.pc = "done", !.result = "not enabled"])
       \/ \E l \in LocaleOf(r) :
            ReaderMoves(t, [r EXCEPT !.pc = "done", !.result = "locale", !.locale = l])

\* resolve_shared of the handle: without a catalog everything is missing
LooksUp(t, l) ==
    ReaderStarts(t,
        IF handle = <<>> THEN [NotReading EXCEPT !.pc = "done", !.result = "missing", !.locale = l]
        ELSE [NotReading EXCEPT !.pc = "texts", !.locale = l, !.candidates = handle, !.asks = handle])

\* a static catalog falls back to its default locale and never answers a key
DefaultText(c, l) == IF l # DefaultOf[c] /\ HasText(installed[c], DefaultOf[c])
                     THEN installed[c][DefaultOf[c]] ELSE NoText
Synthesizes(c) == c \in Dynamics /\ StrategyOf[c] \in {"ReturnKey", "Both"}
FallsBack(c) == c \in Statics \/ StrategyOf[c] \in {"ReturnDefaultLocale", "Both"}

\* what one catalog answers, under its lock
AnswerOf(c, l) ==
    CASE HasText(installed[c], l) -> [kind |-> "exact", text |-> installed[c][l]]
      [] ~HasText(installed[c], l) /\ FallsBack(c) /\ DefaultText(c, l) # NoText ->
             [kind |-> "fallback", text |-> DefaultText(c, l)]
      [] OTHER -> [kind |-> IF Synthesizes(c) THEN "synthetic" ELSE "missing", text |-> NoText]

Answers(r, kind, text) == [r EXCEPT !.pc = "done", !.result = kind, !.text = text]

\* What a bug would do: take the first text there is.
TakesFirstText(t) ==
    LET r == reading[t]
        answer == AnswerOf(Head(r.asks), r.locale)
    IN /\ r.pc = "texts" /\ r.asks # <<>>
       /\ ReaderMoves(t,
            IF answer.text # NoText \/ ~Composed(r.candidates)
            THEN Answers(r, answer.kind, answer.text)
            ELSE [r EXCEPT !.asks = Tail(@), !.synthetic = @ \/ answer.kind = "synthetic"])

\* the first exact text ends it; the first fallback and the first key are kept
AsksNextCatalog(t) ==
    LET r == reading[t]
        answer == AnswerOf(Head(r.asks), r.locale)
    IN /\ r.pc = "texts" /\ r.asks # <<>>
       /\ ReaderMoves(t,
            IF answer.kind = "exact" \/ ~Composed(r.candidates)
            THEN Answers(r, answer.kind, answer.text)
            ELSE [r EXCEPT !.asks = Tail(@),
                           !.fallback = IF @ = NoText THEN answer.text ELSE @,
                           !.synthetic = @ \/ answer.kind = "synthetic"])

\* no exact text: a fallback, or the default locale of the composition
RanOut(t) ==
    LET r == reading[t] IN
    /\ r.pc = "texts" /\ r.asks = <<>>
    /\ ReaderMoves(t,
         CASE r.fallback # NoText -> Answers(r, "fallback", r.fallback)
           [] r.fallback = NoText /\ r.locale # ComposedDefault ->
                  [r EXCEPT !.pc = "defaults", !.asks = r.candidates]
           [] OTHER -> Answers(r, IF r.synthetic THEN "synthetic" ELSE "missing", NoText))

\* lookup_across_catalogs, then the key if a catalog offered it
AsksNextDefault(t) ==
    LET r == reading[t] IN
    /\ r.pc = "defaults"
    /\ ReaderMoves(t,
         CASE r.asks = <<>> -> Answers(r, IF r.synthetic THEN "synthetic" ELSE "missing", NoText)
           [] r.asks # <<>> /\ HasText(installed[Head(r.asks)], ComposedDefault) ->
                  Answers(r, "fallback", installed[Head(r.asks)][ComposedDefault])
           [] OTHER -> [r EXCEPT !.asks = Tail(@)])

\* the call has returned
ReaderReturns(t) ==
    /\ reading[t].pc = "done"
    /\ reading' = [reading EXCEPT ![t] = NotReading]
    /\ storesSeen' = [storesSeen EXCEPT ![t] = [c \in AllCatalogs |-> {}]]
    /\ UNCHANGED <<installed, handle, building, loads>>

CatalogsNext ==
    \/ \E r \in Reloaders :
         \/ \E c \in Dynamics : BeginsReload(r, c)
         \/ \E l \in CatalogLocales, content \in {"with key", "without", "bad"} :
                TakesSource(r, l, content)
         \/ EndsReload(r)
    \/ \E cs \in Compositions : Replaces(cs)
    \/ \E t \in Readers :
         \/ \E request \in LocaleRequests : AsksForLocale(t, request)
         \/ SeesLocales(t) \/ ChoosesLocale(t)
         \/ \E l \in CatalogLocales : LooksUp(t, l)
         \/ AsksNextCatalog(t) \/ RanOut(t) \/ AsksNextDefault(t)
         \/ ReaderReturns(t)

CatalogsSpec == CatalogsInit /\ [][CatalogsNext]_catalogVars

-----------------------------------------------------------------------------

CatalogsTypeOK ==
    /\ installed \in [AllCatalogs -> Stores]
    /\ handle \in Compositions \cup {<<>>}
    /\ loads \in 1..MaxLoads
    /\ \A r \in Reloaders : building[r].texts \in Stores /\ building[r].sources <= MaxSources
    /\ \A t \in Readers : reading[t].pc \in {"idle", "locales", "texts", "defaults", "done"}

\* The catalogs a look-up was to ask, and whether one of them had the key in locale l in every
\* store that the call saw.
Asked(r) == {r.candidates[i] : i \in DOMAIN r.candidates}
Kept(seen, c, l) == \A s \in seen[c] : HasText(s, l)
WasThere(r, seen, text) ==
    \E c \in Asked(r) : \E s \in seen[c] : \E l \in DOMAIN s : HasText(s, l) /\ s[l] = text
TextResults == {"exact", "fallback", "synthetic", "missing"}

NothingMissed(r, seen) ==
    r.pc = "done" /\ r.result \in TextResults =>
        /\ r.result # "exact" => \A c \in Asked(r) : ~Kept(seen, c, r.locale)
        /\ r.result \in {"synthetic", "missing"} /\ Composed(r.candidates) =>
               \A c \in Asked(r) : ~Kept(seen, c, ComposedDefault)
        /\ r.result \in {"exact", "fallback"} => WasThere(r, seen, r.text)

(****************************************************************************)
(* Whatever is reloaded and replaced while a reader asks its catalogs one   *)
(* after the other: a text that one of them has all the while is found, in  *)
(* the locale asked for before any default; and a text that is answered was *)
(* in a catalog during the call, never in a load that failed.               *)
(****************************************************************************)
LookupsMissNothing == \A t \in Readers : NothingMissed(reading[t], storesSeen[t])

DefaultsAreInstalled ==
    \A c \in Dynamics : installed[c] # <<>> => DefaultOf[c] \in DOMAIN installed[c]

LocaleWasEnabled(r, seen) ==
    r.pc = "done" /\ r.result = "locale" =>
        \E c \in AllCatalogs : \E s \in seen[c] : r.locale \in DOMAIN s

(****************************************************************************)
(* A dynamic catalog, once loaded, has its default locale whatever reloads  *)
(* fail; and the locale a call is answered was enabled in a catalog while   *)
(* the call ran.                                                            *)
(****************************************************************************)
DefaultsStayEnabled ==
    DefaultsAreInstalled /\ \A t \in Readers : LocaleWasEnabled(reading[t], storesSeen[t])

\* What readers of catalogs are answered while these are reloaded and replaced.
LookupsAreTrue == LookupsMissNothing /\ DefaultsStayEnabled

-----------------------------------------------------------------------------
(****************************************************************************)
(* The inductive invariant.  A call sees every store a catalog has while it *)
(* runs, so that whoever was asked in vain had a store without the text.    *)
(****************************************************************************)
LoadsFit ==
    \A r \in Reloaders :
        building[r] = NoLoad \/ building[r] \in [catalog : Dynamics, texts : Stores,
                                               load : 1..MaxLoads, sources : 0..MaxSources]

LocalesWereThere(r, seen) ==
    r.pc = "locales" =>
        /\ r.asks \in Seq(AllCatalogs)
        /\ \A l \in r.available : \E c \in AllCatalogs : \E s \in seen[c] : l \in DOMAIN s

\* Who is not among those still to be asked had not kept a text of the locale.
AskedInVain(r, seen, asks, l) ==
    \A c \in Asked(r) : (\E j \in DOMAIN asks : asks[j] = c) \/ ~Kept(seen, c, l)

AsksFit(r, seen) ==
    /\ r.pc \in {"texts", "defaults"} \/ r.result \in TextResults => r.candidates \in Seq(AllCatalogs)
    /\ r.pc \in {"texts", "defaults"} =>
         /\ r.asks \in Seq(AllCatalogs) /\ \A j \in DOMAIN r.asks : r.asks[j] \in Asked(r)
         /\ AskedInVain(r, seen, IF r.pc = "texts" THEN r.asks ELSE <<>>, r.locale)
         /\ r.fallback # NoText => WasThere(r, seen, r.fallback)
    /\ r.pc = "defaults" => r.fallback = NoText /\ AskedInVain(r, seen, r.asks, ComposedDefault)

CallFits(r, seen) ==
    /\ DOMAIN r = DOMAIN NotReading /\ r.pc \in {"idle", "locales", "texts", "defaults", "done"}
    /\ LocalesWereThere(r, seen) /\ AsksFit(r, seen)
    /\ NothingMissed(r, seen) /\ LocaleWasEnabled(r, seen)

CatalogsInv ==
    /\ CatalogsTypeOK /\ LoadsFit /\ DefaultsAreInstalled
    /\ DOMAIN reading = Readers /\ DOMAIN building = Reloaders
    /\ storesSeen \in [Readers -> [AllCatalogs -> SUBSET Stores]]
    /\ \A t \in Readers :
         /\ reading[t].pc # "idle" => \A c \in AllCatalogs : installed[c] \in storesSeen[t][c]
         /\ CallFits(reading[t], storesSeen[t])

=============================================================================
