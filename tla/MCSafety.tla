------------------------------ MODULE MCSafety ------------------------------
(****************************************************************************)
(* Parts that share nothing, on instances large enough for their safety     *)
(* properties: a behaviour runs the one `part` chosen at the start, and the *)
(* others rest in their initial states.                                     *)
(*   bootstrap: two threads of one process and one of another bootstrap the *)
(*     same root, with faults, a crash and a neighbour that comes and goes; *)
(*   cancelled: three ids over a window of three;                           *)
(*   bots: three messages of up to three chats, and one restart;            *)
(*   catalogs: three catalogs, two of which are reloaded, and one reader;   *)
(*   locales: requests of up to three subtags, command lines of up to four  *)
(*     arguments and templates of up to four tokens;                        *)
(*   tree: two directories of two entries each, one of which others change  *)
(*     during a scan, and the places of a data root.                        *)
(****************************************************************************)
EXTENDS BootstrapTransaction, CancelledIds, BotSessions, Catalogs,
        LocaleRules, TextTree, TLC

CONSTANTS t1, t2, t3, home, away

VARIABLE part

MCProcessOf == t1 :> home @@ t2 :> home @@ t3 :> away

MCDefault == 1 :> "d" @@ 2 :> "e" @@ 3 :> "d"
MCStrategy == 1 :> "ReturnKey" @@ 2 :> "Both"
MCCompositions == {<<1>>, <<1, 2>>, <<2, 3>>}
MCLocaleRequests ==
    {[explicit |-> TRUE, candidates |-> <<"e">>], [explicit |-> FALSE, candidates |-> <<"e">>]}

MCEnabledSets ==
    LET locales == {Locale("zh", "", ""), Locale("zh", "hant", ""), Locale("zh", "hans", ""),
                    Locale("zh", "", "tw"), Locale("zh", "hant", "tw"), Locale("en", "", "")}
    IN {enabled \in SUBSET locales : Cardinality(enabled) <= 2}
MCDefaultLocales == {Locale("en", "", ""), Locale("zh", "", "")}

MCBytesOf == 3 :> 1 @@ 4 :> 2
MCIdentityOf == 1 :> 1 @@ 2 :> 1
MCScanLimits == {[directories |-> 1, sources |-> 2, depth |-> 1],
                 [directories |-> 1, sources |-> 1, depth |-> 0],
                 [directories |-> 0, sources |-> 2, depth |-> 1]}
MCWantedPaths == {<<<<1>>, <<2, 1>>>>, <<<<1>>, <<2>>>>, <<<<2, 2>>>>}

\* What a source does not matter for is left at one value.
MCRootRequests ==
    LET kinds == {"none", "relative", "absolute"}
        requests == [dataDir : kinds, env : kinds, scope : {"auto", "workspace", "global"},
                     home : kinds, base : BOOLEAN]
        overridden(asked) == asked.dataDir # "none" \/ asked.env # "none"
    IN {asked \in requests :
          /\ overridden(asked) => asked.scope = "global"
          /\ overridden(asked) \/ asked.scope # "global" => asked.home = "absolute"
          /\ ~overridden(asked) /\ asked.scope = "global" => asked.base}

\* What others disturb is looked at by the run that shows what they do.  The two threads of
\* a process are interchangeable, so one of them begins first; and a crash does not come on
\* top of a rollback that failed.
Explored ==
    /\ ~disturbed
    /\ pc[t2] # "idle" => pc[t1] # "idle"
    /\ crashes = 0 \/ \A t \in Threads : ~botched[t]

\* A directory nobody can come to is empty at first.
EmptyIfAway(t) ==
    \A d \in TreeDirs \ {TreeRoot} :
        (\E e \in TreeDirs, n \in TreeNames : t[e][n] = d) \/ \A n \in TreeNames : t[d][n] = Nothing

\* Chats are interchangeable: a chat has its first message after the one before
\* it.
RoomsInOrder ==
    \A u \in Messages : \A c \in 1..roomOf[u] :
        c < roomOf[u] => \E v \in 1..u : v < u /\ roomOf[v] = c

On(name) == part = name

safetyVars ==
    <<part, bootstrapVars, cancelledVars, botVars, catalogVars, ruleVars, treeVars>>

NoEntries == [d \in TreeDirs |-> [n \in TreeNames |-> Nothing]]

\* What a part that does not run has in its variables.
Rest == 0
BotsRest == roomOf = [u \in Messages |-> NoRoom] /\ BotSessionsInit
CatalogsRest ==
    /\ installed = Rest /\ handle = Rest /\ building = Rest /\ loads = Rest /\ reading = Rest
    /\ storesSeen = Rest
TreeRests ==
    /\ tree = Rest /\ places = Rest /\ edits = Rest /\ startTree = Rest /\ call = Rest

\* One part starts in any of its initial states, the others rest.
SafetyInit ==
    /\ part \in {"bootstrap", "cancelled", "bots", "catalogs", "locales", "tree"}
    /\ BootstrapInit /\ (On("bootstrap") \/ exists = 0)
    /\ CancelledInit
    /\ IF On("bots") THEN BotSessionsInit /\ RoomsInOrder ELSE BotsRest
    /\ IF On("catalogs")
       THEN CatalogsInit /\ installed = [c \in Statics |-> DefaultOf[c] :> 1] @@ [c \in Dynamics |-> <<>>]
       ELSE CatalogsRest
    /\ IF On("locales") THEN LocaleRulesInit ELSE question = Rest /\ answer = Rest
    /\ IF On("tree")
       THEN /\ TextTreeInit /\ EmptyIfAway(tree)
            /\ tree = NoEntries \/ places = [place \in Places |-> "directory"]
       ELSE TreeRests

\* A step of one part, the others at rest.
BootstrapOnly ==
    /\ On("bootstrap")
    /\ UNCHANGED <<part, cancelledVars, botVars, catalogVars, ruleVars,
                   treeVars>>
CancelledOnly ==
    /\ On("cancelled")
    /\ UNCHANGED <<part, bootstrapVars, botVars, catalogVars, ruleVars,
                   treeVars>>
BotsOnly ==
    /\ On("bots")
    /\ UNCHANGED <<part, bootstrapVars, cancelledVars, catalogVars, ruleVars,
                   treeVars>>
CatalogsOnly ==
    /\ On("catalogs")
    /\ UNCHANGED <<part, bootstrapVars, cancelledVars, botVars, ruleVars,
                   treeVars>>
LocalesOnly ==
    /\ On("locales")
    /\ UNCHANGED <<part, bootstrapVars, cancelledVars, botVars, catalogVars,
                   treeVars>>
TreeOnly ==
    /\ On("tree")
    /\ UNCHANGED <<part, bootstrapVars, cancelledVars, botVars, catalogVars,
                   ruleVars>>

SafetyNext ==
    \/ BootstrapOnly /\ BootstrapNext
    \/ CancelledOnly /\ CancelledNext
    \/ BotsOnly /\ BotSessionsNext
    \/ CatalogsOnly /\ CatalogsNext
    \/ LocalesOnly /\ LocaleRulesNext
    \/ TreeOnly /\ TextTreeNext

SafetySpec == SafetyInit /\ [][SafetyNext]_safetyVars

\* Each property is about one part, and is looked at while that part runs.
SafetyTypeOK ==
    /\ On("bootstrap") => BootstrapTypeOK
    /\ On("cancelled") => CancelledTypeOK
    /\ On("bots") => BotTypeOK
    /\ On("catalogs") => CatalogsTypeOK
    /\ On("tree") => TextTreeTypeOK

\* What is read while others change it: catalogs that are reloaded and replaced, a tree that is
\* edited during a scan, and the places of a data root.
ReadsAreTrue ==
    /\ On("catalogs") => LookupsAreTrue
    /\ On("tree") => ScansStayInside /\ RootIsTheOneNamed

\* A directory that is left alone is loaded whole, or refused for what it is; and a request for a
\* locale, a command line and a template mean what they say.
AnswersAreExact ==
    /\ On("tree") => QuietScanIsWhole
    /\ On("locales") => LocaleSuitsRequest /\ ArgsAreThePrograms /\ ValuesAreNotTemplates
=============================================================================
