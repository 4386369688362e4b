----------------------------- MODULE UiLanguage -----------------------------
(***************************************************************************)
(* The language of the web panel: React renders its texts as they are      *)
(* written, mostly in English, and the engine of UiLanguageProvider        *)
(* rewrites them in the DOM, before the browser paints.  It remembers the  *)
(* text each of its own was made from.                                     *)
(*                                                                         *)
(* A node is a text node or a translated attribute (but not of an editor:  *)
(* the observer leaves those to the next switch); a root is the set of     *)
(* nodes under an element, or one node of its own.                         *)
(***************************************************************************)
EXTENDS Naturals, FiniteSets

CONSTANTS
    None,
    Nodes,
    Excluded,       \* those in data-no-i18n, the texts of editors and of code
    Texts,
    EnFa, FaEn      \* the dictionaries, with the rules for texts with numbers

\* FA_EN turns EN_FA around: of two English texts with one translation it
\* keeps one.  Some rules have no inverse ("5 GB"), and some labels are the same
\* in both languages ("V2 / Xray").  A Persian text is not translated again.
ASSUME DictionaryAssumption ==
    /\ DOMAIN EnFa \subseteq Texts /\ DOMAIN FaEn \subseteq Texts
    /\ \A e \in DOMAIN EnFa :
          /\ EnFa[e] \in Texts
          /\ EnFa[e] \in DOMAIN EnFa => EnFa[EnFa[e]] = EnFa[e]
    /\ \A f \in DOMAIN FaEn : FaEn[f] \in DOMAIN EnFa /\ EnFa[FaEn[f]] = f
    /\ \A t \in DOMAIN EnFa \cap DOMAIN FaEn : FaEn[t] = t
ASSUME NodesAssumption ==
    /\ Excluded \subseteq Nodes
    /\ None \notin Texts \cup [source : Texts, rendered : Texts]

VARIABLES
    language,   \* the state of the provider
    engine,     \* the language of the effect that is mounted: its observer's
    react,      \* what React rendered last, None for a node that is not there
    dom,        \* what the node holds
    memo,       \* textSources and attributeSources
    records,    \* what the observer has not been told yet: roots
    pending     \* what waits for the microtask flushTranslations: roots

languageVars == <<language, engine, react, dom, memo, records, pending>>

Languages == {"en", "fa"}
There == {n \in Nodes : react[n] # None}

translateUiText(t, lang) ==
    LET map == IF lang = "fa" THEN EnFa ELSE FaEn
    IN  IF t \in DOMAIN map THEN map[t] ELSE t

\* As if every translation were made from what the node holds.
HeldText(n) == dom[n]
\* What the node holds is React's unless it is what the engine put there.
SourceOf(n) ==
    IF memo[n] # None /\ memo[n].rendered = dom[n] THEN memo[n].source ELSE dom[n]

\* translateTextNode and translateElement for all nodes of N that may be.
Translate(N, lang) ==
    LET M == (N \cap There) \ Excluded
        shown(n) == translateUiText(SourceOf(n), lang)
    IN  /\ dom' = [n \in Nodes |-> IF n \in M THEN shown(n) ELSE dom[n]]
        /\ memo' = [n \in Nodes |->
                      IF n \in M THEN [source |-> SourceOf(n), rendered |-> shown(n)]
                      ELSE memo[n]]

-----------------------------------------------------------------------------
(* React.  A text that is replaced keeps its node; what is removed and     *)
(* shown again gets new ones.                                              *)

RenderText(n, t) ==
    /\ n \in There /\ t # react[n]
    /\ react' = [react EXCEPT ![n] = t] /\ dom' = [dom EXCEPT ![n] = t]
    /\ records' = records \cup {{n}}
    /\ UNCHANGED <<language, engine, memo, pending>>

RenderNew(texts) ==
    LET N == DOMAIN texts
        new(f) == [n \in Nodes |-> IF n \in N THEN texts[n] ELSE f[n]]
    IN  /\ N \cap There = {}
        /\ react' = new(react) /\ dom' = new(dom)
        /\ memo' = [n \in Nodes |-> IF n \in N THEN None ELSE memo[n]]
        /\ records' = records \cup {N}
        /\ UNCHANGED <<language, engine, pending>>

Remove(n) ==
    /\ n \in There
    /\ react' = [react EXCEPT ![n] = None] /\ dom' = [dom EXCEPT ![n] = None]
    /\ memo' = [memo EXCEPT ![n] = None]
    /\ UNCHANGED <<language, engine, records, pending>>

\* The switch, or the language stored in the browser when the page is loaded.
SetLanguage(l) ==
    /\ l # language /\ language' = l
    /\ UNCHANGED <<engine, react, dom, memo, records, pending>>

-----------------------------------------------------------------------------
(* The engine.                                                             *)

\* The effect of the provider, after a commit with another language: its
\* clean-up disconnects the observer and drops what waited, then the whole
\* document is translated before the new observer looks.
SwitchEngine ==
    /\ engine # language /\ engine' = language
    /\ records' = {} /\ pending' = {}
    /\ Translate(Nodes, language)
    /\ UNCHANGED <<language, react>>

\* scheduleTranslation.
Skipped(root) == \E n \in Excluded : root = {n}
Observe ==
    LET noted == {root \in records : ~Skipped(root)}
    IN  /\ records # {} /\ records' = {}
        /\ pending' = pending \cup noted
        /\ UNCHANGED <<language, engine, react, dom, memo>>

\* flushTranslations: of a root inside another only the outer is translated.
\* The observer is told of what it writes, too.
Flush ==
    /\ pending # {} /\ pending' = {}
    /\ Translate(UNION pending, engine)
    /\ records' = records \cup {{n} : n \in {m \in Nodes : dom'[m] # dom[m]}}
    /\ UNCHANGED <<language, engine, react>>

-----------------------------------------------------------------------------
LanguageInit ==
    /\ language = "en" /\ engine = "en"
    /\ react = [n \in Nodes |-> None] /\ dom = react /\ memo = react
    /\ records = {} /\ pending = {}

LanguageNext ==
    \/ \E n \in Nodes : Remove(n) \/ \E t \in Texts : RenderText(n, t)
    \/ \E N \in SUBSET Nodes \ {{}} : \E texts \in [N -> Texts] : RenderNew(texts)
    \/ \E l \in Languages : SetLanguage(l)
    \/ SwitchEngine \/ Observe \/ Flush

LanguageSpec == LanguageInit /\ [][LanguageNext]_languageVars

-----------------------------------------------------------------------------
\* The type invariant.
LanguageTypeOK ==
    /\ language \in Languages /\ engine \in Languages
    /\ react \in [Nodes -> Texts \cup {None}] /\ dom \in [Nodes -> Texts \cup {None}]
    /\ memo \in [Nodes -> [source : Texts, rendered : Texts] \cup {None}]
    /\ records \subseteq SUBSET Nodes /\ pending \subseteq SUBSET Nodes

\* Whenever the engine has nothing left to do, a page shows each of React's
\* texts in its language, though React and two effects (of the old and the
\* new language) write to the same nodes: an English text is itself again
\* after any number of switches, not another one with the same translation,
\* and what is excluded is never touched.  Only in place of a Persian text of
\* React's may an English page show another text than its translation: some
\* English text that translates to it.
Idle == engine = language /\ records = {} /\ pending = {}
TextsShown ==
    Idle => \A n \in There :
        IF n \in Excluded THEN dom[n] = react[n]
        ELSE \/ dom[n] = translateUiText(react[n], language)
             \/ /\ language = "en" /\ dom[n] \in DOMAIN EnFa
                /\ EnFa[dom[n]] = react[n]
=============================================================================
