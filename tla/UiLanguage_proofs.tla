------------------------- MODULE UiLanguage_proofs -------------------------
(***************************************************************************)
(* For every set of nodes and every dictionary of DictionaryAssumption,    *)
(* with one-way rules and untranslated labels, the language engine shows   *)
(* each of React's texts in the language of the page whenever it is idle.  *)
(***************************************************************************)
EXTENDS UiLanguage, TLAPS

-----------------------------------------------------------------------------
(* The inductive invariant.                                                *)

\* What stands for t: t itself, one of the English texts t translates, or
\* the Persian text that t is read back from.
Alike(s, t) ==
    \/ s = t
    \/ s \in DOMAIN EnFa /\ EnFa[s] = t
    \/ s \in DOMAIN FaEn /\ FaEn[s] = t

\* A node that is not there holds and remembers nothing.
Present == \A n \in Nodes :
    /\ react[n] = None <=> dom[n] = None
    /\ react[n] = None => memo[n] = None

\* What is remembered was a translation of what it was made from.
Remembered == \A n \in Nodes : memo[n] # None =>
    \E l \in Languages : memo[n].rendered = translateUiText(memo[n].source, l)

\* The next translation is made from React's text, or from one alike.
Sources == \A n \in There :
    IF n \in Excluded THEN dom[n] = react[n] ELSE Alike(SourceOf(n), react[n])

\* A node that no root the engine has to look at contains is translated.
Translated == \A n \in There \ Excluded :
    (\A root \in records \cup pending : n \notin root)
        => dom[n] = translateUiText(SourceOf(n), engine)

LanguageInv == LanguageTypeOK /\ Present /\ Remembered /\ Sources /\ Translated

-----------------------------------------------------------------------------
(* The dictionaries.                                                       *)

\* Translating yields a text.
LEMMA TranslationType ==
    ASSUME NEW t \in Texts, NEW l \in Languages
    PROVE  translateUiText(t, l) \in Texts
  BY DictionaryAssumption DEF translateUiText, Languages

\* A text stands for each of its translations.
LEMMA TranslationAlike ==
    ASSUME NEW t \in Texts, NEW l \in Languages
    PROVE  Alike(t, translateUiText(t, l))
  BY DictionaryAssumption DEF translateUiText, Alike

\* What is made from a text alike is the translation, or, for a Persian text
\* on an English page, one of its sources.
LEMMA AlikeShown ==
    ASSUME NEW s \in Texts, NEW t \in Texts, NEW l \in Languages, Alike(s, t)
    PROVE  \/ translateUiText(s, l) = translateUiText(t, l)
           \/ /\ l = "en" /\ translateUiText(s, l) \in DOMAIN EnFa
              /\ EnFa[translateUiText(s, l)] = t
  <1>1. CASE s = t
    BY <1>1
  <1>2. CASE s \in DOMAIN EnFa /\ EnFa[s] = t
    <2>1. CASE l = "fa"
      <3>1. translateUiText(s, l) = t
        BY <1>2, <2>1 DEF translateUiText
      <3>2. translateUiText(t, l) = t
        BY <1>2, <2>1, DictionaryAssumption DEF translateUiText
      <3> QED  BY <3>1, <3>2
    <2>2. CASE l = "en"
      <3>1. translateUiText(s, l) = s
        BY <1>2, <2>2, DictionaryAssumption DEF translateUiText
      <3> QED  BY <1>2, <2>2, <3>1
    <2> QED  BY <2>1, <2>2 DEF Languages
  <1>3. CASE s \in DOMAIN FaEn /\ FaEn[s] = t
    <2>1. t \in DOMAIN EnFa /\ EnFa[t] = s
      BY <1>3, DictionaryAssumption
    <2>2. CASE l = "fa"
      <3>1. translateUiText(t, l) = s
        BY <2>1, <2>2 DEF translateUiText
      <3>2. translateUiText(s, l) = s
        BY <2>1, <2>2, DictionaryAssumption DEF translateUiText
      <3> QED  BY <3>1, <3>2
    <2>3. CASE l = "en"
      <3>1. translateUiText(s, l) = t
        BY <1>3, <2>3 DEF translateUiText
      <3>2. translateUiText(t, l) = t
        BY <2>1, <2>3, DictionaryAssumption DEF translateUiText
      <3> QED  BY <3>1, <3>2
    <2> QED  BY <2>2, <2>3 DEF Languages
  <1> QED  BY <1>1, <1>2, <1>3 DEF Alike

-----------------------------------------------------------------------------
(* Translating a set of nodes.                                             *)

\* A translated node remembers what it was made from, so its source stays;
\* the others are left alone.
LEMMA TranslateEffect ==
    ASSUME LanguageInv, NEW N \in SUBSET Nodes, NEW l \in Languages, Translate(N, l),
           UNCHANGED react
    PROVE  /\ dom' \in [Nodes -> Texts \cup {None}]
           /\ memo' \in [Nodes -> [source : Texts, rendered : Texts] \cup {None}]
           /\ Present' /\ Remembered' /\ Sources'
           /\ \A n \in (N \cap There) \ Excluded :
                 dom'[n] = translateUiText(SourceOf(n)', l)
           /\ \A n \in Nodes \ ((N \cap There) \ Excluded) :
                 dom'[n] = dom[n] /\ memo'[n] = memo[n]
  <1> DEFINE M == (N \cap There) \ Excluded
             shown(n) == translateUiText(SourceOf(n), l)
  <1>1. \A n \in There : dom[n] \in Texts /\ SourceOf(n) \in Texts
    BY DEF LanguageInv, LanguageTypeOK, Present, There, SourceOf
  <1>2. \A n \in M : shown(n) \in Texts
    BY <1>1, TranslationType
  <1> HIDE DEF shown
  <1>3. \A n \in M : /\ dom'[n] = shown(n)
                     /\ memo'[n] \in [source : Texts, rendered : Texts]
                     /\ memo'[n].source = SourceOf(n) /\ memo'[n].rendered = shown(n)
    <2> SUFFICES ASSUME NEW n \in M
                 PROVE  /\ dom'[n] = shown(n)
                        /\ memo'[n] \in [source : Texts, rendered : Texts]
                        /\ memo'[n].source = SourceOf(n) /\ memo'[n].rendered = shown(n)
      OBVIOUS
    <2>1. dom'[n] = shown(n) /\ memo'[n] = [source |-> SourceOf(n), rendered |-> shown(n)]
      BY Zenon DEF Translate, There, shown
    <2>2. SourceOf(n) \in Texts /\ shown(n) \in Texts
      BY <1>1, <1>2
    <2> QED  BY <2>1, <2>2
  <1>4. \A n \in Nodes \ M : dom'[n] = dom[n] /\ memo'[n] = memo[n]
    BY DEF Translate
  <1>5. DOMAIN dom' = Nodes /\ DOMAIN memo' = Nodes
        /\ dom' = [n \in Nodes |-> dom'[n]] /\ memo' = [n \in Nodes |-> memo'[n]]
    BY DEF Translate
  <1>6. dom' \in [Nodes -> Texts \cup {None}]
    <2>1. \A n \in Nodes : dom'[n] \in Texts \cup {None}
      BY <1>2, <1>3, <1>4 DEF LanguageInv, LanguageTypeOK
    <2> QED  BY <1>5, <2>1
  <1>7. memo' \in [Nodes -> [source : Texts, rendered : Texts] \cup {None}]
    <2>1. \A n \in Nodes : memo'[n] \in [source : Texts, rendered : Texts] \cup {None}
      BY <1>1, <1>2, <1>3, <1>4 DEF LanguageInv, LanguageTypeOK, There
    <2> QED  BY <1>5, <2>1
  <1>8. \A n \in M : SourceOf(n)' = SourceOf(n) /\ memo'[n] # None
    <2> SUFFICES ASSUME NEW n \in M
                 PROVE  SourceOf(n)' = SourceOf(n) /\ memo'[n] # None
      OBVIOUS
    <2>1. memo'[n] # None
      BY <1>3, NodesAssumption
    <2>2. memo'[n].rendered = dom'[n] /\ memo'[n].source = SourceOf(n)
      BY <1>3
    <2> QED  BY <2>1, <2>2 DEF SourceOf
  <1>9. Present'
    <2> SUFFICES ASSUME NEW n \in Nodes
                 PROVE  /\ react[n] = None <=> dom'[n] = None
                        /\ react[n] = None => memo'[n] = None
      BY DEF Present
    <2>1. CASE n \in M
      BY <2>1, <1>2, <1>3, NodesAssumption DEF There
    <2>2. CASE n \notin M
      BY <2>2, <1>4 DEF LanguageInv, Present
    <2> QED  BY <2>1, <2>2
  <1>10. Remembered'
    <2> SUFFICES ASSUME NEW n \in Nodes, memo'[n] # None
                 PROVE  \E k \in Languages :
                           memo'[n].rendered = translateUiText(memo'[n].source, k)
      BY DEF Remembered, translateUiText
    <2>1. CASE n \in M
      BY <2>1, <1>3, Zenon DEF shown
    <2>2. CASE n \notin M
      BY <2>2, <1>4 DEF LanguageInv, Remembered
    <2> QED  BY <2>1, <2>2
  <1>11. Sources'
    <2> SUFFICES ASSUME NEW n \in There
                 PROVE  IF n \in Excluded THEN dom'[n] = react[n]
                        ELSE Alike(SourceOf(n)', react[n])
      BY DEF Sources, There, Alike
    <2>1. CASE n \in M
      BY <2>1, <1>8 DEF LanguageInv, Sources
    <2>2. CASE n \notin M
      <3>1. dom'[n] = dom[n] /\ SourceOf(n)' = SourceOf(n)
        BY <2>2, <1>4 DEF There, SourceOf
      <3> QED  BY <3>1 DEF LanguageInv, Sources
    <2> QED  BY <2>1, <2>2
  <1>12. \A n \in M : dom'[n] = translateUiText(SourceOf(n)', l)
    BY <1>3, <1>8, Zenon DEF shown
  <1> QED  BY <1>4, <1>6, <1>7, <1>9, <1>10, <1>11, <1>12

-----------------------------------------------------------------------------
(* The steps.                                                              *)

\* Another text of React's: whatever the engine remembers of the node, if it
\* is taken for the engine's own translation, then its source is alike.
LEMMA RenderTextStep ==
    ASSUME LanguageInv, NEW n \in Nodes, NEW t \in Texts, RenderText(n, t)
    PROVE  LanguageInv'
  <1> USE DEF RenderText
  <1>1. LanguageTypeOK'
    BY DEF LanguageInv, LanguageTypeOK, There
  <1>2. Present'
    BY NodesAssumption DEF LanguageInv, LanguageTypeOK, Present, There
  <1>3. Remembered'
    BY DEF LanguageInv, Remembered, translateUiText
  <1>4. react'[n] = t /\ dom'[n] = t /\ n \in There'
    BY NodesAssumption DEF LanguageInv, LanguageTypeOK, There
  <1>5. \A m \in Nodes \ {n} : /\ react'[m] = react[m] /\ dom'[m] = dom[m]
                               /\ SourceOf(m)' = SourceOf(m)
                               /\ m \in There' <=> m \in There
    BY DEF LanguageInv, LanguageTypeOK, There, SourceOf
  <1>6. Alike(SourceOf(n)', t)
    <2>1. CASE memo[n] # None /\ memo[n].rendered = t
      <3>1. SourceOf(n)' = memo[n].source
        BY <1>4, <2>1 DEF SourceOf
      <3>2. memo[n].source \in Texts
        BY <2>1 DEF LanguageInv, LanguageTypeOK
      <3>3. PICK l \in Languages : t = translateUiText(memo[n].source, l)
        BY <2>1 DEF LanguageInv, Remembered
      <3> QED  BY <3>1, <3>2, <3>3, TranslationAlike
    <2>2. CASE ~(memo[n] # None /\ memo[n].rendered = t)
      BY <1>4, <2>2 DEF SourceOf, Alike
    <2> QED  BY <2>1, <2>2
  <1>7. Sources'
    <2> SUFFICES ASSUME NEW m \in There'
                 PROVE  IF m \in Excluded THEN dom'[m] = react'[m]
                        ELSE Alike(SourceOf(m)', react'[m])
      BY DEF Sources, Alike
    <2>1. CASE m = n
      BY <1>4, <1>6, <2>1
    <2>2. CASE m # n
      <3>1. m \in Nodes \ {n} /\ m \in There
        BY <1>5, <2>2 DEF There
      <3> QED  BY <1>5, <3>1 DEF LanguageInv, Sources
    <2> QED  BY <2>1, <2>2
  <1>8. Translated'
    <2> SUFFICES ASSUME NEW m \in There' \ Excluded,
                        \A root \in records' \cup pending' : m \notin root
                 PROVE  dom'[m] = translateUiText(SourceOf(m)', engine')
      BY DEF Translated, translateUiText
    <2>1. m # n /\ m \in Nodes
      BY DEF There
    <2> QED  BY <1>5, <2>1 DEF LanguageInv, Translated
  <1> QED  BY <1>1, <1>2, <1>3, <1>7, <1>8 DEF LanguageInv

\* New nodes hold React's texts and remember nothing; their root is noted.
LEMMA RenderNewStep ==
    ASSUME LanguageInv, NEW N \in SUBSET Nodes, NEW texts \in [N -> Texts], RenderNew(texts)
    PROVE  LanguageInv'
  <1>1. \A n \in N : react'[n] = texts[n] /\ dom'[n] = texts[n] /\ memo'[n] = None
    BY DEF RenderNew
  <1>2. \A n \in Nodes \ N : react'[n] = react[n] /\ dom'[n] = dom[n] /\ memo'[n] = memo[n]
    BY DEF RenderNew
  <1>3. /\ records' = records \cup {N} /\ pending' = pending
        /\ language' = language /\ engine' = engine
    BY DEF RenderNew
  <1>4. LanguageTypeOK'
    <2>1. react' \in [Nodes -> Texts \cup {None}] /\ dom' \in [Nodes -> Texts \cup {None}]
      BY DEF RenderNew, LanguageInv, LanguageTypeOK
    <2>2. memo' \in [Nodes -> [source : Texts, rendered : Texts] \cup {None}]
      BY DEF RenderNew, LanguageInv, LanguageTypeOK
    <2> QED  BY <1>3, <2>1, <2>2 DEF LanguageInv, LanguageTypeOK
  <1>5. Present'
    BY <1>1, <1>2 DEF LanguageInv, Present
  <1>6. Remembered'
    <2> SUFFICES ASSUME NEW n \in Nodes, memo'[n] # None
                 PROVE  \E k \in Languages :
                           memo'[n].rendered = translateUiText(memo'[n].source, k)
      BY DEF Remembered, translateUiText
    <2> QED  BY <1>1, <1>2 DEF LanguageInv, Remembered
  <1>7. Sources'
    <2> SUFFICES ASSUME NEW n \in There'
                 PROVE  IF n \in Excluded THEN dom'[n] = react'[n]
                        ELSE Alike(SourceOf(n)', react'[n])
      BY DEF Sources, Alike
    <2>1. CASE n \in N
      BY <1>1, <2>1 DEF SourceOf, Alike
    <2>2. CASE n \notin N
      BY <1>2, <2>2 DEF LanguageInv, Sources, SourceOf, There
    <2> QED  BY <2>1, <2>2
  <1>8. Translated'
    <2> SUFFICES ASSUME NEW n \in There' \ Excluded,
                        \A root \in records' \cup pending' : n \notin root
                 PROVE  dom'[n] = translateUiText(SourceOf(n)', engine')
      BY DEF Translated, translateUiText
    <2>1. n \in Nodes \ N
      BY <1>3 DEF There
    <2> QED  BY <1>2, <1>3, <2>1 DEF LanguageInv, Translated, SourceOf, There
  <1> QED  BY <1>4, <1>5, <1>6, <1>7, <1>8 DEF LanguageInv

\* A node that is removed is forgotten.
LEMMA RemoveStep ==
    ASSUME LanguageInv, NEW n \in Nodes, Remove(n)
    PROVE  LanguageInv'
  <1> USE DEF Remove
  <1>1. LanguageTypeOK'
    BY DEF LanguageInv, LanguageTypeOK
  <1>2. Present'
    BY DEF LanguageInv, LanguageTypeOK, Present
  <1>3. Remembered'
    BY DEF LanguageInv, LanguageTypeOK, Remembered, translateUiText
  <1>4. \A m \in There' : /\ m \in There /\ react'[m] = react[m] /\ dom'[m] = dom[m]
                          /\ SourceOf(m)' = SourceOf(m)
    BY DEF LanguageInv, LanguageTypeOK, There, SourceOf
  <1>5. Sources'
    BY <1>4 DEF LanguageInv, Sources, Alike
  <1>6. Translated'
    BY <1>4 DEF LanguageInv, Translated, translateUiText
  <1> QED  BY <1>1, <1>2, <1>3, <1>5, <1>6 DEF LanguageInv

\* The state of the provider changes before its effect runs.
LEMMA SetLanguageStep ==
    ASSUME LanguageInv, NEW l \in Languages, SetLanguage(l)
    PROVE  LanguageInv'
  BY DEF SetLanguage, LanguageInv, LanguageTypeOK, Present, Remembered, Sources, Translated,
         There, SourceOf, Alike, translateUiText

\* The whole document is translated, so nothing that is dropped was needed.
LEMMA SwitchEngineStep ==
    ASSUME LanguageInv, SwitchEngine
    PROVE  LanguageInv'
  <1>1. /\ Translate(Nodes, language) /\ language \in Languages
        /\ engine' = language /\ language' = language /\ react' = react
        /\ records' = {} /\ pending' = {}
    BY DEF SwitchEngine, LanguageInv, LanguageTypeOK
  <1>2. /\ dom' \in [Nodes -> Texts \cup {None}]
        /\ memo' \in [Nodes -> [source : Texts, rendered : Texts] \cup {None}]
        /\ Present' /\ Remembered' /\ Sources'
        /\ \A n \in There \ Excluded : dom'[n] = translateUiText(SourceOf(n)', language)
    BY <1>1, TranslateEffect DEF There
  <1>3. Translated'
    BY <1>1, <1>2 DEF Translated, There, translateUiText
  <1>4. LanguageTypeOK'
    BY <1>1, <1>2 DEF LanguageInv, LanguageTypeOK
  <1> QED  BY <1>2, <1>3, <1>4 DEF LanguageInv

\* What is skipped contains no node that has to be translated.
LEMMA ObserveStep ==
    ASSUME LanguageInv, Observe
    PROVE  LanguageInv'
  <1>1. UNCHANGED <<language, engine, react, dom, memo>> /\ records' = {}
        /\ pending' = pending \cup {root \in records : ~Skipped(root)}
    BY DEF Observe
  <1>2. LanguageTypeOK'
    BY <1>1 DEF LanguageInv, LanguageTypeOK
  <1>3. Present' /\ Remembered' /\ Sources'
    BY <1>1 DEF LanguageInv, Present, Remembered, Sources, There, SourceOf, Alike, translateUiText
  <1>4. Translated'
    <2> SUFFICES ASSUME NEW n \in There \ Excluded,
                        \A root \in pending' : n \notin root
                 PROVE  dom[n] = translateUiText(SourceOf(n), engine)
      BY <1>1 DEF Translated, There, SourceOf, translateUiText
    <2>1. \A root \in records : n \in root => ~Skipped(root)
      BY DEF Skipped
    <2>2. \A root \in records \cup pending : n \notin root
      BY <1>1, <2>1
    <2> QED  BY <2>2 DEF LanguageInv, Translated
  <1> QED  BY <1>2, <1>3, <1>4 DEF LanguageInv

\* What waited is translated; what is noted already stays noted.
LEMMA FlushStep ==
    ASSUME LanguageInv, Flush
    PROVE  LanguageInv'
  <1> DEFINE N == UNION pending
  <1>1. /\ Translate(N, engine) /\ pending' = {}
        /\ records' = records \cup {{n} : n \in {m \in Nodes : dom'[m] # dom[m]}}
        /\ UNCHANGED <<language, engine, react>>
    BY DEF Flush
  <1>2. N \in SUBSET Nodes /\ engine \in Languages
    BY DEF LanguageInv, LanguageTypeOK
  <1>3. /\ dom' \in [Nodes -> Texts \cup {None}]
        /\ memo' \in [Nodes -> [source : Texts, rendered : Texts] \cup {None}]
        /\ Present' /\ Remembered' /\ Sources'
        /\ \A n \in (N \cap There) \ Excluded :
              dom'[n] = translateUiText(SourceOf(n)', engine)
        /\ \A n \in Nodes \ ((N \cap There) \ Excluded) :
              dom'[n] = dom[n] /\ memo'[n] = memo[n]
    <2> HIDE DEF N
    <2> QED  BY <1>1, <1>2, TranslateEffect
  <1>4. LanguageTypeOK'
    BY <1>1, <1>3 DEF LanguageInv, LanguageTypeOK
  <1>5. Translated'
    <2> SUFFICES ASSUME NEW n \in There \ Excluded,
                        \A root \in records' : n \notin root
                 PROVE  dom'[n] = translateUiText(SourceOf(n)', engine)
      BY <1>1, SMTT(20) DEF Translated, There, translateUiText
    <2>1. CASE n \in N
      BY <1>3, <2>1
    <2>2. CASE n \notin N
      <3>1. \A root \in records \cup pending : n \notin root
        BY <1>1, <2>2
      <3>2. dom'[n] = dom[n] /\ SourceOf(n)' = SourceOf(n)
        BY <1>3, <2>2 DEF There, SourceOf
      <3> QED  BY <3>1, <3>2 DEF LanguageInv, Translated
    <2> QED  BY <2>1, <2>2
  <1> QED  BY <1>3, <1>4, <1>5 DEF LanguageInv

-----------------------------------------------------------------------------
(* The engine alone.                                                       *)

\* At first there is no node.
LEMMA LanguageInvInit == LanguageInit => LanguageInv
  BY DEF LanguageInit, LanguageInv, LanguageTypeOK, Languages, Present, Remembered, Sources,
         Translated, There

\* Every step keeps the invariant.
LEMMA LanguageStep == LanguageInv /\ [LanguageNext]_languageVars => LanguageInv'
  <1> SUFFICES ASSUME LanguageInv, [LanguageNext]_languageVars  PROVE LanguageInv'
    OBVIOUS
  <1>1. CASE \E n \in Nodes : Remove(n)
    BY <1>1, RemoveStep
  <1>2. CASE \E n \in Nodes : \E t \in Texts : RenderText(n, t)
    BY <1>2, RenderTextStep
  <1>3. CASE \E N \in SUBSET Nodes \ {{}} : \E texts \in [N -> Texts] : RenderNew(texts)
    BY <1>3, RenderNewStep
  <1>4. CASE \E l \in Languages : SetLanguage(l)
    BY <1>4, SetLanguageStep
  <1>5. CASE SwitchEngine
    BY <1>5, SwitchEngineStep
  <1>6. CASE Observe
    BY <1>6, ObserveStep
  <1>7. CASE Flush
    BY <1>7, FlushStep
  <1>8. CASE UNCHANGED languageVars
    BY <1>8 DEF languageVars, LanguageInv, LanguageTypeOK, Present, Remembered, Sources,
                Translated, There, SourceOf, Alike, translateUiText
  <1> QED  BY <1>1, <1>2, <1>3, <1>4, <1>5, <1>6, <1>7, <1>8 DEF LanguageNext

\* Idle means that no root is left, so every node is translated.
LEMMA LanguageInvShows == LanguageInv => TextsShown
  <1> SUFFICES ASSUME LanguageInv, Idle, NEW n \in There
               PROVE  IF n \in Excluded THEN dom[n] = react[n]
                      ELSE \/ dom[n] = translateUiText(react[n], language)
                           \/ /\ language = "en" /\ dom[n] \in DOMAIN EnFa
                              /\ EnFa[dom[n]] = react[n]
    BY DEF TextsShown
  <1>1. CASE n \in Excluded
    BY <1>1 DEF LanguageInv, Sources
  <1>2. CASE n \notin Excluded
    <2>1. Alike(SourceOf(n), react[n])
      BY <1>2 DEF LanguageInv, Sources
    <2>2. dom[n] = translateUiText(SourceOf(n), language)
      BY <1>2 DEF LanguageInv, Translated, Idle
    <2>3. react[n] \in Texts /\ SourceOf(n) \in Texts /\ language \in Languages
      BY DEF LanguageInv, LanguageTypeOK, Present, There, SourceOf
    <2> QED  BY <1>2, <2>1, <2>2, <2>3, AlikeShown
  <1> QED  BY <1>1, <1>2

\* The engine, whatever React renders and whenever its callbacks run, shows
\* every text in the language of the page once it is idle.
THEOREM EngineShowsTexts == LanguageSpec => []TextsShown
  BY LanguageInvInit, LanguageStep, LanguageInvShows, PTL DEF LanguageSpec
=============================================================================
