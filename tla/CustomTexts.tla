----------------------------- MODULE CustomTexts ----------------------------
(***************************************************************************)
(* CustomSection: the list of the bot's texts with its filters, and the    *)
(* editor of the selected one.  A text is the pair of the key it was       *)
(* loaded or typed for and whether it is the owner's own.                  *)
(***************************************************************************)
EXTENDS AdminShell

CONSTANTS
    Keys,           \* the keys of the texts, numbered in the order of the list
    Buttons,        \* the keys of kind "button"
    Filters         \* the filters used, of "all", "button", "custom", "default"

ASSUME KeysAssumption == Keys \subseteq Nat \ {0} /\ Keys # {} /\ Buttons \subseteq Keys

DefaultTexts == [k \in Keys |-> <<k, FALSE>>]
FirstOf(S) == CHOOSE k \in S : \A j \in S : k <= j

\* selected is selectedKey (0 for none), shown the key whose effect ran last.
FreshTexts ==
    [data |-> None, loading |-> TRUE, error |-> FALSE, filter |-> "all", selected |-> 0,
     shown |-> 0, draft |-> <<0, FALSE>>, saving |-> FALSE]

Listed(u) ==
    {k \in Keys : CASE u.filter = "all"     -> TRUE
                    [] u.filter = "button"  -> k \in Buttons
                    [] u.filter = "custom"  -> u.data[k][2]
                    [] u.filter = "default" -> ~u.data[k][2]}

\* filtered.find(selectedKey) || filtered[0] || null
SelectedIn(u) ==
    IF u.selected \in Listed(u) THEN u.selected
    ELSE IF Listed(u) = {} THEN 0 ELSE FirstOf(Listed(u))

\* As if the draft were only filled when there is none.
SettledOnce(u) ==
    LET k == SelectedIn(u)
    IN  IF k \in {0, u.shown} THEN [u EXCEPT !.shown = k]
        ELSE [u EXCEPT !.shown = k, !.selected = k,
                       !.draft = IF @[1] = 0 THEN u.data[k] ELSE @]
\* The effect on selected?.key: another text starts from what is stored.
Settled(u) ==
    LET k == SelectedIn(u)
    IN  IF k \in {0, u.shown} THEN [u EXCEPT !.shown = k]
        ELSE [u EXCEPT !.shown = k, !.selected = k, !.draft = u.data[k]]

\* The page stays in use while it syncs, and after a load that failed.
TextsOpen == section = "custom" /\ ~authRequired /\ ui.data # None

SelectText(k) ==
    /\ TextsOpen /\ k \in Listed(ui) /\ k # ui.shown
    /\ ui' = Settled([ui EXCEPT !.selected = k])
    /\ UNCHANGED <<tab, dialog, http, db>>

\* Search, kind, category, stage and status.
FilterTexts(f) ==
    /\ "filters" \in tour /\ TextsOpen /\ f # ui.filter
    /\ ui' = Settled([ui EXCEPT !.filter = f])
    /\ UNCHANGED <<tab, dialog, http, db>>

TypeText ==
    /\ "typing" \in tour /\ TextsOpen /\ ui.shown # 0
    /\ ui' = [ui EXCEPT !.draft = <<ui.shown, TRUE>>]
    /\ UNCHANGED <<tab, dialog, http, db>>

SaveText ==
    /\ TextsOpen /\ ui.shown # 0 /\ ~ui.saving /\ HasRoom
    /\ ui' = [ui EXCEPT !.saving = TRUE]
    /\ http' = Put(http, Request("text", section,
                      [key |-> ui.shown, text |-> ui.draft, from |-> ui.selected]))
    /\ UNCHANGED <<tab, dialog, db>>

\* Reset one text, or all: no lock.
ResetTexts(keys) ==
    /\ "resets" \in tour /\ TextsOpen /\ HasRoom /\ (keys = Keys \/ (ui.shown # 0 /\ keys = {ui.shown}))
    /\ http' = Put(http, Request("resettext", section, [keys |-> keys, from |-> ui.selected]))
    /\ UNCHANGED <<tab, dialog, ui, db>>

ServeTexts(i) ==
    \/ http[i].op = "texts" /\ Serve(i, db, db.texts)
    \/ /\ http[i].op = "text"
       /\ Serve(i, [db EXCEPT !.texts[http[i].arg.key] = http[i].arg.text], Done)
    \/ /\ http[i].op = "resettext"
       /\ Serve(i, [db EXCEPT !.texts = [k \in Keys |-> IF k \in http[i].arg.keys
                                                        THEN <<k, FALSE>> ELSE @[k]]], Done)

\* A save or a reset that succeeded loads the texts again, with the selection
\* of the moment it was clicked.
TextReply(i) ==
    /\ i \in Live("text") \cup Live("resettext") /\ http[i].ans # Waiting
    /\ LET saves == http[i].op = "text"
       IN  \/ /\ http[i].ans = Done
              /\ http' = Put(Remove(i), Request("texts", section,
                            [key |-> http[i].arg.from, saves |-> saves]))
              /\ UNCHANGED <<tab, dialog, ui, db>>
           \/ /\ http[i].ans = Failed
              /\ http' = Remove(i) /\ ui' = [ui EXCEPT !.saving = @ /\ ~saves]
              /\ UNCHANGED <<tab, dialog, db>>
           \/ http[i].ans = Unauthorized /\ AuthReply(i)

\* load: no clean-up, so the last reply wins and puts its selection back.  Its
\* flags only show while there is no data.
TextsReply(i) ==
    /\ i \in Live("texts") /\ http[i].ans # Waiting
    /\ LET u   == [ui EXCEPT !.loading = FALSE, !.saving = @ /\ ~http[i].arg.saves]
           key == IF http[i].arg.key \in Keys THEN http[i].arg.key ELSE FirstOf(Keys)
       IN  \/ /\ http[i].ans \notin {Failed, Unauthorized}
              /\ ui' = Settled([u EXCEPT !.data = http[i].ans, !.selected = key, !.error = FALSE])
              /\ http' = Remove(i) /\ UNCHANGED <<tab, dialog, db>>
           \/ /\ http[i].ans = Failed
              /\ ui' = [u EXCEPT !.error = u.data = None]
              /\ http' = Remove(i) /\ UNCHANGED <<tab, dialog, db>>
           \/ http[i].ans = Unauthorized /\ AuthReply(i)

\* The editor never saves one text under the key of another: whatever filter,
\* selection or late load came between typing and saving, what the server
\* stores under a key was loaded or typed for that key.
SavedUnderItsKey ==
    /\ \A k \in Keys : db.texts[k][1] = k
    /\ \A i \in InFlight : http[i].op = "text" => http[i].arg.text[1] = http[i].arg.key
=============================================================================
