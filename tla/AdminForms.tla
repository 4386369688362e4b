----------------------------- MODULE AdminForms -----------------------------
(***************************************************************************)
(* FormModal, the dialog every card's "Add" and "Edit" opens: its values,  *)
(* the fields a value shows or hides, "Test & Auto Fill" of a server, and  *)
(* the save that closes the dialog and loads the section again.  Four      *)
(* forms stand for the twelve: a discount (nothing depends on a field), a  *)
(* server (two FieldConfigs of one name), a plan (inbounds of a server)    *)
(* and a reseller (policies per server, and an operation id).              *)
(***************************************************************************)
EXTENDS AdminShell

CONSTANT MaxOpened  \* bound: reseller forms opened in a sitting

ServerTypes == {"xui", "pasarguard", "mikrotik"}
InboundsOf(server) == {server} \X InboundIds

\* The fields of serverForm that depend on the type.
FieldConfigs ==
    { [name |-> "panel_path",       types |-> {"xui"}],
      [name |-> "subscription_url", types |-> {"xui"}],
      [name |-> "subscription_url", types |-> {"pasarguard"}],
      [name |-> "api_key",          types |-> {"xui", "mikrotik"}],
      [name |-> "api_key",          types |-> {"pasarguard"}],
      [name |-> "l2tp_server",      types |-> {"mikrotik"}],
      [name |-> "detected_routers", types |-> {"mikrotik"}] }

OpenForms == {"discounts", "servers", "plans", "resellers"}

\* What the values of a form may be.
PlanValues == [server : Servers \cup {None}, mode : {"automatic", "manual"},
               inbounds : SUBSET (Servers \X InboundIds)]
ResellerValues ==
    [servers : SUBSET Servers,
     policies : UNION {[S -> SUBSET (Servers \X InboundIds)] : S \in SUBSET Servers}]
FormValues(form) ==
    CASE form = "discounts" -> [code : Items]
      [] form = "servers"   -> [server_type : ServerTypes]
      [] form = "plans"     -> PlanValues
      [] form = "resellers" -> ResellerValues
Dialogs == UNION {[form : {s}, v : FormValues(s), testing : BOOLEAN, saving : BOOLEAN,
                   op : 0..MaxOpened] : s \in OpenForms}

ASSUME FormsAssumption == MaxOpened \in Nat /\ None \notin Servers \cup Dialogs

\* What the form of a section may start from: a new item, or a stored one.
Defaults(s) ==
    CASE s = "discounts" -> {[code |-> c] : c \in Items}
      [] s = "servers"   -> {[server_type |-> t] : t \in ServerTypes}
      [] s = "plans"     -> {[server |-> None, mode |-> "automatic", inbounds |-> {}]}
                            \cup {[server |-> x, mode |-> "manual", inbounds |-> InboundsOf(x)] :
                                    x \in Servers}
      [] s = "resellers" -> {[servers |-> {}, policies |-> <<>>],
                             [servers |-> Servers, policies |-> [x \in Servers |-> InboundsOf(x)]]}

\* openModal, from a card or the button above the list.  A reseller's form
\* gets its operation id here.
OpenForm(s, v) ==
    /\ "forms" \in tour /\ s \in OpenForms /\ Usable(s) /\ dialog = None
    /\ s = "resellers" => opened < MaxOpened
    /\ opened' = IF s = "resellers" THEN opened + 1 ELSE opened
    /\ dialog' = [form |-> s, v |-> v, testing |-> FALSE, saving |-> FALSE, op |-> opened']
    /\ UNCHANGED <<tour, section, query, authRequired, session, visible, ui, http, db>>

Editing(form) == dialog # None /\ dialog.form = form
Put1(v) == dialog' = [dialog EXCEPT !.v = v] /\ UNCHANGED <<tab, ui, http, db>>

\* change('server_type'): whatever was typed in a field stays in values.
ChangeType(t) == Editing("servers") /\ Put1([server_type |-> t])

\* As if change() left inbound_ids alone.
ServerChangedOnly(v, x) == [v EXCEPT !.server = x]
\* change('server_id') of a plan.
ServerChanged(v, x) == [server |-> x, mode |-> v.mode, inbounds |-> {}]
ChangeServer(x) == Editing("plans") /\ Put1(ServerChanged(dialog.v, x))

ChangeMode(m) ==
    /\ Editing("plans") /\ dialog.v.server # None
    /\ Put1([server |-> dialog.v.server, mode |-> m,
             inbounds |-> IF m = "automatic" THEN {} ELSE dialog.v.inbounds])

\* The picker offers the inbounds of the server chosen now.
ToggleInbound(n) ==
    /\ Editing("plans") /\ dialog.v.server # None /\ dialog.v.mode = "manual"
    /\ LET b == <<dialog.v.server, n>>
       IN  Put1([dialog.v EXCEPT !.inbounds = IF b \in @ THEN @ \ {b} ELSE @ \cup {b}])

\* As if the policies were kept.
AllowedOnly(v, servers) == [v EXCEPT !.servers = servers]
\* toggleCsvValue('allowed_server_ids'): policies of other servers go.
Allowed(v, servers) ==
    [servers |-> servers, policies |-> [x \in DOMAIN v.policies \cap servers |-> v.policies[x]]]

ToggleServer(x) ==
    /\ Editing("resellers")
    /\ Put1(Allowed(dialog.v, IF x \in dialog.v.servers THEN dialog.v.servers \ {x}
                              ELSE dialog.v.servers \cup {x}))

\* setResellerPolicy, offered for each allowed server: {} is "automatic".
SetResellerPolicy(x, inbounds) ==
    /\ Editing("resellers") /\ x \in dialog.v.servers
    /\ Put1([dialog.v EXCEPT !.policies =
               [y \in DOMAIN @ \cup {x} |-> IF y = x THEN inbounds ELSE @[y]]])

\* As if the close button stayed enabled.
MayCloseAlways(d) == TRUE
\* The buttons and the dialog itself: no close while saving.
MayClose(d) == ~d.saving

CloseForm ==
    /\ dialog # None /\ MayClose(dialog)
    /\ dialog' = None
    /\ http' = [i \in Slot |-> IF i \in Live("test") THEN [http[i] EXCEPT !.live = FALSE]
                               ELSE http[i]]
    /\ UNCHANGED <<tab, ui, db>>

-----------------------------------------------------------------------------
(* "Test & Auto Fill": sends every value, shown or not, and writes what    *)
(* the panel tells about itself over the values (none of those above).     *)

TestServer ==
    /\ Editing("servers") /\ ~dialog.testing /\ ~dialog.saving /\ HasRoom
    /\ dialog' = [dialog EXCEPT !.testing = TRUE]
    /\ http' = Put(http, Request("test", "shell", None))
    /\ UNCHANGED <<tab, ui, db>>

ServeTest(i) == http[i].op = "test" /\ Serve(i, db, Done)

TestReply(i) ==
    /\ i \in Live("test") /\ http[i].ans # Waiting
    /\ IF http[i].ans = Unauthorized \/ authRequired THEN AuthReply(i)
       ELSE /\ dialog' = [dialog EXCEPT !.testing = FALSE] /\ http' = Remove(i)
            /\ UNCHANGED <<tab, ui, db>>

-----------------------------------------------------------------------------
(* submitCurrentForm and submitModal.                                      *)

Shown(f, type) == type \in f.types
Names(fields) == {f.name : f \in fields}
\* As if a hidden FieldConfig took its name away whatever else shows it.
SentWithoutHidden(type) ==
    Names(FieldConfigs) \ Names({f \in FieldConfigs : ~Shown(f, type)})
\* Hidden names are left out, unless another FieldConfig of the name is shown.
SentNames(type) ==
    LET omitted == Names({f \in FieldConfigs : ~Shown(f, type)})
                     \ Names({f \in FieldConfigs : Shown(f, type)})
    IN  Names(FieldConfigs) \ omitted

\* As if submitting drew it.
OperationIdOnSubmit(d) == <<d.op, Cardinality(db.credits)>>
\* The operation id is one of the form's values since it was opened.
OperationId(d) == <<d.op, 0>>

\* A plan's mode and inbounds are not even sent before a server is chosen.
Sent(d) ==
    CASE d.form = "servers"   -> [server_type |-> d.v.server_type, names |-> SentNames(d.v.server_type)]
      [] d.form = "resellers" ->
           [form |-> d.op, key |-> OperationId(d), servers |-> d.v.servers, policies |-> d.v.policies]
      [] OTHER                -> d.v

\* Required pickers that are shown must not be empty.
Complete(d) ==
    CASE d.form = "plans"     -> d.v.server # None /\ d.v.mode = "manual" => d.v.inbounds # {}
      [] d.form = "resellers" -> d.v.servers # {}
      [] OTHER                -> TRUE

SubmitForm ==
    /\ dialog # None /\ ~dialog.saving /\ ~dialog.testing /\ Complete(dialog) /\ HasRoom
    /\ dialog' = [dialog EXCEPT !.saving = TRUE]
    /\ http' = Put(http, Request("submit", "shell", [form |-> dialog.form, v |-> Sent(dialog)]))
    /\ UNCHANGED <<tab, ui, db>>

\* The server adds the discount code; it credits a reseller once per key.
Stored(arg) ==
    CASE arg.form = "discounts" -> [db EXCEPT !.items = @ \cup {arg.v.code}]
      [] arg.form = "resellers" ->
            IF \E c \in db.credits : c.key = arg.v.key THEN db
            ELSE [db EXCEPT !.credits = @ \cup {[form |-> arg.v.form, key |-> arg.v.key]}]
      [] OTHER -> db

ServeSubmit(i) == http[i].op = "submit" /\ Serve(i, Stored(http[i].arg), Done)

SubmitReply(i) ==
    /\ i \in Live("submit") /\ http[i].ans # Waiting
    /\ IF http[i].ans = Unauthorized \/ authRequired THEN AuthReply(i)
       ELSE /\ \/ http[i].ans = Done /\ dialog' = None /\ Reload(Remove(i))
               \/ /\ http[i].ans = Failed /\ http' = Remove(i) /\ UNCHANGED ui
                  /\ dialog' = IF dialog = None THEN None ELSE [dialog EXCEPT !.saving = FALSE]
            /\ UNCHANGED <<tab, db>>

-----------------------------------------------------------------------------
(* Properties.                                                             *)

InFlightForm(form) == {http[i].arg.v : i \in {j \in InFlight :
                         http[j].op = "submit" /\ http[j].arg.form = form}}

\* submitModal closes whatever dialog is open: a save in flight is always the
\* save of that dialog, so that no answer closes, or unlocks, another form.
RepliesMeetTheirForm ==
    ~authRequired =>
      \A i \in Live("submit") :
        /\ Editing(http[i].arg.form) /\ dialog.saving
        /\ \A j \in Live("submit") : i = j

\* Each opened form changes a reseller's wallet once, however often its save
\* is tried again after an answer that was lost.
AdjustedOnce ==
    \A c, d \in db.credits : c.form = d.form => c = d

\* The save of a server sends exactly the fields its type shows, a name with
\* two FieldConfigs included.
SentIsShown ==
    \A v \in InFlightForm("servers") :
      v.names = {f.name : f \in {g \in FieldConfigs : v.server_type \in g.types}}

\* A saved plan takes its inbounds from its own server, and none when they
\* are chosen automatically.
InboundsOfTheirServer ==
    \A v \in InFlightForm("plans") :
      /\ v.inbounds \subseteq (IF v.server = None THEN {} ELSE InboundsOf(v.server))
      /\ v.mode = "automatic" => v.inbounds = {}

\* A saved reseller has policies for servers it may use, and no others.
PoliciesForAllowed ==
    \A v \in InFlightForm("resellers") : DOMAIN v.policies \subseteq v.servers
=============================================================================
