---------------------------- MODULE AdminSettings ---------------------------
(***************************************************************************)
(* The sections that keep a draft or an order of their own: the servers,   *)
(* the lists whose order the bot shows (categories, plans, service types), *)
(* the Telegram connection, backup and restore, and the test account.  The *)
(* handlers that read the settings again after a POST ("refetch") do so    *)
(* without useApi: nothing cancels that read.                              *)
(***************************************************************************)
EXTENDS AdminShell, Sequences
Seqs == INSTANCE SequencesExt

CONSTANTS
    Xui,                    \* the servers a trial needs inbounds of
    Found,                  \* the items a search other than "" finds
    Values,                 \* what the connection may be set to
    MaxRevision,            \* bound: no save of the connection is sent from here on
    Files,                  \* backup files to restore from
    Secrets,                \* the kinds of secret a backup may need
    BackupKinds             \* the operations of the backup card

\* A handler of the section starts: it sets its flag and sends a request.
Send(u, op, arg) ==
    /\ HasRoom /\ dialog = None
    /\ ui' = u /\ http' = Put(http, Request(op, section, arg))
    /\ UNCHANGED <<tab, dialog, db>>
Edit(u) == dialog = None /\ ui' = u /\ UNCHANGED <<tab, dialog, http, db>>
Finish(i, u) == ui' = u /\ http' = Remove(i) /\ UNCHANGED <<tab, dialog, db>>
Refetch(i, u, what) == /\ ui' = u /\ http' = Put(Remove(i), Request("refetch", section, [what |-> what]))
                 /\ UNCHANGED <<tab, dialog, db>>
Arrived(i, op) == i \in Live(op) /\ http[i].ans # Waiting
Refused(i) == http[i].ans \in {Failed, Unauthorized}

-----------------------------------------------------------------------------
(* Servers.                                                                *)

FreshServers ==
    [data |-> None, loading |-> TRUE, error |-> FALSE, items |-> {}, refreshing |-> None]
FilledServers(u, data) ==
    [u EXCEPT !.data = data, !.loading = FALSE, !.items = data]

RefreshOne(x) ==
    /\ "rows" \in tour /\ Usable("servers") /\ x \in ui.items /\ ui.refreshing # x
    /\ Send([ui EXCEPT !.refreshing = x], "sync", [server |-> x])

\* Only the button of that server waits, and the row goes when it is gone.
DeleteServer(x) ==
    "rows" \in tour /\ Usable("servers") /\ x \in ui.items /\ Send(ui, "remove", [server |-> x])

ServeServer(i) ==
    \/ http[i].op = "sync" /\ Serve(i, db, Done)
    \/ http[i].op = "remove" /\ Serve(i, [db EXCEPT !.servers = @ \ {http[i].arg.server}], Done)

ServerReply(i) ==
    \/ /\ Arrived(i, "sync")
       /\ \/ http[i].ans = Done /\ Refetch(i, ui, "sync")
          \/ http[i].ans = Failed /\ Finish(i, [ui EXCEPT !.refreshing = None])
          \/ http[i].ans = Unauthorized /\ AuthReply(i)
    \/ /\ Arrived(i, "remove")
       /\ Finish(i, IF http[i].ans = Done THEN [ui EXCEPT !.items = @ \ {http[i].arg.server}] ELSE ui)

-----------------------------------------------------------------------------
(* Orders: an item is dragged onto another.                                *)

Ordered == {"categories", "plans", "service-types"}
FreshOrder ==
    [data |-> None, loading |-> TRUE, error |-> FALSE, order |-> <<>>, saving |-> FALSE]
FilledOrder(u, data) ==
    [u EXCEPT !.data = data, !.loading = FALSE, !.order = data]

Shows(item) == query = "" \/ item \in Found
IndexIn(list, x) == CHOOSE k \in DOMAIN list : list[k] = x
\* splice(from, 1), then splice(to, 0, moved).
Moved(list, x, y) ==
    Seqs!InsertAt(Seqs!RemoveAt(list, IndexIn(list, x)), IndexIn(list, y), x)

\* As if it were the rows on screen.
ReorderedShown(s) == SelectSeq(ui.order, Shows)
\* What a drop reorders: the whole list, whatever part of it is shown.
Reordered(s) == IF s = "service-types" THEN ui.data ELSE ui.order

\* Categories cannot be dragged while a search hides some; dropping a service
\* type on itself does nothing; only service types wait for the server.
Drop(s, x, y) ==
    /\ "orders" \in tour /\ Usable(s)
    /\ s = "categories" => query = ""
    /\ s = "plans" => Shows(x) /\ Shows(y)
    /\ s = "service-types" => x # y
    /\ LET next == Moved(Reordered(s), x, y)
       IN  Send([ui EXCEPT !.saving = TRUE,
                           !.order = IF s = "service-types" THEN @ ELSE next], "order", [list |-> next])

ServeOrder(i) ==
    http[i].op = "order" /\ Serve(i, [db EXCEPT !.order = http[i].arg.list], Done)

\* As if the lock were only released after a success.
UnlockedOnSuccess(u, failed) == [u EXCEPT !.saving = failed]
\* The finally block of saveOrder: nothing is rolled back.
Unlocked(u, failed) == [u EXCEPT !.saving = FALSE]

OrderReply(i) ==
    /\ Arrived(i, "order")
    /\ \/ /\ http[i].ans = Done
          /\ Finish(i, IF section = "service-types"
                         THEN Unlocked([ui EXCEPT !.data = http[i].arg.list, !.order = http[i].arg.list], FALSE)
                         ELSE Unlocked(ui, FALSE))
       \/ http[i].ans = Failed /\ Finish(i, Unlocked(ui, TRUE))
       \/ http[i].ans = Unauthorized /\ AuthReply(i)

-----------------------------------------------------------------------------
(* Connection.  The fields are one value and one secret, which the server  *)
(* never sends back.                                                       *)

FreshConnection ==
    [data |-> None, loading |-> TRUE, error |-> FALSE,
     form |-> [value |-> None, secret |-> FALSE], busy |-> ""]

\* As if it depended on the data.
RefillsAlways(u, data) == TRUE
\* The effect depends on the revision of the data, not on the data.
Refills(u, data) == u.data = None \/ u.data.rev # data.rev
FilledConnection(u, data) ==
    [u EXCEPT !.data = data, !.loading = FALSE,
              !.form = IF Refills(u, data) THEN [value |-> data.value, secret |-> FALSE] ELSE @]

TypeConnection(form) == Usable("connection") /\ Edit([ui EXCEPT !.form = form])

\* Test sends what is typed, not what is saved.
SendConnection(kind) ==
    /\ Usable("connection") /\ ui.busy = ""
    /\ kind = "save" => db.conn.rev < MaxRevision
    /\ Send([ui EXCEPT !.busy = kind], "connect", [kind |-> kind, value |-> ui.form.value])

ServeConnection(i) ==
    /\ http[i].op = "connect"
    /\ IF http[i].arg.kind = "test" THEN Serve(i, db, Done)
       ELSE LET saved == [rev |-> db.conn.rev + 1, value |-> http[i].arg.value]
            IN  Serve(i, [db EXCEPT !.conn = saved], saved)

\* The status is read again whether the test passed or not; a save answers
\* with the settings, and empties the secrets.
ConnectionReply(i) ==
    /\ Arrived(i, "connect")
    /\ \/ http[i].ans = Unauthorized /\ AuthReply(i)
       \/ /\ http[i].ans # Unauthorized /\ http[i].arg.kind = "test"
          /\ Refetch(i, ui, "connection")
       \/ /\ http[i].ans = Failed /\ http[i].arg.kind = "save"
          /\ Finish(i, [ui EXCEPT !.busy = ""])
       \/ /\ ~Refused(i) /\ http[i].arg.kind = "save"
          /\ Finish(i, [FilledConnection([ui EXCEPT !.form.secret = FALSE], http[i].ans)
                          EXCEPT !.busy = "", !.loading = ui.loading])

-----------------------------------------------------------------------------
(* Backup.  typed holds the secrets in the fields, each with the file that *)
(* was chosen when it was typed.                                           *)

FreshBackup ==
    [data |-> None, loading |-> TRUE, error |-> FALSE,
     file |-> None, typed |-> {}, need |-> {}, busy |-> ""]
FilledBackup(u, data) == [u EXCEPT !.data = data, !.loading = FALSE]

\* Save, test, run, sales report: each waits for its own name in [busy].
RunBackup(kind) ==
    /\ Usable("backup") /\ ui.busy # kind
    /\ Send([ui EXCEPT !.busy = kind], "backup", [what |-> kind])

\* As if the fields kept what they hold.
TypedKept(typed) == typed
\* Choosing a file, or none, empties every secret and every demand for one.
TypedAfterChoice(typed) == {}
ChooseFile(f) ==
    /\ Usable("backup") /\ f # ui.file
    /\ Edit([ui EXCEPT !.file = f, !.typed = TypedAfterChoice(@), !.need = {}])

TypeSecret(k) ==
    /\ Usable("backup") /\ <<k, ui.file>> \notin ui.typed
    /\ Edit([ui EXCEPT !.typed = {t \in @ : t[1] # k} \cup {<<k, ui.file>>}])

RestoreBackup ==
    /\ Usable("backup") /\ ui.file # None /\ ui.busy # "restore"
    /\ ui.need \subseteq {t[1] : t \in ui.typed}
    /\ Send([ui EXCEPT !.busy = "restore"], "restore", [file |-> ui.file, typed |-> ui.typed])

ServeBackup(i) == http[i].op \in {"backup", "restore"} /\ Serve(i, db, Done)

BackupReply(i) ==
    \/ /\ Arrived(i, "backup")
       /\ \/ http[i].ans = Done /\ Refetch(i, ui, http[i].arg.what)
          \/ /\ Refused(i) /\ (http[i].ans = Failed \/ ~AsksForLogin(http[i]))
             /\ Finish(i, [ui EXCEPT !.busy = ""])
          \/ http[i].ans = Unauthorized /\ AsksForLogin(http[i]) /\ AuthReply(i)
    \/ /\ Arrived(i, "restore")
       /\ IF http[i].ans = Done
            THEN Finish(i, [ui EXCEPT !.file = None, !.typed = {}, !.need = {}, !.busy = ""])
            ELSE \E k \in SUBSET Secrets :
                   /\ Cardinality(k) <= 1
                   /\ Finish(i, [ui EXCEPT !.need = @ \cup k, !.busy = ""])

-----------------------------------------------------------------------------
(* Test account: targets maps the chosen servers to the inbounds chosen.   *)

InboundsAt(x) == IF x \in Xui THEN {x} \X InboundIds ELSE {}

FreshTrial ==
    [data |-> None, loading |-> TRUE, error |-> FALSE, targets |-> <<>>, saving |-> FALSE]
FilledTrial(u, data) == [u EXCEPT !.data = data, !.loading = FALSE, !.targets = data]

ChooseTarget(x) ==
    /\ Usable("test-account")
    /\ Edit([ui EXCEPT !.targets =
               IF x \in DOMAIN @ THEN [y \in DOMAIN @ \ {x} |-> @[y]]
               ELSE [y \in DOMAIN @ \cup {x} |-> IF y = x THEN InboundsAt(x) ELSE @[y]]])

\* As if it changed them all.
WithInboundsAll(targets, x, inbounds) == [y \in DOMAIN targets |-> inbounds]
\* setServerInbounds maps over the targets and changes that server's.
WithInbounds(targets, x, inbounds) == [targets EXCEPT ![x] = inbounds]

ToggleTarget(x, b) ==
    /\ Usable("test-account") /\ x \in DOMAIN ui.targets /\ b \in InboundsAt(x)
    /\ LET old == ui.targets[x]
       IN  Edit([ui EXCEPT !.targets =
                   WithInbounds(@, x, IF b \in old THEN old \ {b} ELSE old \cup {b})])

SaveTrial ==
    /\ Usable("test-account") /\ ~ui.saving /\ DOMAIN ui.targets # {}
    /\ \A x \in DOMAIN ui.targets \cap Xui : ui.targets[x] # {}
    /\ Send([ui EXCEPT !.saving = TRUE], "trial", [targets |-> ui.targets])

\* Reset the usage history, of one user or of all.
ResetTrial == Usable("test-account") /\ Send(ui, "trialreset", None)

ServeTrial(i) ==
    \/ http[i].op = "trial" /\ Serve(i, [db EXCEPT !.targets = http[i].arg.targets], Done)
    \/ http[i].op = "trialreset" /\ Serve(i, db, Done)

TrialReply(i) ==
    \/ /\ Arrived(i, "trial")
       /\ \/ http[i].ans = Done /\ Refetch(i, ui, "trial")
          \/ http[i].ans = Failed /\ Finish(i, Unlocked(ui, TRUE))
          \/ http[i].ans = Unauthorized /\ AuthReply(i)
    \/ /\ Arrived(i, "trialreset")
       /\ IF Refused(i) THEN Finish(i, ui) ELSE Refetch(i, ui, "reset")

-----------------------------------------------------------------------------
(* The read after the POST: it sets the data as a load would, and ends     *)
(* what its handler had begun.                                             *)

Ended(u, what) ==
    CASE section = "servers"    -> [u EXCEPT !.refreshing = None]
      [] what = "trial"         -> Unlocked(u, FALSE)
      [] what = "reset"         -> u
      [] OTHER                  -> [u EXCEPT !.busy = ""]

\* A server's refresh updates the rows there are; the others set the data.
Refetched(u, data) ==
    CASE section = "servers"      -> u
      [] section = "connection"   -> [FilledConnection(u, data) EXCEPT !.loading = u.loading]
      [] section = "backup"       -> [u EXCEPT !.data = data]
      [] section = "test-account" -> [u EXCEPT !.data = data, !.targets = data]

RefetchReply(i) ==
    /\ Arrived(i, "refetch")
    /\ \/ ~Refused(i) /\ Finish(i, Ended(Refetched(ui, http[i].ans), http[i].arg.what))
       \/ /\ Refused(i) /\ (http[i].ans = Failed \/ ~AsksForLogin(http[i]))
          /\ Finish(i, Ended(ui, http[i].arg.what))
       \/ http[i].ans = Unauthorized /\ AsksForLogin(http[i]) /\ AuthReply(i)

-----------------------------------------------------------------------------
(* Properties.                                                             *)

\* Every order sent to the server names every item of the list, also while a
\* search hides some of them: the server stores what it gets as the order.
ReorderKeepsAll ==
    \A i \in InFlight : http[i].op = "order" =>
      /\ Seqs!ToSet(http[i].arg.list) = Items
      /\ Len(http[i].arg.list) = Cardinality(Items)

\* No answer writes over what the owner types into the connection form, unless
\* it carries another revision of the settings: a failed test, a Refresh and
\* the read that follows a test leave the draft alone.
ConnDraftKept ==
    [][/\ section = "connection" /\ section' = "connection" /\ http' # http
       /\ ui.data # None /\ ui'.data # None /\ ui'.data.rev = ui.data.rev
       => ui'.form.value = ui.form.value]_vars

\* A restore never sends a secret that was typed for another file.
SecretsBelongToFile ==
    \A i \in InFlight : http[i].op = "restore" =>
      \A t \in http[i].arg.typed : t[2] = http[i].arg.file

\* A saved trial target has inbounds of its own server, and an X-UI server at
\* least one.
TargetsUsable ==
    \A i \in InFlight : http[i].op = "trial" =>
      \A x \in DOMAIN http[i].arg.targets :
        /\ http[i].arg.targets[x] \subseteq InboundsAt(x)
        /\ x \in Xui => http[i].arg.targets[x] # {}

Busy == \/ "saving" \in DOMAIN ui /\ ui.saving
        \/ "resetting" \in DOMAIN ui /\ ui.resetting
        \/ "busy" \in DOMAIN ui /\ ui.busy # ""
        \/ "refreshing" \in DOMAIN ui /\ ui.refreshing # None

\* No section stays locked: a save, a test or a reset that has begun ends with
\* its flag cleared, however the server answers.
BusyEnds == Busy ~> ~Busy
=============================================================================
