----------------------------- MODULE AdminShell -----------------------------
(***************************************************************************)
(* One browser tab of the web panel: AdminDashboard, which mounts one      *)
(* section at a time, and the hook useApi every section loads its data     *)
(* with.  The modal forms and the sections with a form of their own are in *)
(* AdminForms, AdminSettings and CustomTexts; AdminPanel composes them.    *)
(* Requests are served and answered in any order.                          *)
(*                                                                         *)
(* A React commit and the effects it triggers are one step: React runs     *)
(* pending effects before it handles the next event.                       *)
(***************************************************************************)
EXTENDS Naturals, FiniteSets, TLC

CONSTANTS
    None,           \* no value
    Waiting, Done, Failed, Unauthorized,  \* no answer yet, and the answers
    Tours,          \* bound: what one sitting at the panel is about
    MaxHttp,        \* bound: requests in flight at a time
    Queries,        \* what the search box may hold
    LastPage,       \* bound: pages of the users list
    Items,          \* what a list of the panel is about, or orders
    Servers,        \* the servers of the shop
    InboundIds      \* the inbounds of each: ids are only unique in a server

VARIABLES
    tour,           \* the sections and the activities of this sitting
    section,        \* the mounted section
    query,          \* the search box of the top bar
    authRequired,   \* the tab shows "Login required"
    session,        \* the server still honours the cookie of the tab
    visible,        \* the tab is not hidden
    opened,         \* how many reseller forms were opened (AdminForms)
    dialog,         \* the open FormModal, or None
    ui,             \* the state of the mounted section
    http,           \* the requests in flight
    db              \* what the server stores

tab == <<tour, section, query, authRequired, session, visible, opened>>
vars == <<tab, dialog, ui, http, db>>

SectionKeys == {"dashboard", "users", "discounts", "servers", "plans", "categories",
                "service-types", "resellers", "connection", "backup", "test-account",
                "custom"}
\* What else a sitting may do, so that no behaviour has to do everything.
Activities == {"expiry", "forms", "rows", "orders", "typing", "filters",
               "resets"}

ASSUME ShellAssumption ==
    /\ MaxHttp \in Nat \ {0} /\ LastPage \in Nat \ {0}
    /\ "" \in Queries /\ IsFiniteSet(Items)
    /\ Done \notin {Waiting, Failed, Unauthorized}
    /\ \A t \in Tours : t \subseteq SectionKeys \cup Activities

Slot == 1..MaxHttp
NoRequest == [op |-> "none"]   \* an unused slot of http
InFlight == {i \in Slot : http[i] # NoRequest}
Live(op) == {i \in InFlight : http[i].op = op /\ http[i].live}
HasRoom == InFlight # Slot
Request(op, at, arg) ==
    [op |-> op, at |-> at, arg |-> arg, ans |-> Waiting, live |-> TRUE]
Put(h, r) ==
    LET i == CHOOSE i \in Slot : h[i] = NoRequest /\ \A j \in 1..(i - 1) : h[j] # NoRequest
    IN  [h EXCEPT ![i] = r]
Remove(i) == [http EXCEPT ![i] = NoRequest]

-----------------------------------------------------------------------------
(* useApi.  Its path carries the page and the query for the users list;    *)
(* any other section has one path.                                         *)

Path(s, page, q) == IF s = "users" THEN <<s, page, q>> ELSE <<s>>
PageOf(u) == IF "page" \in DOMAIN u THEN u.page ELSE 1

\* As if the effect returned no clean-up.
LetLoadsRun(h) == h
\* The clean-up of the effect aborts the request and ignores its reply.
CancelLoads(h) ==
    [i \in Slot |-> IF h[i] # NoRequest /\ h[i].op = "load" THEN NoRequest ELSE h[i]]
\* The section of the texts has a load of its own, which nothing cancels and
\* which remembers the text selected when it began.
StartLoad(h, s, u, q) ==
    IF s = "custom" THEN Put(h, Request("texts", s, [key |-> u.selected, saves |-> FALSE]))
    ELSE Put(CancelLoads(h), Request("load", s, [path |-> Path(s, PageOf(u), q)]))
CanLoad(h, s) == \E i \in Slot : h[i] = NoRequest \/ (s # "custom" /\ CancelLoads(h)[i] = NoRequest)

\* The dashboard keeps what it shows while it loads again (backgroundRefresh);
\* the texts do once they are there.
StartLoading(u) ==
    IF section = "dashboard" THEN [u EXCEPT !.error = FALSE]
    ELSE IF section = "custom" /\ u.data # None THEN u
    ELSE [u EXCEPT !.loading = TRUE, !.error = FALSE]

\* A section renders its data, or a skeleton or the error instead of it.
Usable(s) ==
    /\ section = s /\ ~authRequired /\ ui.data # None
    /\ ~ui.loading /\ (s = "dashboard" \/ ~ui.error)

\* The section is gone: its reads are aborted, and the replies to what else
\* it sent find no state to set.
Unmount(h) ==
    [i \in Slot |->
       IF h[i] = NoRequest \/ h[i].op \in {"load", "poll"} THEN NoRequest
       ELSE [h[i] EXCEPT !.live = @ /\ h[i].at = "shell"]]

\* setReloadKey: the mounted section, if there is one, loads again.
Reload(h) ==
    IF authRequired THEN http' = h /\ UNCHANGED ui
    ELSE http' = StartLoad(h, section, ui, query) /\ ui' = StartLoading(ui)

\* setAuthRequired(true): the login notice replaces the whole panel.
RequireLogin(h) ==
    /\ authRequired' = TRUE
    /\ http' = Unmount(h)
    /\ ui' = [data |-> None, loading |-> FALSE, error |-> TRUE]
    /\ dialog' = None
    /\ UNCHANGED <<tour, section, query, session, visible, opened>>

\* A handler that looks for AUTH_REQUIRED asks for a login, the others only
\* show the message: the revenue reset, a server's removal, backup's test,
\* run and restore, and the test account's resets.
AsksForLogin(r) ==
    /\ r.op \notin {"revenue", "remove", "restore", "trialreset"}
    /\ r.op \in {"backup", "refetch"} => r.arg.what \notin {"test", "backup", "reset"}

-----------------------------------------------------------------------------
(* What every section has in common.  fresh is the initial state of the    *)
(* section that is mounted.                                                *)

Blank == [data |-> None, loading |-> TRUE, error |-> FALSE]

\* openSection by a link, or popstate by the browser's own buttons: only
\* these can leave a section while a dialog is open.
OpenSection(s, fresh) ==
    /\ s \in (tour \cap SectionKeys) \ {section} /\ ~authRequired /\ CanLoad(Unmount(http), s)
    /\ section' = s /\ ui' = fresh
    /\ http' = StartLoad(Unmount(http), s, fresh, query)
    /\ UNCHANGED <<tour, query, authRequired, session, visible, opened, dialog, db>>

Refresh ==
    /\ ~authRequired /\ dialog = None /\ section # "dashboard" /\ CanLoad(http, section)
    /\ Reload(http)
    /\ UNCHANGED <<tab, dialog, db>>

\* The notice links to the login page; logging in loads the panel anew.  What
\* the tab had sent carries the old cookie: the server refuses what it has
\* not served yet.
LoginAgain(fresh) ==
    /\ authRequired
    /\ authRequired' = FALSE /\ session' = TRUE /\ query' = "" /\ ui' = fresh
    /\ http' = StartLoad([i \in Slot |-> NoRequest], section, fresh, "")
    /\ UNCHANGED <<tour, section, visible, opened, dialog, db>>

\* The cookie times out, or the owner changes the web credentials elsewhere.
SessionEnds ==
    /\ "expiry" \in tour /\ session /\ session' = FALSE
    /\ UNCHANGED <<tour, section, query, authRequired, visible, opened, dialog, ui, http, db>>

\* The server refuses, or the request does not reach it.
Refuse(i) ==
    /\ http[i].ans = Waiting
    /\ \/ session /\ http' = [http EXCEPT ![i].ans = Failed]
       \/ ~session /\ http' = [http EXCEPT ![i].ans = Unauthorized]
    /\ UNCHANGED <<tab, dialog, ui, db>>

\* The server does what it is asked and stores newdb; its answer may be lost.
Serve(i, newdb, answer) ==
    /\ http[i].ans = Waiting /\ session
    /\ \/ db' = newdb /\ http' = [http EXCEPT ![i].ans = answer]
       \/ /\ db' = [newdb EXCEPT !.lost = @ \/ newdb.items # db.items]
          /\ http' = [http EXCEPT ![i].ans = Failed]
    /\ UNCHANGED <<tab, dialog, ui>>

\* fill(data) is the section's state after its effect on [data] has run.
LoadReply(i, fill) ==
    /\ i \in Live("load") /\ http[i].ans # Waiting
    /\ \/ /\ http[i].ans \notin {Failed, Unauthorized}
          /\ ui' = fill /\ http' = Remove(i) /\ UNCHANGED <<tab, dialog>>
       \/ /\ http[i].ans = Failed
          /\ ui' = [ui EXCEPT !.error = TRUE, !.loading = FALSE]
          /\ http' = Remove(i) /\ UNCHANGED <<tab, dialog>>
       \/ http[i].ans = Unauthorized /\ RequireLogin(Remove(i))
    /\ UNCHANGED db

\* A handler of a section that is no longer mounted can still ask for a login.
LateReply(i) ==
    /\ i \in InFlight /\ ~http[i].live /\ http[i].ans # Waiting
    /\ IF http[i].ans = Unauthorized /\ AsksForLogin(http[i]) /\ ~authRequired
         THEN RequireLogin(Remove(i))
         ELSE http' = Remove(i) /\ UNCHANGED <<tab, dialog, ui>>
    /\ UNCHANGED db

\* A reply that leads to the login notice, or that has nothing left to do.
AuthReply(i) ==
    /\ IF authRequired THEN http' = Remove(i) /\ UNCHANGED <<tab, dialog, ui>>
       ELSE RequireLogin(Remove(i))
    /\ UNCHANGED db

-----------------------------------------------------------------------------
(* The search box and the users list.                                      *)

\* The sections whose handlers, and not only their display, depend on it.
Searched == {"users", "categories", "plans"}

SetQuery(q) ==
    /\ section \in Searched \cap tour /\ ~authRequired /\ dialog = None /\ q # query
    /\ query' = q
    /\ IF section = "users"
         THEN /\ CanLoad(http, section)
              /\ http' = StartLoad(http, "users", [ui EXCEPT !.page = 1], q)
              /\ ui' = [StartLoading(ui) EXCEPT !.page = 1]
         ELSE UNCHANGED <<http, ui>>
    /\ UNCHANGED <<tour, section, authRequired, session, visible, opened, dialog, db>>

\* As if neither were disabled.
PagesFromUnchecked(page) == {page - 1, page + 1}
\* "Previous" and "Next", each disabled at its end.
PagesFrom(page) == (1..LastPage) \cap {page - 1, page + 1}

TurnPage(p) ==
    /\ Usable("users") /\ CanLoad(http, section)
    /\ p \in PagesFrom(ui.page)
    /\ http' = StartLoad(http, "users", [ui EXCEPT !.page = p], query)
    /\ ui' = [StartLoading(ui) EXCEPT !.page = p]
    /\ UNCHANGED <<tab, dialog, db>>

-----------------------------------------------------------------------------
(* The dashboard: its figures, their reset, and the SystemStatus card that *)
(* asks for the resources of the machine every five seconds.               *)

FreshDashboard ==
    [data |-> None, loading |-> TRUE, error |-> FALSE, polling |-> FALSE, pending |-> FALSE,
     stale |-> FALSE, resetting |-> FALSE]
\* SystemStatus is mounted with the first data; new resources clear [stale].
FilledDashboard(u, data) ==
    [u EXCEPT !.data = data, !.loading = FALSE, !.polling = TRUE, !.stale = FALSE]

\* The interval of 60 seconds.
RefreshCycle ==
    /\ section = "dashboard" /\ ~authRequired /\ CanLoad(http, section)
    /\ Reload(http)
    /\ UNCHANGED <<tab, dialog, db>>

CanPoll == section = "dashboard" /\ ~authRequired /\ ui.polling /\ ~ui.pending /\ HasRoom
Poll == /\ http' = Put(http, Request("poll", section, None))
        /\ ui' = [ui EXCEPT !.pending = TRUE]

PollTick == CanPoll /\ visible /\ Poll /\ UNCHANGED <<tab, dialog, db>>

\* Showing the tab again polls at once.
ToggleVisible ==
    /\ section = "dashboard" /\ visible' = ~visible
    /\ IF ~visible /\ CanPoll THEN Poll ELSE UNCHANGED <<http, ui>>
    /\ UNCHANGED <<tour, section, query, authRequired, session, opened, dialog, db>>

\* As if [pending] were only reset where the rows are set.
PendingAfterSuccessOnly(failed) == failed
\* What the finally block leaves of [pending].
PendingAfter(failed) == FALSE

PollReply(i) ==
    /\ i \in Live("poll") /\ http[i].ans # Waiting
    /\ IF http[i].ans = Unauthorized THEN RequireLogin(Remove(i))
       ELSE /\ ui' = [ui EXCEPT !.stale = http[i].ans = Failed,
                                !.pending = PendingAfter(http[i].ans = Failed)]
            /\ http' = Remove(i) /\ UNCHANGED <<tab, dialog>>
    /\ UNCHANGED db

ResetRevenue ==
    /\ Usable("dashboard") /\ ~ui.resetting /\ HasRoom
    /\ http' = Put(http, Request("revenue", section, None))
    /\ ui' = [ui EXCEPT !.resetting = TRUE]
    /\ UNCHANGED <<tab, dialog, db>>

ResetRevenueReply(i) ==
    /\ i \in Live("revenue") /\ http[i].ans # Waiting
    /\ ui' = [ui EXCEPT !.resetting = FALSE, !.error = @ /\ http[i].ans \in {Failed, Unauthorized}]
    /\ http' = IF http[i].ans \in {Failed, Unauthorized} THEN Remove(i)
               ELSE StartLoad(Remove(i), section, ui, query)
    /\ UNCHANGED <<tab, dialog, db>>

-----------------------------------------------------------------------------
(* runAction, the confirmed action of a card: "discounts" stands for the   *)
(* lists (payments, discounts, OpenVPN profiles) that have nothing else.   *)

RunAction(item) ==
    /\ Usable("discounts") /\ dialog = None /\ item \in ui.data /\ HasRoom
    /\ http' = Put(http, Request("action", "shell", [item |-> item]))
    /\ UNCHANGED <<tab, dialog, ui, db>>

ServeAction(i) ==
    /\ http[i].op = "action"
    /\ Serve(i, [db EXCEPT !.items = @ \ {http[i].arg.item}], Done)

\* As if a finished action did not load the list again.
AfterActionNothing(h) == http' = h /\ UNCHANGED ui
AfterAction(h) == Reload(h)

ActionReply(i) ==
    /\ i \in Live("action") /\ http[i].ans # Waiting
    /\ \/ http[i].ans = Done /\ AfterAction(Remove(i)) /\ UNCHANGED <<tab, dialog, db>>
       \/ http[i].ans = Failed /\ http' = Remove(i) /\ UNCHANGED <<tab, dialog, ui, db>>
       \/ http[i].ans = Unauthorized /\ AuthReply(i)

-----------------------------------------------------------------------------
(* Properties.                                                             *)

\* Users: the rows on screen are those of the page and the search that the
\* page shows, however often either changed while a list was on its way
\* (useApi's clean-up against a late reply, and the page reset by a search).
RowsMatchRequest == Usable("users") => ui.data = Path("users", ui.page, query)

\* A list without an order of its own shows what the server stores once
\* nothing is in flight: every action and every saved form loads it again, and
\* no older reply overwrites a newer one.  Only an answer lost on its way
\* back leaves the list behind.
ListShowsStore ==
    Usable("discounts") /\ InFlight = {} /\ ~db.lost => ui.data = db.items

\* SystemStatus keeps asking: whatever failed before, while the dashboard is
\* shown a poll is on its way again and again.
PollingResumes ==
    []<>(Live("poll") # {} \/ section # "dashboard" \/ authRequired \/ ~visible \/ ui.data = None)
=============================================================================
