----------------------------- MODULE AdminPanel -----------------------------
(***************************************************************************)
(* The web panel in one browser tab: the shell, its forms and its          *)
(* sections, and the server they talk to.                                  *)
(***************************************************************************)
EXTENDS AdminForms, AdminSettings, CustomTexts

\* The section SectionRenderer mounts, before its first data.
Fresh(s) ==
    CASE s = "dashboard"  -> FreshDashboard
      [] s = "users"      -> [data |-> None, loading |-> TRUE, error |-> FALSE, page |-> 1]
      [] s = "servers"    -> FreshServers
      [] s \in Ordered -> FreshOrder
      [] s = "connection" -> FreshConnection
      [] s = "backup"     -> FreshBackup
      [] s = "test-account" -> FreshTrial
      [] s = "custom"     -> FreshTexts
      [] OTHER            -> Blank

\* The section after its effects on new data.
Filled(u, data) ==
    CASE section = "dashboard"  -> FilledDashboard(u, data)
      [] section = "servers"    -> FilledServers(u, data)
      [] section \in Ordered -> FilledOrder(u, data)
      [] section = "connection" -> FilledConnection(u, data)
      [] section = "backup"     -> FilledBackup(u, data)
      [] section = "test-account" -> FilledTrial(u, data)
      [] OTHER                  -> [u EXCEPT !.data = data, !.loading = FALSE]

\* What the server answers to a read.
Stores(r) ==
    CASE r.at = "users"       -> r.arg.path
      [] r.at = "discounts"   -> db.items
      [] r.at = "servers"     -> db.servers
      [] r.at \in Ordered -> db.order
      [] r.at = "connection"  -> db.conn
      [] r.at = "test-account" -> db.targets
      [] OTHER                -> Done

Init ==
    /\ tour \in Tours /\ section \in tour \cap SectionKeys
    /\ query = "" /\ authRequired = FALSE /\ session = TRUE /\ visible = TRUE
    /\ opened = 0 /\ dialog = None
    /\ ui = Fresh(section)
    /\ http = StartLoad([i \in Slot |-> NoRequest], section, ui, "")
    /\ db = [items |-> Items, lost |-> FALSE, credits |-> {}, servers |-> Servers,
             order |-> CHOOSE f \in [1..Cardinality(Items) -> Items] : \A x \in Items : \E k \in DOMAIN f : f[k] = x,
             conn |-> [rev |-> 0, value |-> CHOOSE v \in Values : TRUE],
             targets |-> [x \in Servers |-> InboundsAt(x)], texts |-> DefaultTexts]

\* One answer of the server.
Answer(i) ==
    /\ i \in InFlight
    /\ \/ Refuse(i)
       \/ http[i].op \in {"load", "poll", "refetch"} /\ Serve(i, db, Stores(http[i]))
       \/ http[i].op = "revenue" /\ Serve(i, db, Done)
       \/ ServeAction(i) \/ ServeTest(i) \/ ServeSubmit(i)
       \/ ServeServer(i) \/ ServeOrder(i) \/ ServeConnection(i) \/ ServeBackup(i)
       \/ ServeTrial(i) \/ ServeTexts(i)

\* One handler resumes with its answer.
Reply(i) ==
    \/ LoadReply(i, Filled(ui, http[i].ans))
    \/ LateReply(i) \/ PollReply(i) \/ ResetRevenueReply(i) \/ ActionReply(i)
    \/ TestReply(i) \/ SubmitReply(i)
    \/ ServerReply(i) \/ OrderReply(i) \/ ConnectionReply(i) \/ BackupReply(i)
    \/ TrialReply(i) \/ RefetchReply(i)
    \/ TextReply(i) \/ TextsReply(i)

Browse ==
    \/ \E s \in tour : OpenSection(s, Fresh(s))
    \/ Refresh \/ LoginAgain(Fresh(section)) \/ SessionEnds
    \/ \E q \in Queries : SetQuery(q)
    \/ \E p \in 0..(LastPage + 1) : TurnPage(p)
    \/ RefreshCycle \/ PollTick \/ ToggleVisible \/ ResetRevenue
    \/ \E x \in Items : RunAction(x)

UseForm ==
    \/ \E s \in OpenForms \cap tour : \E v \in Defaults(s) : OpenForm(s, v)
    \/ CloseForm \/ TestServer \/ SubmitForm
    \/ \E t \in ServerTypes : ChangeType(t)
    \/ \E x \in Servers : ChangeServer(x) \/ ToggleServer(x)
    \/ \E m \in {"automatic", "manual"} : ChangeMode(m)
    \/ \E n \in InboundIds : ToggleInbound(n)
    \/ \E x \in Servers : \E b \in SUBSET InboundsOf(x) : SetResellerPolicy(x, b)

UseSection ==
    \/ \E x \in Servers : RefreshOne(x) \/ DeleteServer(x) \/ ChooseTarget(x)
    \/ \E s \in Ordered \cap tour : \E x, y \in Items : Drop(s, x, y)
    \/ \E v \in Values, t \in BOOLEAN : TypeConnection([value |-> v, secret |-> t])
    \/ \E k \in {"test", "save"} : SendConnection(k)
    \/ \E k \in BackupKinds : RunBackup(k)
    \/ \E f \in Files \cup {None} : ChooseFile(f)
    \/ \E k \in Secrets : TypeSecret(k)
    \/ RestoreBackup \/ SaveTrial \/ ResetTrial
    \/ \E x \in Servers : \E b \in InboundsAt(x) : ToggleTarget(x, b)
    \/ \E k \in Keys : SelectText(k) \/ ResetTexts({k})
    \/ \E f \in Filters : FilterTexts(f)
    \/ TypeText \/ SaveText \/ ResetTexts(Keys)

Next ==
    \/ \E i \in Slot : Answer(i) \/ Reply(i)
    \/ Browse \/ UseForm \/ UseSection

\* A request is answered or fails, its handler resumes, and the browser's
\* timer fires as long as it may poll.  Strong fairness for the timer: what
\* else the tab has in flight takes the slots of the model, not of a browser.
Fairness ==
    /\ \A i \in Slot : WF_vars(Answer(i)) /\ WF_vars(Reply(i))
    /\ SF_vars(PollTick)

Spec == Init /\ [][Next]_vars /\ Fairness

\* What the panel holds: a request belongs to the shell or to a section of the
\* tour, one load at most is on its way, and the users list shows a page it has.
TypeOK ==
    /\ tour \in Tours /\ section \in tour \cap SectionKeys /\ query \in Queries
    /\ {authRequired, session, visible} \subseteq BOOLEAN
    /\ opened \in 0..MaxOpened
    /\ dialog \in Dialogs \cup {None}
    /\ \A i \in InFlight : http[i].at \in tour \cup {"shell"} /\ http[i].live \in BOOLEAN
    /\ "page" \in DOMAIN ui => ui.page \in 1..LastPage
    /\ \A i, j \in Live("load") : i = j
    /\ db.conn.rev \in Nat
=============================================================================
