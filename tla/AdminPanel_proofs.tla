-------------------------- MODULE AdminPanel_proofs --------------------------
(***************************************************************************)
(* For every list, server and number of requests in flight: the modal      *)
(* forms of the web panel.  A request stands in one slot of http from the  *)
(* moment it is sent; the proofs follow the requests of the forms through  *)
(* everything else the panel does to the others.                           *)
(***************************************************************************)
EXTENDS AdminPanel, TLAPS

-----------------------------------------------------------------------------
(* The inductive invariant.                                                *)

FormOps == {"test", "submit"}

\* Every slot is free or holds a request.
Typed(h) ==
    /\ h = [i \in Slot |-> h[i]]
    /\ \A i \in Slot : h[i] # NoRequest =>
          h[i] = [op |-> h[i].op, at |-> h[i].at, arg |-> h[i].arg,
                  ans |-> h[i].ans, live |-> h[i].live]

PlanOK(v) ==
    /\ v.inbounds \subseteq (IF v.server = None THEN {} ELSE InboundsOf(v.server))
    /\ v.mode = "automatic" => v.inbounds = {}
ResellerOK(v) == DOMAIN v.policies \subseteq v.servers

\* The values of the open dialog.
ValuesOK(form, v) ==
    /\ form \in OpenForms /\ v \in FormValues(form)
    /\ form = "plans" => PlanOK(v)
    /\ form = "resellers" => ResellerOK(v)
DialogOK ==
    /\ opened \in 0..MaxOpened
    /\ dialog # None => dialog \in Dialogs /\ ValuesOK(dialog.form, dialog.v)

\* The values that were sent.
SentOK(arg) ==
    /\ arg.form = "servers" =>
          arg.v.names = {f.name : f \in {g \in FieldConfigs : arg.v.server_type \in g.types}}
    /\ arg.form = "plans" => PlanOK(arg.v)
    /\ arg.form = "resellers" => ResellerOK(arg.v) /\ arg.v.key = <<arg.v.form, 0>>
AllSentOK ==
    \A i \in Slot : http[i] # NoRequest /\ http[i].op = "submit" => SentOK(http[i].arg)

\* A form's credit is known by the key of the form.
CreditsOK(d) ==
    /\ "credits" \in DOMAIN d
    /\ \A c \in d.credits : c = [form |-> c.form, key |-> <<c.form, 0>>]

\* The dialog waits for the one request its buttons have sent.
LiveForms ==
    ~authRequired =>
      \A i \in Slot : http[i] # NoRequest /\ http[i].op \in FormOps /\ http[i].live =>
        /\ dialog # None
        /\ http[i].op = "submit" => dialog.form = http[i].arg.form /\ dialog.saving
        /\ http[i].op = "test" => dialog.testing
        /\ \A j \in Slot : http[j] # NoRequest /\ http[j].op \in FormOps /\ http[j].live => i = j

FormsInv ==
    Typed(http) /\ DialogOK /\ AllSentOK /\ CreditsOK(db) /\ LiveForms

-----------------------------------------------------------------------------
(* What is done to the requests.                                           *)

\* From h to g no request of a form appears, changes or comes back to life.
Keeps(h, g) ==
    /\ Typed(g)
    /\ \A i \in Slot : g[i] # NoRequest /\ g[i].op \in FormOps =>
          /\ h[i] # NoRequest /\ g[i].op = h[i].op /\ g[i].arg = h[i].arg
          /\ g[i].live => h[i].live

\* Doing nothing keeps the requests of the forms.
LEMMA KeepsItself == ASSUME NEW h, Typed(h) PROVE Keeps(h, h)
  BY DEF Keeps

\* Two steps that keep them do so together.
LEMMA KeepsOn ==
  ASSUME NEW f, NEW g, NEW h, Keeps(f, g), Keeps(g, h)
  PROVE  Keeps(f, h)
  BY DEF Keeps

\* A request takes one slot at most.
Taken(h) == CHOOSE i \in Slot : h[i] = NoRequest /\ \A j \in 1..(i - 1) : h[j] # NoRequest

\* Put fills the first free slot, and only that one.
LEMMA PutEffect ==
  ASSUME NEW h, Typed(h), NEW op, NEW at, NEW arg
  PROVE  /\ Typed(Put(h, Request(op, at, arg)))
         /\ \A i \in Slot : Put(h, Request(op, at, arg))[i] =
                               IF i = Taken(h) THEN Request(op, at, arg) ELSE h[i]
<1>1. Put(h, Request(op, at, arg)) = [h EXCEPT ![Taken(h)] = Request(op, at, arg)]
  BY DEF Put, Taken
<1> QED BY <1>1 DEF Typed, Request

\* A request of something else leaves the forms' requests as they are.
LEMMA PutKeeps ==
  ASSUME NEW h, Typed(h), NEW op, NEW at, NEW arg, op \notin FormOps
  PROVE  Keeps(h, Put(h, Request(op, at, arg)))
<1> DEFINE g == Put(h, Request(op, at, arg))
<1>1. Typed(g) /\ \A i \in Slot : g[i] = IF i = Taken(h) THEN Request(op, at, arg) ELSE h[i]
  BY PutEffect
<1> HIDE DEF g
<1>2. Keeps(h, g)
  BY <1>1 DEF Keeps, Request
<1> QED BY <1>2 DEF g

\* A slot that is freed takes at most one request away.
LEMMA RemoveKeeps ==
  ASSUME Typed(http), NEW i
  PROVE  Keeps(http, Remove(i))
  BY DEF Keeps, Typed, Remove

\* An answer changes neither what was sent nor who waits for it.
LEMMA AnswerKeeps ==
  ASSUME Typed(http), NEW i \in InFlight, NEW a
  PROVE  Keeps(http, [http EXCEPT ![i].ans = a])
  BY DEF Keeps, Typed, InFlight

\* A section that goes takes no request of a form with it.
LEMMA UnmountKeeps ==
  ASSUME NEW h, Typed(h)
  PROVE  Keeps(h, Unmount(h))
<1> DEFINE g == Unmount(h)
<1>1. g = [i \in Slot |-> g[i]]
  BY DEF Unmount
<1>2. ASSUME NEW i \in Slot, g[i] # NoRequest
      PROVE  /\ h[i] # NoRequest
             /\ g[i] = [op |-> g[i].op, at |-> g[i].at, arg |-> g[i].arg, ans |-> g[i].ans,
                        live |-> g[i].live]
             /\ g[i].op = h[i].op /\ g[i].arg = h[i].arg /\ (g[i].live => h[i].live)
  <2>1. h[i] # NoRequest /\ g[i] = [h[i] EXCEPT !.live = @ /\ h[i].at = "shell"]
    BY <1>2 DEF Unmount
  <2>2. h[i] = [op |-> h[i].op, at |-> h[i].at, arg |-> h[i].arg, ans |-> h[i].ans,
                live |-> h[i].live]
    BY <2>1 DEF Typed
  <2>3. g[i] = [op |-> h[i].op, at |-> h[i].at, arg |-> h[i].arg, ans |-> h[i].ans,
                live |-> h[i].live /\ h[i].at = "shell"]
    BY <2>1, <2>2
  <2> HIDE DEF g
  <2>4. g[i].live = (h[i].live /\ h[i].at = "shell")
    BY <2>3
  <2> QED BY <2>1, <2>3, <2>4
<1> HIDE DEF g
<1>3. Keeps(h, g)
  BY <1>1, <1>2 DEF Keeps, Typed
<1> QED BY <1>3 DEF g

\* Loading a section cancels loads only.
LEMMA StartLoadKeeps ==
  ASSUME NEW h, Typed(h), NEW s, NEW u, NEW q
  PROVE  Keeps(h, StartLoad(h, s, u, q))
<1>1. Keeps(h, CancelLoads(h))
  BY DEF Keeps, Typed, CancelLoads
<1>2. CASE s = "custom"
  BY <1>2, PutKeeps DEF StartLoad, FormOps
<1>3. CASE s # "custom"
  <2>1. Keeps(CancelLoads(h), StartLoad(h, s, u, q))
    BY <1>1, <1>3, PutKeeps DEF StartLoad, FormOps, Keeps
  <2> QED BY <1>1, <2>1, KeepsOn
<1> QED BY <1>2, <1>3

\* Without a free slot nothing is lost either.
LEMMA ReloadKeeps ==
  ASSUME NEW h, Keeps(http, h), Reload(h)
  PROVE  Keeps(http, http')
<1>1. CASE authRequired
  BY <1>1 DEF Reload
<1>2. CASE ~authRequired
  <2>1. Keeps(h, http')
    BY <1>2, StartLoadKeeps DEF Reload, Keeps
  <2> QED BY <2>1, KeepsOn
<1> QED BY <1>1, <1>2

-----------------------------------------------------------------------------
(* Steps that leave the dialog alone, and the login notice.                *)

Frame == /\ Keeps(http, http') /\ CreditsOK(db')
         /\ UNCHANGED <<dialog, authRequired, opened>>
Notice == /\ Keeps(http, http') /\ CreditsOK(db')
          /\ dialog' = None /\ authRequired' = TRUE /\ UNCHANGED opened

\* A step that keeps the requests and the dialog keeps the invariant.
LEMMA FrameInv == FormsInv /\ Frame => FormsInv'
  BY DEF FormsInv, Frame, Keeps, DialogOK, AllSentOK, LiveForms, FormOps

\* The login notice closes the dialog, and nobody waits behind it.
LEMMA NoticeInv == FormsInv /\ Notice => FormsInv'
  BY DEF FormsInv, Notice, Keeps, DialogOK, AllSentOK, LiveForms, FormOps

-----------------------------------------------------------------------------
(* The server.                                                             *)

\* A served request changes the store and its own answer.
LEMMA ServeFrame ==
  ASSUME FormsInv, NEW i \in InFlight, NEW newdb, NEW a, Serve(i, newdb, a), CreditsOK(newdb)
  PROVE  Frame
<1>1. CreditsOK(db')
  BY DEF Serve, CreditsOK
<1>2. Keeps(http, http')
  BY AnswerKeeps DEF Serve, FormsInv
<1> QED BY <1>1, <1>2 DEF Serve, Frame, tab

\* A reseller's credit is added once, under the key of its form.
LEMMA StoredCredits ==
  ASSUME FormsInv, NEW i \in InFlight, http[i].op = "submit"
  PROVE  CreditsOK(Stored(http[i].arg))
<1> DEFINE arg == http[i].arg
<1>1. SentOK(arg)
  BY DEF FormsInv, AllSentOK, InFlight
<1>2. CASE arg.form = "resellers" /\ ~\E c \in db.credits : c.key = arg.v.key
  BY <1>1, <1>2 DEF FormsInv, CreditsOK, SentOK, Stored
<1>3. CASE ~(arg.form = "resellers" /\ ~\E c \in db.credits : c.key = arg.v.key)
  BY <1>3 DEF FormsInv, CreditsOK, Stored
<1> QED BY <1>2, <1>3

\* Whatever the server answers, the forms' requests stay what they are.
LEMMA AnswerFrame ==
  ASSUME FormsInv, NEW i \in Slot, Answer(i)
  PROVE  Frame
<1> USE DEF FormsInv
<1>0. i \in InFlight
  BY DEF Answer
<1>1. ASSUME NEW newdb, NEW a, Serve(i, newdb, a), CreditsOK(newdb) PROVE Frame
  BY <1>0, <1>1, ServeFrame
<1>2. CASE Refuse(i)
  BY <1>0, <1>2, AnswerKeeps DEF Refuse, Frame, tab
<1>3. ASSUME NEW a, Serve(i, db, a) PROVE Frame
  BY <1>1, <1>3
<1>4. CASE ServeAction(i)
  <2>1. CreditsOK([db EXCEPT !.items = @ \ {http[i].arg.item}])
    BY DEF CreditsOK
  <2> QED BY <1>1, <1>4, <2>1 DEF ServeAction
<1>5. CASE ServeSubmit(i)
  BY <1>0, <1>1, <1>5, StoredCredits DEF ServeSubmit
<1>6. CASE ServeServer(i)
  <2>1. CreditsOK([db EXCEPT !.servers = @ \ {http[i].arg.server}])
    BY DEF CreditsOK
  <2> QED BY <1>1, <1>3, <1>6, <2>1 DEF ServeServer
<1>7. CASE ServeOrder(i)
  <2>1. CreditsOK([db EXCEPT !.order = http[i].arg.list])
    BY DEF CreditsOK
  <2> QED BY <1>1, <1>7, <2>1 DEF ServeOrder
<1>8. CASE ServeConnection(i)
  <2>1. \A c : CreditsOK([db EXCEPT !.conn = c])
    BY DEF CreditsOK
  <2> QED BY <1>1, <1>3, <1>8, <2>1 DEF ServeConnection
<1>9. CASE ServeTrial(i)
  <2>1. CreditsOK([db EXCEPT !.targets = http[i].arg.targets])
    BY DEF CreditsOK
  <2> QED BY <1>1, <1>3, <1>9, <2>1 DEF ServeTrial
<1>10. CASE ServeTexts(i)
  <2>1. \A t : CreditsOK([db EXCEPT !.texts = t])
    BY DEF CreditsOK
  <2> QED BY <1>1, <1>3, <1>10, <2>1 DEF ServeTexts
<1> QED
  BY <1>2, <1>3, <1>4, <1>5, <1>6, <1>7, <1>8, <1>9, <1>10
     DEF Answer, ServeTest, ServeBackup

-----------------------------------------------------------------------------
(* The replies to other requests than a form's.                            *)

\* What finishes the handler of request i, or loses its reply.
LEMMA AuthOutcome ==
  ASSUME FormsInv, NEW i, AuthReply(i)
  PROVE  Frame \/ Notice
<1>1. Keeps(http, Remove(i))
  BY RemoveKeeps DEF FormsInv
<1>2. CreditsOK(db')
  BY DEF AuthReply, FormsInv
<1>3. CASE authRequired
  BY <1>1, <1>2, <1>3 DEF AuthReply, Frame, tab
<1>4. CASE ~authRequired
  <2>1. Keeps(http, Unmount(Remove(i)))
    BY <1>1, UnmountKeeps, KeepsOn DEF Keeps
  <2> QED BY <1>2, <1>4, <2>1 DEF AuthReply, RequireLogin, Notice
<1> QED BY <1>3, <1>4

\* A reply that asks for a login leads to the notice.
LEMMA LoginOutcome ==
  ASSUME FormsInv, NEW i, RequireLogin(Remove(i)), UNCHANGED db
  PROVE  Notice
<1>1. Keeps(http, Remove(i)) /\ CreditsOK(db')
  BY RemoveKeeps DEF FormsInv
<1>2. Keeps(http, Unmount(Remove(i)))
  BY <1>1, UnmountKeeps, KeepsOn DEF Keeps
<1> QED BY <1>1, <1>2 DEF RequireLogin, Notice

\* A handler that reads or writes once more, or starts a load.
LEMMA GoesOnOutcome ==
  ASSUME FormsInv, NEW i, UNCHANGED <<dialog, authRequired, opened, db>>,
         \/ http' = Remove(i)
         \/ \E op, at, arg : op \notin FormOps /\ http' = Put(Remove(i), Request(op, at, arg))
         \/ \E s, u, q : http' = StartLoad(Remove(i), s, u, q)
         \/ Reload(Remove(i))
  PROVE  Frame
<1>1. Keeps(http, Remove(i)) /\ Typed(Remove(i)) /\ CreditsOK(db')
  BY RemoveKeeps DEF FormsInv, Keeps
<1>2. Keeps(http, http')
  BY <1>1, PutKeeps, StartLoadKeeps, ReloadKeeps, KeepsOn
<1> QED BY <1>1, <1>2 DEF Frame

\* Every reply but a form's.
LEMMA ReplyOutcome ==
  ASSUME FormsInv, NEW i \in Slot, Reply(i), ~TestReply(i), ~SubmitReply(i)
  PROVE  Frame \/ Notice
<1> USE AuthOutcome, LoginOutcome, GoesOnOutcome DEF tab
<1>1. ASSUME NEW f, LoadReply(i, f) PROVE Frame \/ Notice
  BY <1>1 DEF LoadReply
<1>2. CASE LateReply(i)
  BY <1>2 DEF LateReply
<1>3. CASE PollReply(i)
  BY <1>3 DEF PollReply
<1>4. CASE ResetRevenueReply(i)
  BY <1>4 DEF ResetRevenueReply
<1>5. CASE ActionReply(i)
  BY <1>5 DEF ActionReply, AfterAction
<1>6. ASSUME NEW u, Finish(i, u) PROVE Frame
  BY <1>6 DEF Finish
<1>7. ASSUME NEW u, NEW what, Refetch(i, u, what) PROVE Frame
  <2>1. "refetch" \notin FormOps
    BY DEF FormOps
  <2> QED BY <1>7, <2>1 DEF Refetch
<1>8. CASE ServerReply(i)
  BY <1>6, <1>7, <1>8 DEF ServerReply
<1>9. CASE OrderReply(i)
  BY <1>6, <1>9 DEF OrderReply
<1>10. CASE ConnectionReply(i)
  BY <1>6, <1>7, <1>10 DEF ConnectionReply
<1>11. CASE BackupReply(i)
  BY <1>6, <1>7, <1>11 DEF BackupReply
<1>12. CASE TrialReply(i)
  BY <1>6, <1>7, <1>12 DEF TrialReply
<1>13. CASE RefetchReply(i)
  BY <1>6, <1>13 DEF RefetchReply
<1>14. CASE TextReply(i)
  <2>1. "texts" \notin FormOps
    BY DEF FormOps
  <2> QED BY <1>14, <2>1 DEF TextReply
<1>15. CASE TextsReply(i)
  BY <1>15 DEF TextsReply
<1> QED
  BY <1>1, <1>2, <1>3, <1>4, <1>5, <1>8, <1>9, <1>10, <1>11, <1>12, <1>13, <1>14, <1>15
     DEF Reply

-----------------------------------------------------------------------------
(* What the owner does outside a form.                                     *)

\* A handler starts one request at most.
LEMMA StartsOutcome ==
  ASSUME FormsInv, UNCHANGED <<dialog, authRequired, opened, db>>,
         \/ UNCHANGED http
         \/ \E op, at, arg : op \notin FormOps /\ http' = Put(http, Request(op, at, arg))
         \/ \E s, u, q : http' = StartLoad(http, s, u, q)
         \/ \E s, u, q : http' = StartLoad(Unmount(http), s, u, q)
         \/ Reload(http)
  PROVE  Frame
<1>1. Keeps(http, http) /\ Keeps(http, Unmount(http)) /\ Typed(Unmount(http)) /\ CreditsOK(db')
  BY KeepsItself, UnmountKeeps DEF FormsInv, Keeps
<1>2. Keeps(http, http')
  BY <1>1, PutKeeps, StartLoadKeeps, ReloadKeeps, KeepsOn DEF FormsInv
<1> QED BY <1>1, <1>2 DEF Frame

\* The panel is loaded anew: nothing the tab had asked for is in flight.
LEMMA LoginInv ==
  ASSUME FormsInv, NEW fresh, LoginAgain(fresh)
  PROVE  FormsInv'
<1> DEFINE none == [i \in Slot |-> NoRequest]
<1>1. Typed(none)
  BY DEF Typed
<1>2. Keeps(none, http')
  BY <1>1, StartLoadKeeps DEF LoginAgain
<1>3. \A i \in Slot : http'[i] # NoRequest => http'[i].op \notin FormOps
  BY <1>2 DEF Keeps
<1> QED
  BY <1>2, <1>3 DEF LoginAgain, FormsInv, Keeps, DialogOK, AllSentOK, LiveForms, FormOps

\* Links, the search, the timers and the cards keep the invariant.
LEMMA BrowseInv == FormsInv /\ Browse => FormsInv'
<1> SUFFICES ASSUME FormsInv, Browse PROVE FormsInv'
  OBVIOUS
<1>0. \A op \in {"poll", "revenue", "action"} : op \notin FormOps
  BY DEF FormOps
<1> USE StartsOutcome DEF tab
<1>1. ASSUME NEW s, OpenSection(s, Fresh(s)) PROVE Frame
  BY <1>1 DEF OpenSection
<1>2. ASSUME Refresh \/ RefreshCycle PROVE Frame
  BY <1>2 DEF Refresh, RefreshCycle
<1>3. ASSUME SessionEnds PROVE Frame
  BY <1>3 DEF SessionEnds
<1>4. ASSUME NEW q, SetQuery(q) PROVE Frame
  BY <1>4 DEF SetQuery
<1>5. ASSUME NEW n, TurnPage(n) PROVE Frame
  BY <1>5 DEF TurnPage
<1>6. ASSUME PollTick PROVE Frame
  BY <1>0, <1>6 DEF PollTick, Poll
<1>7. ASSUME ToggleVisible PROVE Frame
  BY <1>0, <1>7 DEF ToggleVisible, Poll
<1>8. ASSUME ResetRevenue PROVE Frame
  BY <1>0, <1>8 DEF ResetRevenue
<1>9. ASSUME NEW x, RunAction(x) PROVE Frame
  BY <1>0, <1>9 DEF RunAction
<1> QED
  BY <1>1, <1>2, <1>3, <1>4, <1>5, <1>6, <1>7, <1>8, <1>9, FrameInv, LoginInv DEF Browse

\* So do the handlers of the sections, which send requests of their own.
LEMMA SectionFrame == FormsInv /\ UseSection => Frame
<1> SUFFICES ASSUME FormsInv, UseSection PROVE Frame
  OBVIOUS
<1>0. \A op \in {"sync", "remove", "order", "connect", "backup", "restore", "trial",
                 "trialreset", "text", "resettext"} : op \notin FormOps
  BY DEF FormOps
<1> USE StartsOutcome DEF tab
<1>1. ASSUME NEW u, NEW op, NEW arg, op \notin FormOps, Send(u, op, arg) PROVE Frame
  BY <1>1 DEF Send
<1>2. ASSUME NEW u, Edit(u) PROVE Frame
  BY <1>2 DEF Edit
<1>3. ASSUME NEW x, RefreshOne(x) \/ DeleteServer(x) PROVE Frame
  BY <1>0, <1>1, <1>3 DEF RefreshOne, DeleteServer
<1>4. ASSUME NEW s, NEW x, NEW y, Drop(s, x, y) PROVE Frame
  BY <1>0, <1>1, <1>4 DEF Drop
<1>5. ASSUME NEW f, TypeConnection(f) PROVE Frame
  BY <1>2, <1>5 DEF TypeConnection
<1>6. ASSUME NEW n, SendConnection(n) PROVE Frame
  BY <1>0, <1>1, <1>6 DEF SendConnection
<1>7. ASSUME NEW n, RunBackup(n) PROVE Frame
  BY <1>0, <1>1, <1>7 DEF RunBackup
<1>8. ASSUME NEW f, ChooseFile(f) \/ TypeSecret(f) \/ ChooseTarget(f) PROVE Frame
  BY <1>2, <1>8 DEF ChooseFile, TypeSecret, ChooseTarget
<1>9. CASE RestoreBackup \/ SaveTrial \/ ResetTrial
  BY <1>0, <1>1, <1>9 DEF RestoreBackup, SaveTrial, ResetTrial
<1>10. ASSUME NEW x, NEW b, ToggleTarget(x, b) PROVE Frame
  BY <1>2, <1>10 DEF ToggleTarget
<1>11. ASSUME NEW x, SelectText(x) \/ FilterTexts(x) PROVE Frame
  BY <1>11 DEF SelectText, FilterTexts
<1>12. CASE TypeText
  BY <1>12 DEF TypeText
<1>13. CASE SaveText
  BY <1>0, <1>13 DEF SaveText
<1>14. ASSUME NEW x, ResetTexts(x) PROVE Frame
  BY <1>0, <1>14 DEF ResetTexts
<1> QED
  BY <1>3, <1>4, <1>5, <1>6, <1>7, <1>8, <1>9, <1>10, <1>11, <1>12, <1>13, <1>14 DEF UseSection


-----------------------------------------------------------------------------
(* The forms.                                                              *)

\* While no button waits, none of the form's requests has its handler.
LEMMA NobodyWaits ==
  ASSUME FormsInv, ~authRequired, dialog = None \/ (~dialog.saving /\ ~dialog.testing)
  PROVE  \A i \in Slot : ~(http[i] # NoRequest /\ http[i].op \in FormOps /\ http[i].live)
  BY DEF FormsInv, LiveForms, FormOps

\* A dialog that is opened, or whose values change, waits as it did.
LEMMA EditsInv ==
  ASSUME FormsInv, UNCHANGED <<http, authRequired, db>>, DialogOK',
         \/ dialog = None
         \/ /\ dialog' # None /\ dialog'.form = dialog.form
            /\ dialog'.saving = dialog.saving /\ dialog'.testing = dialog.testing
  PROVE  FormsInv'
<1>1. LiveForms'
  BY DEF FormsInv, LiveForms, FormOps
<1> QED BY <1>1 DEF FormsInv, Typed, AllSentOK, CreditsOK

\* A dialog opens with values in order, and waits for nothing.
LEMMA OpenInv ==
  ASSUME FormsInv, NEW s, NEW v \in Defaults(s), OpenForm(s, v)
  PROVE  FormsInv'
<1>1. dialog = None /\ UNCHANGED <<http, authRequired, db>> /\ s \in OpenForms
      /\ opened' \in 0..MaxOpened
  BY FormsAssumption DEF OpenForm, FormsInv, DialogOK
<1>2. dialog' = [form |-> s, v |-> v, testing |-> FALSE, saving |-> FALSE, op |-> opened']
  BY DEF OpenForm
<1>3. ValuesOK(s, v)
  <2>1. CASE s = "discounts" \/ s = "servers"
    BY <1>1, <2>1 DEF Defaults, ValuesOK, FormValues
  <2>2. CASE s = "plans"
    BY <1>1, <2>2, FormsAssumption DEF Defaults, ValuesOK, FormValues, PlanOK, PlanValues, InboundsOf
  <2>3. CASE s = "resellers"
    <3>1. v \in {[servers |-> {}, policies |-> <<>>],
                 [servers |-> Servers, policies |-> [x \in Servers |-> InboundsOf(x)]]}
      BY <2>3 DEF Defaults
    <3>2. DOMAIN << >> = {} /\ << >> \in [{} -> SUBSET (Servers \X InboundIds)]
      OBVIOUS
    <3>3. [x \in Servers |-> InboundsOf(x)] \in [Servers -> SUBSET (Servers \X InboundIds)]
      BY DEF InboundsOf
    <3>4. \A S \in SUBSET Servers : \A f \in [S -> SUBSET (Servers \X InboundIds)] :
             [servers |-> S, policies |-> f] \in ResellerValues
      BY DEF ResellerValues
    <3>5. CASE v = [servers |-> {}, policies |-> <<>>]
      <4>1. v \in ResellerValues /\ ResellerOK(v)
        BY <3>2, <3>4, <3>5 DEF ResellerOK
      <4> QED BY <1>1, <2>3, <4>1 DEF ValuesOK, FormValues
    <3>6. CASE v = [servers |-> Servers, policies |-> [x \in Servers |-> InboundsOf(x)]]
      <4>1. v \in ResellerValues /\ ResellerOK(v)
        BY <3>3, <3>4, <3>6 DEF ResellerOK
      <4> QED BY <1>1, <2>3, <4>1 DEF ValuesOK, FormValues
    <3> QED BY <3>1, <3>5, <3>6
  <2> QED BY <1>1, <2>1, <2>2, <2>3 DEF OpenForms
<1>4. dialog' \in Dialogs
  BY <1>1, <1>2, <1>3 DEF Dialogs, ValuesOK
<1>5. DialogOK'
  BY <1>1, <1>2, <1>3, <1>4 DEF DialogOK
<1> QED BY <1>1, <1>5, EditsInv

\* A dialog is made of a form, its values, what waits and an operation.
LEMMA DialogMade ==
  ASSUME NEW s \in OpenForms, NEW v \in FormValues(s), NEW t \in BOOLEAN, NEW w \in BOOLEAN,
         NEW n \in 0..MaxOpened
  PROVE  [form |-> s, v |-> v, testing |-> t, saving |-> w, op |-> n] \in Dialogs
  BY DEF Dialogs

\* The parts of a dialog.
LEMMA DialogParts ==
  ASSUME FormsInv, dialog # None
  PROVE  /\ dialog = [form |-> dialog.form, v |-> dialog.v, testing |-> dialog.testing,
                      saving |-> dialog.saving, op |-> dialog.op]
         /\ dialog.form \in OpenForms /\ dialog.v \in FormValues(dialog.form)
         /\ dialog.testing \in BOOLEAN /\ dialog.saving \in BOOLEAN /\ dialog.op \in 0..MaxOpened
  BY DEF FormsInv, DialogOK, Dialogs, ValuesOK

\* A dialog whose button waits is one still.
LEMMA WaitingDialogs ==
  ASSUME FormsInv, dialog # None
  PROVE  /\ [form |-> dialog.form, v |-> dialog.v, testing |-> TRUE,
             saving |-> dialog.saving, op |-> dialog.op] \in Dialogs
         /\ [form |-> dialog.form, v |-> dialog.v, testing |-> dialog.testing,
             saving |-> TRUE, op |-> dialog.op] \in Dialogs
<1>1. /\ dialog.form \in OpenForms /\ dialog.v \in FormValues(dialog.form)
      /\ dialog.testing \in BOOLEAN /\ dialog.saving \in BOOLEAN /\ dialog.op \in 0..MaxOpened
  BY DialogParts
<1>2. TRUE \in BOOLEAN
  OBVIOUS
<1> QED BY <1>1, <1>2, DialogMade

\* A change of the values that keeps them in order.
LEMMA ValuesInv ==
  ASSUME FormsInv, NEW form, Editing(form), NEW v, Put1(v), ValuesOK(form, v)
  PROVE  FormsInv'
<1>1. /\ dialog # None /\ dialog.form = form /\ dialog' = [dialog EXCEPT !.v = v]
      /\ UNCHANGED <<http, authRequired, opened, db>>
  BY DEF Editing, Put1, tab
<1>2. dialog' = [form |-> form, v |-> v, testing |-> dialog.testing, saving |-> dialog.saving,
                 op |-> dialog.op]
  BY <1>1, DialogParts
<1>3. dialog' \in Dialogs /\ dialog' # None
  BY <1>1, <1>2, DialogParts, FormsAssumption DEF Dialogs, ValuesOK
<1>4. DialogOK'
  BY <1>1, <1>2, <1>3 DEF FormsInv, DialogOK
<1>5. /\ dialog'.form = dialog.form
      /\ dialog'.saving = dialog.saving /\ dialog'.testing = dialog.testing
  BY <1>1, <1>2
<1> QED BY <1>1, <1>3, <1>4, <1>5, EditsInv

\* The type of a server is any of the three.
LEMMA ChangeTypeInv ==
  ASSUME FormsInv, NEW t \in ServerTypes, ChangeType(t)
  PROVE  FormsInv'
<1>1. ValuesOK("servers", [server_type |-> t])
  BY DEF ValuesOK, FormValues, OpenForms
<1> QED BY <1>1, ValuesInv DEF ChangeType

\* A plan's inbounds are emptied with its server, emptied again by the
\* automatic mode, and otherwise toggled among the inbounds of the server.
LEMMA PlanInv ==
  ASSUME FormsInv, NEW x, NEW m, NEW n,
         \/ x \in Servers /\ ChangeServer(x)
         \/ m \in {"automatic", "manual"} /\ ChangeMode(m)
         \/ n \in InboundIds /\ ToggleInbound(n)
  PROVE  FormsInv'
<1> DEFINE v == dialog.v
<1>1. Editing("plans") /\ dialog # None /\ dialog.form = "plans"
  BY DEF ChangeServer, ChangeMode, ToggleInbound, Editing
<1>2. v \in PlanValues /\ PlanOK(v)
  BY <1>1 DEF FormsInv, DialogOK, ValuesOK, FormValues
<1> HIDE DEF v
<1>7. v = [server |-> v.server, mode |-> v.mode, inbounds |-> v.inbounds]
  BY <1>2 DEF PlanValues
<1>3. ASSUME NEW w, w \in PlanValues, PlanOK(w), Put1(w) PROVE FormsInv'
  <2>1. ValuesOK("plans", w)
    BY <1>3 DEF ValuesOK, FormValues, OpenForms
  <2> QED BY <1>1, <1>3, <2>1, ValuesInv
<1>4. CASE x \in Servers /\ ChangeServer(x)
  <2> DEFINE w == ServerChanged(v, x)
  <2>2. w \in PlanValues /\ PlanOK(w)
    BY <1>2, <1>4 DEF PlanValues, PlanOK, ServerChanged
  <2>3. Put1(w)
    BY <1>4 DEF ChangeServer, v
  <2> QED BY <1>3, <2>2, <2>3
<1>5. CASE m \in {"automatic", "manual"} /\ ChangeMode(m)
  <2> DEFINE w == [server |-> v.server, mode |-> m,
                   inbounds |-> IF m = "automatic" THEN {} ELSE v.inbounds]
  <2>2. w \in PlanValues /\ PlanOK(w)
    BY <1>2, <1>5 DEF PlanValues, PlanOK
  <2>3. Put1(w)
    BY <1>5 DEF ChangeMode, v
  <2> QED BY <1>3, <2>2, <2>3
<1>6. CASE n \in InboundIds /\ ToggleInbound(n)
  <2> DEFINE b == <<v.server, n>>
             w == [v EXCEPT !.inbounds = IF b \in @ THEN @ \ {b} ELSE @ \cup {b}]
  <2>1. w = [server |-> v.server, mode |-> v.mode,
             inbounds |-> IF b \in v.inbounds THEN v.inbounds \ {b} ELSE v.inbounds \cup {b}]
    BY <1>7
  <2>2. v.server # None /\ v.mode = "manual"
    BY <1>6 DEF ToggleInbound, v
  <2>3. v.server \in Servers /\ b \in InboundsOf(v.server) /\ b \in Servers \X InboundIds
    BY <1>2, <1>6, <2>2 DEF PlanValues, InboundsOf
  <2>4. w \in PlanValues /\ PlanOK(w)
    BY <1>2, <2>1, <2>2, <2>3 DEF PlanValues, PlanOK
  <2>5. Put1(w)
    BY <1>6 DEF ToggleInbound, v
  <2> QED BY <1>3, <2>4, <2>5
<1> QED BY <1>4, <1>5, <1>6

\* A server that is no longer allowed takes its policy with it.
LEMMA ResellerInv ==
  ASSUME FormsInv, NEW x \in Servers, NEW b,
         ToggleServer(x) \/ (b \in SUBSET InboundsOf(x) /\ SetResellerPolicy(x, b))
  PROVE  FormsInv'
<1> DEFINE v == dialog.v
<1>1. Editing("resellers") /\ dialog # None /\ dialog.form = "resellers"
  BY DEF ToggleServer, SetResellerPolicy, Editing
<1>2. v \in ResellerValues /\ ResellerOK(v)
  BY <1>1 DEF FormsInv, DialogOK, ValuesOK, FormValues
<1>3. /\ v = [servers |-> v.servers, policies |-> v.policies] /\ v.servers \in SUBSET Servers
      /\ v.policies \in [DOMAIN v.policies -> SUBSET (Servers \X InboundIds)]
      /\ DOMAIN v.policies \in SUBSET Servers /\ DOMAIN v.policies \subseteq v.servers
  <2>1. PICK S \in SUBSET Servers : v.policies \in [S -> SUBSET (Servers \X InboundIds)]
    BY <1>2 DEF ResellerValues
  <2> QED BY <1>2, <2>1 DEF ResellerValues, ResellerOK
<1>4. ASSUME NEW w, NEW S \in SUBSET Servers, NEW P \in SUBSET S,
             NEW f \in [P -> SUBSET (Servers \X InboundIds)],
             w = [servers |-> S, policies |-> f], Put1(w)
      PROVE  FormsInv'
  <2>1. w \in ResellerValues
    <3>1. P \in SUBSET Servers
      OBVIOUS
    <3> QED BY <1>4, <3>1 DEF ResellerValues
  <2>2. ValuesOK("resellers", w)
    BY <1>4, <2>1 DEF ValuesOK, FormValues, OpenForms, ResellerOK
  <2> QED BY <1>1, <1>4, <2>2, ValuesInv
<1>5. CASE ToggleServer(x)
  <2> DEFINE S == IF x \in v.servers THEN v.servers \ {x} ELSE v.servers \cup {x}
             P == DOMAIN v.policies \cap S
             f == [y \in P |-> v.policies[y]]
  <2>1. S \in SUBSET Servers /\ P \in SUBSET S
    BY <1>3
  <2>2. f \in [P -> SUBSET (Servers \X InboundIds)]
    BY <1>3
  <2>3. Put1([servers |-> S, policies |-> f])
    BY <1>5 DEF ToggleServer, Allowed
  <2> HIDE DEF S, P, f
  <2> QED BY <1>4, <2>1, <2>2, <2>3
<1>6. CASE b \in SUBSET InboundsOf(x) /\ SetResellerPolicy(x, b)
  <2> DEFINE P == DOMAIN v.policies \cup {x}
             f == [y \in P |-> IF y = x THEN b ELSE v.policies[y]]
  <2>1. x \in v.servers /\ Put1([v EXCEPT !.policies = f])
    BY <1>6 DEF SetResellerPolicy
  <2>2. v.servers \in SUBSET Servers /\ P \in SUBSET v.servers
    BY <1>3, <2>1
  <2>3. b \in SUBSET (Servers \X InboundIds)
    BY <1>6 DEF InboundsOf
  <2>4. f \in [P -> SUBSET (Servers \X InboundIds)]
    BY <1>3, <2>3
  <2> HIDE DEF P, f
  <2>5. [v EXCEPT !.policies = f] = [servers |-> v.servers, policies |-> f]
    BY <1>3
  <2> QED BY <1>4, <2>1, <2>2, <2>4, <2>5
<1> QED BY <1>5, <1>6

-----------------------------------------------------------------------------
(* The requests of a form.                                                 *)

\* Closing the dialog gives up its test; a save would have kept it open.
LEMMA CloseInv ==
  ASSUME FormsInv, CloseForm
  PROVE  FormsInv'
<1>1. /\ dialog' = None /\ UNCHANGED <<authRequired, opened, db>>
      /\ dialog # None /\ ~dialog.saving
  BY DEF CloseForm, MayClose, tab
<1>2. http' = [i \in Slot |-> IF i \in Live("test") THEN [http[i] EXCEPT !.live = FALSE]
                              ELSE http[i]]
  BY DEF CloseForm
<1>3. ASSUME NEW i \in Slot, i \in Live("test")
      PROVE  /\ http[i] # NoRequest /\ http[i].live
             /\ http'[i] = [op |-> http[i].op, at |-> http[i].at, arg |-> http[i].arg,
                            ans |-> http[i].ans, live |-> FALSE]
             /\ http'[i].op = http[i].op /\ http'[i].arg = http[i].arg /\ ~http'[i].live
  <2>1. http'[i] = [http[i] EXCEPT !.live = FALSE]
    BY <1>2, <1>3
  <2>2. http[i] # NoRequest /\ http[i].live
    BY <1>3 DEF Live, InFlight
  <2>3. http[i] = [op |-> http[i].op, at |-> http[i].at, arg |-> http[i].arg,
                   ans |-> http[i].ans, live |-> http[i].live]
    BY <2>2 DEF FormsInv, Typed
  <2>4. http'[i] = [op |-> http[i].op, at |-> http[i].at, arg |-> http[i].arg,
                    ans |-> http[i].ans, live |-> FALSE]
    BY <2>1, <2>3
  <2> QED BY <2>2, <2>4
<1>4. ASSUME NEW i \in Slot, i \notin Live("test") PROVE http'[i] = http[i]
  BY <1>2, <1>4
<1>5. Keeps(http, http')
  <2>1. http' = [i \in Slot |-> http'[i]]
    BY <1>2
  <2>2. Typed(http')
    BY <1>3, <1>4, <2>1 DEF FormsInv, Typed
  <2>3. ASSUME NEW i \in Slot, http'[i] # NoRequest
        PROVE  /\ http[i] # NoRequest /\ http'[i].op = http[i].op /\ http'[i].arg = http[i].arg
               /\ http'[i].live => http[i].live
    <3>1. CASE i \in Live("test")
      BY <1>3, <3>1
    <3>2. CASE i \notin Live("test")
      BY <1>4, <2>3, <3>2
    <3> QED BY <3>1, <3>2
  <2> QED BY <2>2, <2>3 DEF Keeps
<1>6. ASSUME ~authRequired, NEW i \in Slot, http'[i] # NoRequest, http'[i].op \in FormOps
      PROVE  ~http'[i].live
  <2>1. CASE i \in Live("test")
    BY <1>3, <2>1
  <2>2. CASE i \notin Live("test")
    <3>1. http'[i] = http[i]
      BY <1>4, <2>2
    <3> QED BY <1>1, <1>6, <2>2, <3>1 DEF FormsInv, LiveForms, FormOps, Live, InFlight
  <2> QED BY <2>1, <2>2
<1> QED
  BY <1>1, <1>5, <1>6 DEF FormsInv, Keeps, DialogOK, AllSentOK, LiveForms, FormOps

\* The button of the dialog waits for the request it sends.
LEMMA SendInv ==
  ASSUME FormsInv, NEW op \in FormOps, NEW arg,
         dialog # None, ~dialog.saving, ~dialog.testing,
         dialog' = IF op = "test" THEN [dialog EXCEPT !.testing = TRUE]
                   ELSE [dialog EXCEPT !.saving = TRUE],
         http' = Put(http, Request(op, "shell", arg)), UNCHANGED <<authRequired, opened, db>>,
         op = "submit" => arg.form = dialog.form /\ SentOK(arg)
  PROVE  FormsInv'
<1>1. /\ Typed(http')
      /\ \A i \in Slot : http'[i] = IF i = Taken(http) THEN Request(op, "shell", arg) ELSE http[i]
  BY PutEffect DEF FormsInv
<1>2. /\ dialog'.form = dialog.form /\ dialog'.v = dialog.v
      /\ op = "test" => dialog'.testing
      /\ op = "submit" => dialog'.saving
      /\ dialog' \in Dialogs
  <2>1. CASE op = "test"
    <3>1. dialog' = [form |-> dialog.form, v |-> dialog.v, testing |-> TRUE,
                     saving |-> dialog.saving, op |-> dialog.op]
      BY <2>1, DialogParts
    <3>2. dialog' \in Dialogs
      BY <3>1, WaitingDialogs
    <3> QED BY <2>1, <3>1, <3>2
  <2>2. CASE op = "submit"
    <3>1. dialog' = [form |-> dialog.form, v |-> dialog.v, testing |-> dialog.testing,
                     saving |-> TRUE, op |-> dialog.op]
      BY <2>2, DialogParts
    <3>2. dialog' \in Dialogs
      BY <3>1, WaitingDialogs
    <3> QED BY <2>2, <3>1, <3>2
  <2> QED BY <2>1, <2>2 DEF FormOps
<1>3. DialogOK' /\ dialog' # None
  BY <1>2, FormsAssumption DEF FormsInv, DialogOK
<1>4. AllSentOK'
  <2>1. Request(op, "shell", arg).op = op /\ Request(op, "shell", arg).arg = arg
    BY DEF Request
  <2> QED BY <1>1, <2>1 DEF FormsInv, AllSentOK
<1>5. LiveForms'
  <2> SUFFICES ASSUME ~authRequired PROVE LiveForms'
    BY DEF LiveForms
  <2>1. \A i \in Slot : http'[i] # NoRequest /\ http'[i].op \in FormOps /\ http'[i].live =>
           i = Taken(http) /\ http'[i] = Request(op, "shell", arg)
    BY <1>1, NobodyWaits
  <2>2. Request(op, "shell", arg).op = op /\ Request(op, "shell", arg).arg = arg
    BY DEF Request
  <2>3. op = "submit" => dialog'.form = arg.form
    BY <1>2
  <2> QED BY <1>2, <1>3, <2>1, <2>2, <2>3 DEF LiveForms
<1> QED BY <1>1, <1>3, <1>4, <1>5 DEF FormsInv, CreditsOK

\* What SubmitForm sends is what the dialog shows.
LEMMA SentInOrder ==
  ASSUME FormsInv, dialog # None
  PROVE  SentOK([form |-> dialog.form, v |-> Sent(dialog)])
<1> DEFINE arg == [form |-> dialog.form, v |-> Sent(dialog)]
<1>1. ASSUME dialog.form = "servers"
      PROVE  arg.v.names = {f.name : f \in {g \in FieldConfigs : arg.v.server_type \in g.types}}
  <2> DEFINE type == dialog.v.server_type
  <2>1. Sent(dialog) = [server_type |-> type, names |-> SentNames(type)]
    BY <1>1 DEF Sent
  <2>2. SentNames(type) = {f.name : f \in {g \in FieldConfigs : type \in g.types}}
    BY DEF SentNames, Names, Shown
  <2> QED BY <2>1, <2>2
<1>2. ASSUME dialog.form = "plans" PROVE PlanOK(arg.v)
  BY <1>2 DEF Sent, FormsInv, DialogOK, ValuesOK
<1>3. ASSUME dialog.form = "resellers"
      PROVE  ResellerOK(arg.v) /\ arg.v.key = <<arg.v.form, 0>>
  BY <1>3 DEF Sent, OperationId, FormsInv, DialogOK, ValuesOK, ResellerOK
<1> QED BY <1>1, <1>2, <1>3 DEF SentOK

\* The answer ends the wait: nothing else of the form is in flight.
LEMMA AnsweredInv ==
  ASSUME FormsInv, NEW i \in Slot, http[i] # NoRequest, http[i].op \in FormOps, http[i].live,
         ~authRequired, DialogOK', Keeps(Remove(i), http'), UNCHANGED <<authRequired, db>>
  PROVE  FormsInv'
<1>1. Keeps(http, http')
  BY RemoveKeeps, KeepsOn DEF FormsInv
<1>2. \A j \in Slot : http'[j] # NoRequest /\ http'[j].op \in FormOps => ~http'[j].live
  BY DEF FormsInv, LiveForms, Keeps, Remove, Typed
<1> QED BY <1>1, <1>2 DEF FormsInv, Keeps, AllSentOK, CreditsOK, LiveForms, FormOps

\* The answer to a test unlocks the dialog it was sent from.
LEMMA TestReplyInv ==
  ASSUME FormsInv, NEW i \in Slot, TestReply(i)
  PROVE  FormsInv'
<1>1. CASE http[i].ans = Unauthorized \/ authRequired
  BY <1>1, AuthOutcome, FrameInv, NoticeInv DEF TestReply
<1>2. CASE ~(http[i].ans = Unauthorized \/ authRequired)
  <2>1. /\ http[i] # NoRequest /\ http[i].op = "test" /\ http[i].live
        /\ dialog' = [dialog EXCEPT !.testing = FALSE] /\ http' = Remove(i)
        /\ UNCHANGED <<authRequired, opened, db>>
    BY <1>2 DEF TestReply, Live, InFlight, tab
  <2>2. dialog # None
    BY <1>2, <2>1 DEF FormsInv, LiveForms, FormOps
  <2>3. dialog' = [form |-> dialog.form, v |-> dialog.v, testing |-> FALSE,
                   saving |-> dialog.saving, op |-> dialog.op]
    BY <2>1, <2>2, DialogParts
  <2>4. DialogOK'
    BY <2>1, <2>2, <2>3, DialogParts DEF FormsInv, DialogOK, Dialogs
  <2>5. Keeps(Remove(i), http')
    BY <2>1, RemoveKeeps, KeepsItself DEF FormsInv, Keeps
  <2> QED BY <1>2, <2>1, <2>4, <2>5, AnsweredInv DEF FormOps
<1> QED BY <1>1, <1>2

\* The answer to a save closes its dialog, or lets it be sent again.
LEMMA SubmitReplyInv ==
  ASSUME FormsInv, NEW i \in Slot, SubmitReply(i)
  PROVE  FormsInv'
<1>1. CASE http[i].ans = Unauthorized \/ authRequired
  BY <1>1, AuthOutcome, FrameInv, NoticeInv DEF SubmitReply
<1>2. CASE ~(http[i].ans = Unauthorized \/ authRequired)
  <2>1. /\ http[i] # NoRequest /\ http[i].op = "submit" /\ http[i].live
        /\ UNCHANGED <<authRequired, opened, db>>
    BY <1>2 DEF SubmitReply, Live, InFlight, tab
  <2>2. dialog # None
    BY <1>2, <2>1 DEF FormsInv, LiveForms, FormOps
  <2>3. Typed(Remove(i))
    BY RemoveKeeps DEF FormsInv, Keeps
  <2>4. CASE http[i].ans = Done /\ dialog' = None /\ Reload(Remove(i))
    <3>1. Keeps(Remove(i), http')
      BY <1>2, <2>3, <2>4, StartLoadKeeps DEF Reload
    <3>2. DialogOK'
      BY <2>1, <2>4 DEF FormsInv, DialogOK
    <3> QED BY <1>2, <2>1, <3>1, <3>2, AnsweredInv DEF FormOps
  <2>5. CASE http' = Remove(i) /\ dialog' = IF dialog = None THEN None
                                            ELSE [dialog EXCEPT !.saving = FALSE]
    <3>1. Keeps(Remove(i), http')
      BY <2>3, <2>5, KeepsItself
    <3>2. dialog' = [form |-> dialog.form, v |-> dialog.v, testing |-> dialog.testing,
                     saving |-> FALSE, op |-> dialog.op]
      BY <2>2, <2>5, DialogParts
    <3>3. DialogOK'
      BY <2>1, <2>2, <3>2, DialogParts DEF FormsInv, DialogOK, Dialogs
    <3> QED BY <1>2, <2>1, <3>1, <3>3, AnsweredInv DEF FormOps
  <2> QED BY <1>2, <2>4, <2>5 DEF SubmitReply
<1> QED BY <1>1, <1>2

-----------------------------------------------------------------------------
(* Every step.                                                             *)

\* Every action of the dialog keeps the invariant.
LEMMA UseFormInv == FormsInv /\ UseForm => FormsInv'
<1> SUFFICES ASSUME FormsInv, UseForm PROVE FormsInv'
  OBVIOUS
<1>1. CASE TestServer
  <2>1. /\ dialog # None /\ ~dialog.testing /\ ~dialog.saving
        /\ dialog' = [dialog EXCEPT !.testing = TRUE]
        /\ http' = Put(http, Request("test", "shell", None))
        /\ UNCHANGED <<authRequired, opened, db>>
    BY <1>1 DEF TestServer, Editing, tab
  <2> QED BY <2>1, SendInv DEF FormOps
<1>2. CASE SubmitForm
  <2> DEFINE arg == [form |-> dialog.form, v |-> Sent(dialog)]
  <2>1. /\ dialog # None /\ ~dialog.testing /\ ~dialog.saving
        /\ dialog' = [dialog EXCEPT !.saving = TRUE]
        /\ http' = Put(http, Request("submit", "shell", arg))
        /\ UNCHANGED <<authRequired, opened, db>>
    BY <1>2 DEF SubmitForm, tab
  <2>2. arg.form = dialog.form /\ SentOK(arg)
    BY <2>1, SentInOrder
  <2> HIDE DEF arg
  <2> QED BY <2>1, <2>2, SendInv DEF FormOps
<1>3. ASSUME NEW s \in OpenForms, NEW v \in Defaults(s), OpenForm(s, v) PROVE FormsInv'
  BY <1>3, OpenInv
<1>4. ASSUME NEW x \in Servers, ChangeServer(x) PROVE FormsInv'
  BY <1>4, PlanInv
<1>5. ASSUME NEW m \in {"automatic", "manual"}, ChangeMode(m) PROVE FormsInv'
  BY <1>5, PlanInv
<1>6. ASSUME NEW n \in InboundIds, ToggleInbound(n) PROVE FormsInv'
  BY <1>6, PlanInv
<1>7. ASSUME NEW x \in Servers, ToggleServer(x) PROVE FormsInv'
  BY <1>7, ResellerInv
<1>8. ASSUME NEW x \in Servers, NEW b \in SUBSET InboundsOf(x), SetResellerPolicy(x, b)
      PROVE  FormsInv'
  BY <1>8, ResellerInv
<1> QED
  BY <1>1, <1>2, <1>3, <1>4, <1>5, <1>6, <1>7, <1>8, CloseInv, ChangeTypeInv DEF UseForm

\* The panel starts with one request, for the section it shows.
LEMMA FormsInit == Init => FormsInv
<1> SUFFICES ASSUME Init PROVE FormsInv
  OBVIOUS
<1> DEFINE none == [i \in Slot |-> NoRequest]
<1>1. Typed(none)
  BY DEF Typed
<1>2. Keeps(none, http)
  BY <1>1, StartLoadKeeps DEF Init
<1>3. \A i \in Slot : http[i] # NoRequest => http[i].op \notin FormOps
  BY <1>2 DEF Keeps
<1>4. CreditsOK(db)
  BY DEF Init, CreditsOK
<1>5. opened = 0 /\ dialog = None
  BY DEF Init
<1>6. DialogOK
  BY <1>5, FormsAssumption DEF DialogOK
<1> QED BY <1>2, <1>3, <1>4, <1>6 DEF FormsInv, Keeps, AllSentOK, LiveForms, FormOps

\* Every step does.
LEMMA FormsStep == FormsInv /\ [Next]_vars => FormsInv'
<1> SUFFICES ASSUME FormsInv, [Next]_vars PROVE FormsInv'
  OBVIOUS
<1>1. ASSUME NEW i \in Slot, Answer(i) PROVE FormsInv'
  BY <1>1, AnswerFrame, FrameInv
<1>2. ASSUME NEW i \in Slot, Reply(i) PROVE FormsInv'
  BY <1>2, ReplyOutcome, TestReplyInv, SubmitReplyInv, FrameInv, NoticeInv
<1>3. CASE UseSection
  BY <1>3, SectionFrame, FrameInv
<1>4. CASE UNCHANGED vars
  <2>1. Frame
    BY <1>4, KeepsItself DEF FormsInv, Frame, CreditsOK, vars, tab
  <2> QED BY <2>1, FrameInv
<1> QED BY <1>1, <1>2, <1>3, <1>4, BrowseInv, UseFormInv DEF Next

\* The invariant of the forms holds for every tour of the panel.
THEOREM FormsHold == Spec => []FormsInv
  BY FormsInit, FormsStep, PTL DEF Spec

-----------------------------------------------------------------------------
(* What follows.                                                           *)

\* An answer closes, or unlocks, the dialog whose save it answers: submitModal
\* needs no id of the dialog, because no other can be opened while it waits.
THEOREM RepliesMeet == Spec => []RepliesMeetTheirForm
<1>1. FormsInv => RepliesMeetTheirForm
  BY DEF FormsInv, LiveForms, RepliesMeetTheirForm, Live, InFlight, Editing, FormOps
<1> QED BY <1>1, FormsHold, PTL

\* A reseller's form changes the wallet once, however often it is sent again.
THEOREM OneAdjustment == Spec => []AdjustedOnce
<1>1. FormsInv => AdjustedOnce
  BY DEF FormsInv, CreditsOK, AdjustedOnce
<1> QED BY <1>1, FormsHold, PTL

\* Every value that was sent is in order until it is answered.
LEMMA InFlightInOrder ==
  ASSUME FormsInv, NEW form, NEW v \in InFlightForm(form)
  PROVE  \E arg : arg.form = form /\ arg.v = v /\ SentOK(arg)
  BY DEF FormsInv, AllSentOK, InFlightForm, InFlight

\* What the save of a server sends is what its type shows.
THEOREM OnlyShownIsSent == Spec => []SentIsShown
<1>1. FormsInv => SentIsShown
  BY InFlightInOrder DEF SentIsShown, SentOK
<1> QED BY <1>1, FormsHold, PTL

\* No plan is sold with the inbounds of a server it has left.
THEOREM OwnInbounds == Spec => []InboundsOfTheirServer
<1>1. FormsInv => InboundsOfTheirServer
  BY InFlightInOrder DEF InboundsOfTheirServer, SentOK, PlanOK
<1> QED BY <1>1, FormsHold, PTL

\* No reseller keeps a policy for a server that was taken away.
THEOREM AllowedPolicies == Spec => []PoliciesForAllowed
<1>1. FormsInv => PoliciesForAllowed
  BY InFlightInOrder DEF PoliciesForAllowed, SentOK, ResellerOK
<1> QED BY <1>1, FormsHold, PTL

=============================================================================
