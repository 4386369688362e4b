------------------------- MODULE AdminSections_proofs -------------------------
(***************************************************************************)
(* For every list, file, text and number of requests in flight: the rows   *)
(* of the users list, the orders of the lists, the secrets of a restore,   *)
(* the inbounds of a trial and the keys of the texts; the draft of the     *)
(* connection form, the lists without an order, and the types.  Each rests *)
(* on what the mounted section may hold and on where every answer in       *)
(* flight belongs.                                                         *)
(***************************************************************************)
EXTENDS AdminPanel_proofs, WellFoundedInduction, FiniteSetTheorems, SequenceTheorems

-----------------------------------------------------------------------------
(* The inductive invariant.                                                *)

ShellOps == {"action", "test", "submit"}
TextOps == {"texts", "text", "resettext"}

TargetsOK(f) == \A x \in DOMAIN f : f[x] \subseteq InboundsAt(x)
WholeList(l) ==
    l \in Seq(Items) /\ Seqs!ToSet(l) = Items /\ Len(l) = Cardinality(Items)
TextsOK(t) == t = [k \in Keys |-> t[k]] /\ \A k \in Keys : t[k][1] = k

\* Each section sends requests of its own.
Placed(r) ==
    /\ r.at = "shell" => r.op \in ShellOps
    /\ r.op \in {"action", "submit"} => r.at = "shell" /\ r.live
    /\ r.at \in {"users", "discounts"} => r.op = "load"
    /\ r.at \in Ordered => r.op \in {"load", "order"}
    /\ r.at = "connection" => r.op \in {"load", "connect", "refetch"}
    /\ r.at = "backup" => r.op \in {"load", "backup", "restore", "refetch"}
    /\ r.at = "test-account" => r.op \in {"load", "trial", "trialreset", "refetch"}
    /\ r.at = "custom" <=> r.op \in TextOps

\* What was sent is in order.
Carries(r) ==
    /\ r.op = "text" => r.arg.key \in Keys /\ r.arg.text[1] = r.arg.key
    /\ r.op = "restore" => \A t \in r.arg.typed : t[2] = r.arg.file
    /\ r.op = "order" => WholeList(r.arg.list)
    /\ r.op = "trial" => TargetsOK(r.arg.targets)
                         /\ \A x \in DOMAIN r.arg.targets : x \in Xui => r.arg.targets[x] # {}

\* So is what was read.
Answered(r) ==
    r.ans \notin {Waiting, Failed, Unauthorized} =>
      /\ r.op = "texts" => TextsOK(r.ans)
      /\ r.op \in {"load", "refetch"} /\ r.at = "test-account" => TargetsOK(r.ans)
      /\ r.op = "load" /\ r.at \in Ordered => WholeList(r.ans)
      /\ r.op = "load" /\ r.at = "users" => r.ans = r.arg.path

\* A handler that waits belongs to the shell or to the mounted section s, and
\* a list of users that is waited for is the one the page shows.
Awaited(r, s, a, u, q) ==
    r.live =>
      /\ r.at = "shell" \/ (r.at = s /\ ~a)
      /\ r.op = "load" /\ r.at = "users" => r.arg.path = Path("users", u.page, q)

RequestsOK(h, s, a, u, q) ==
    /\ Typed(h)
    /\ \A i \in Slot : h[i] # NoRequest =>
          Placed(h[i]) /\ Carries(h[i]) /\ Answered(h[i]) /\ Awaited(h[i], s, a, u, q)

\* The mounted section.
RowsOK(u, q) ==
    /\ {"data", "loading", "error", "page"} \subseteq DOMAIN u
    /\ ~u.loading /\ ~u.error /\ u.data # None => u.data = Path("users", u.page, q)
OrderedOK(u) ==
    /\ {"data", "loading", "error", "order", "saving"} \subseteq DOMAIN u
    /\ u.data # None => WholeList(u.data) /\ WholeList(u.order)
ConnectionOK(u) ==
    /\ {"data", "loading", "error", "form", "busy"} \subseteq DOMAIN u
    /\ {"value", "secret"} \subseteq DOMAIN u.form
BackupOK(u) ==
    /\ {"data", "loading", "error", "file", "typed", "need", "busy"} \subseteq DOMAIN u
    /\ \A t \in u.typed : t[2] = u.file
TrialOK(u) ==
    /\ {"data", "loading", "error", "targets", "saving"} \subseteq DOMAIN u
    /\ TargetsOK(u.targets)
EditorOK(u) ==
    /\ {"data", "loading", "error", "filter", "selected", "shown", "draft", "saving"} \subseteq DOMAIN u
    /\ u.data # None => TextsOK(u.data)
    /\ u.shown # 0 => u.shown \in Keys /\ u.draft[1] = u.shown
ScreenOK(s, a, u, q) ==
    ~a => /\ s = "users" => RowsOK(u, q)
          /\ s = "discounts" => {"data", "loading", "error"} \subseteq DOMAIN u
          /\ s \in Ordered => OrderedOK(u)
          /\ s = "connection" => ConnectionOK(u)
          /\ s = "backup" => BackupOK(u)
          /\ s = "test-account" => TrialOK(u)
          /\ s = "custom" => EditorOK(u)

StoreOK(d) ==
    /\ {"texts", "targets", "order", "items", "lost"} \subseteq DOMAIN d
    /\ TextsOK(d.texts) /\ TargetsOK(d.targets) /\ WholeList(d.order)

SectionsInv ==
    /\ section \in SectionKeys /\ StoreOK(db)
    /\ RequestsOK(http, section, authRequired, ui, query)
    /\ ScreenOK(section, authRequired, ui, query)

-----------------------------------------------------------------------------
(* What is done to the requests.                                           *)

\* A request that may be sent.
MaySend(r, s, a, u, q) == Placed(r) /\ Carries(r) /\ Awaited(r, s, a, u, q)

\* A new request waits for its answer.
LEMMA PutOK ==
  ASSUME NEW h, NEW s, NEW a, NEW u, NEW q, RequestsOK(h, s, a, u, q),
         NEW op, NEW at, NEW arg, MaySend(Request(op, at, arg), s, a, u, q)
  PROVE  RequestsOK(Put(h, Request(op, at, arg)), s, a, u, q)
<1> DEFINE r == Request(op, at, arg)
           g == Put(h, r)
<1>1. Typed(g) /\ \A i \in Slot : g[i] = IF i = Taken(h) THEN r ELSE h[i]
  BY PutEffect DEF RequestsOK
<1>2. Answered(r)
  BY DEF Answered, Request
<1> HIDE DEF g, r
<1>3. RequestsOK(g, s, a, u, q)
  <2>1. MaySend(r, s, a, u, q)
    BY DEF r
  <2> QED BY <1>1, <1>2, <2>1 DEF RequestsOK, MaySend
<1> QED BY <1>3 DEF g, r

\* A slot that is freed.
LEMMA RemoveOK ==
  ASSUME NEW s, NEW a, NEW u, NEW q, RequestsOK(http, s, a, u, q), NEW i
  PROVE  RequestsOK(Remove(i), s, a, u, q)
<1>1. Typed(Remove(i))
  BY RemoveKeeps DEF RequestsOK, Keeps
<1>2. \A j \in Slot : Remove(i)[j] # NoRequest => Remove(i)[j] = http[j]
  BY DEF Remove, RequestsOK, Typed
<1>3. \A j \in Slot : Remove(i)[j] # NoRequest => http[j] # NoRequest
  BY <1>2
<1> QED BY <1>1, <1>2, <1>3 DEF RequestsOK

\* Only the users list minds which page and search are on screen.
LEMMA MoveOK ==
  ASSUME NEW h, NEW s, NEW a, NEW u, NEW q, RequestsOK(h, s, a, u, q), NEW w, NEW p,
         s = "users" /\ ~a => w.page = u.page /\ p = q
  PROVE  RequestsOK(h, s, a, w, p)
<1>1. ASSUME NEW r, Placed(r), Awaited(r, s, a, u, q) PROVE Awaited(r, s, a, w, p)
  BY <1>1 DEF Awaited, Placed, ShellOps, Ordered
<1> QED BY <1>1 DEF RequestsOK

\* Loads that are cancelled leave no list of users to wait for.
LEMMA CancelOK ==
  ASSUME NEW h, NEW s, NEW a, NEW u, NEW q, RequestsOK(h, s, a, u, q), NEW w, NEW p
  PROVE  RequestsOK(CancelLoads(h), s, a, w, p)
<1>1. Typed(CancelLoads(h))
  BY DEF RequestsOK, CancelLoads, Typed
<1>2. ASSUME NEW i \in Slot, CancelLoads(h)[i] # NoRequest
      PROVE  CancelLoads(h)[i] = h[i] /\ h[i] # NoRequest /\ h[i].op # "load"
  BY <1>2 DEF CancelLoads
<1>3. ASSUME NEW r, r.op # "load", Awaited(r, s, a, u, q) PROVE Awaited(r, s, a, w, p)
  BY <1>3 DEF Awaited
<1> QED BY <1>1, <1>2, <1>3 DEF RequestsOK

\* The section loads again: for the users list, the page and search given.
LEMMA LoadOK ==
  ASSUME NEW h, NEW s, NEW a, ~a, NEW u, NEW q, RequestsOK(h, s, a, u, q), NEW v, NEW w, NEW p,
         s # "shell", s = "users" => w.page = PageOf(v)
  PROVE  RequestsOK(StartLoad(h, s, v, p), s, a, w, p)
<1>1. CASE s = "custom"
  <2> DEFINE arg == [key |-> v.selected, saves |-> FALSE]
  <2>1. StartLoad(h, s, v, p) = Put(h, Request("texts", s, arg))
    BY <1>1 DEF StartLoad
  <2>2. RequestsOK(h, s, a, w, p)
    BY <1>1, MoveOK
  <2>3. MaySend(Request("texts", s, arg), s, a, w, p)
    BY <1>1 DEF MaySend, Request, Placed, Carries, Awaited, TextOps, Ordered
  <2> QED BY <2>1, <2>2, <2>3, PutOK
<1>2. CASE s # "custom"
  <2> DEFINE arg == [path |-> Path(s, PageOf(v), p)]
  <2>1. StartLoad(h, s, v, p) = Put(CancelLoads(h), Request("load", s, arg))
    BY <1>2 DEF StartLoad
  <2>2. RequestsOK(CancelLoads(h), s, a, w, p)
    BY CancelOK
  <2>3. MaySend(Request("load", s, arg), s, a, w, p)
    BY <1>2 DEF MaySend, Request, Placed, Carries, Awaited, TextOps, Ordered
  <2> QED BY <2>1, <2>2, <2>3, PutOK
<1> QED BY <1>1, <1>2

\* What is left of a section that is gone suits any other.
LEMMA UnmountOK ==
  ASSUME NEW h, NEW s, NEW a, NEW u, NEW q, RequestsOK(h, s, a, u, q),
         NEW t, NEW b, NEW w, NEW p
  PROVE  RequestsOK(Unmount(h), t, b, w, p)
<1> DEFINE g == Unmount(h)
<1>1. Typed(g)
  BY UnmountKeeps DEF RequestsOK, Keeps
<1>2. ASSUME NEW i \in Slot, g[i] # NoRequest
      PROVE  Placed(g[i]) /\ Carries(g[i]) /\ Answered(g[i]) /\ Awaited(g[i], t, b, w, p)
  <2>1. h[i] # NoRequest /\ h[i].op # "load" /\ g[i] = [h[i] EXCEPT !.live = @ /\ h[i].at = "shell"]
    BY <1>2 DEF Unmount
  <2>2. h[i] = [op |-> h[i].op, at |-> h[i].at, arg |-> h[i].arg, ans |-> h[i].ans,
                live |-> h[i].live]
    BY <2>1 DEF RequestsOK, Typed
  <2>3. g[i] = [op |-> h[i].op, at |-> h[i].at, arg |-> h[i].arg, ans |-> h[i].ans,
                live |-> h[i].live /\ h[i].at = "shell"]
    BY <2>1, <2>2
  <2> HIDE DEF g
  <2>4. /\ g[i].op = h[i].op /\ g[i].at = h[i].at /\ g[i].arg = h[i].arg /\ g[i].ans = h[i].ans
        /\ g[i].live = (h[i].live /\ h[i].at = "shell")
    BY <2>3
  <2>5. Placed(h[i]) /\ Carries(h[i]) /\ Answered(h[i])
    BY <2>1 DEF RequestsOK
  <2>6. Placed(g[i])
    BY <2>1, <2>4, <2>5 DEF Placed
  <2>7. Carries(g[i])
    BY <2>4, <2>5 DEF Carries
  <2>8. Answered(g[i])
    BY <2>4, <2>5 DEF Answered
  <2>9. Awaited(g[i], t, b, w, p)
    BY <2>1, <2>4 DEF Awaited
  <2> QED BY <2>6, <2>7, <2>8, <2>9
<1> HIDE DEF g
<1>3. RequestsOK(g, t, b, w, p)
  BY <1>1, <1>2 DEF RequestsOK
<1> QED BY <1>3 DEF g

\* Before anything is asked for.
LEMMA NothingOK ==
  ASSUME NEW s, NEW a, NEW u, NEW q
  PROVE  RequestsOK([i \in Slot |-> NoRequest], s, a, u, q)
  BY DEF RequestsOK, Typed

\* A request i that is waited for, and is not of the shell, is of the section.
LEMMA Mounted ==
  ASSUME SectionsInv, NEW i \in Slot, http[i] # NoRequest, http[i].live, http[i].op \notin ShellOps
  PROVE  /\ ~authRequired /\ http[i].at = section
         /\ Placed(http[i]) /\ Carries(http[i]) /\ Answered(http[i])
         /\ Awaited(http[i], section, authRequired, ui, query)
  BY DEF SectionsInv, RequestsOK, Placed, Awaited, Ordered

-----------------------------------------------------------------------------
(* The sections.                                                           *)

\* A text that is listed first.
LEMMA FirstListed ==
  ASSUME NEW S, S \subseteq Keys, S # {}
  PROVE  FirstOf(S) \in S
<1>0. S \subseteq Nat
  BY KeysAssumption
<1>1. PICK x \in S : \A y \in S : ~(<<y, x>> \in OpToRel(<, Nat))
  BY <1>0, NatLessThanWellFounded, WFMin
<1>2. \A y \in S : <<y, x>> \in OpToRel(<, Nat) <=> y < x
  BY <1>0 DEF OpToRel
<1>3. \A y \in S : ~(y < x)
  BY <1>1, <1>2
<1>4. \A y \in S : x <= y
  BY <1>0, <1>3
<1> QED BY <1>4 DEF FirstOf

\* A part of a list.
LEMMA PartOK ==
  ASSUME NEW S, NEW l \in Seq(S), NEW m \in 1..(Len(l) + 1), NEW n \in 0..Len(l), m <= n + 1
  PROVE  /\ SubSeq(l, m, n) \in Seq(S) /\ Len(SubSeq(l, m, n)) = n - m + 1
         /\ \A k \in 1..(n - m + 1) : SubSeq(l, m, n)[k] = l[m + k - 1]
<1>1. Len(l) \in Nat /\ m \in Int /\ n \in Int /\ \A i \in m..n : l[i] \in S
  BY LenProperties
<1> QED BY <1>1, SubSeqProperties

\* An item that is dragged onto another changes its place, and no more.
LEMMA MovedOK ==
  ASSUME NEW l, WholeList(l), NEW x \in Items, NEW y \in Items
  PROVE  WholeList(Moved(l, x, y))
<1> DEFINE p == IndexIn(l, x)
           q == IndexIn(l, y)
           r == Seqs!RemoveAt(l, p)
           m == Seqs!InsertAt(r, q, x)
<1>1. l \in Seq(Items) /\ Len(l) \in Nat
  BY DEF WholeList
<1>2. \A z \in Items : IndexIn(l, z) \in 1..Len(l) /\ l[IndexIn(l, z)] = z
  <2>1. \A z \in Items : \E k \in DOMAIN l : l[k] = z
    BY DEF WholeList, Seqs!ToSet
  <2> QED BY <1>1, <2>1 DEF IndexIn
<1>3. p \in 1..Len(l) /\ l[p] = x /\ q \in 1..Len(l)
  BY <1>2
<1> HIDE DEF p, q
<1>4. /\ r \in Seq(Items) /\ Len(r) = Len(l) - 1
      /\ \A k \in 1..(Len(l) - 1) : r[k] = IF k < p THEN l[k] ELSE l[k + 1]
  <2> DEFINE a == SubSeq(l, 1, p - 1)
             b == SubSeq(l, p + 1, Len(l))
  <2>1. a \in Seq(Items) /\ Len(a) = p - 1 /\ \A k \in 1..(p - 1) : a[k] = l[1 + k - 1]
    BY <1>1, <1>3, PartOK
  <2>2. /\ b \in Seq(Items) /\ Len(b) = Len(l) - p
        /\ \A k \in 1..(Len(l) - p) : b[k] = l[p + 1 + k - 1]
    BY <1>1, <1>3, PartOK
  <2>3. r = a \o b
    BY DEF Seqs!RemoveAt
  <2> HIDE DEF a, b, r
  <2>4. /\ r \in Seq(Items) /\ Len(r) = Len(l) - 1
        /\ \A k \in 1..(Len(l) - 1) : r[k] = IF k <= p - 1 THEN a[k] ELSE b[k - (p - 1)]
    <3>1. /\ a \o b \in Seq(Items) /\ Len(a \o b) = Len(a) + Len(b)
          /\ \A k \in 1..(Len(a) + Len(b)) : (a \o b)[k] =
                IF k <= Len(a) THEN a[k] ELSE b[k - Len(a)]
      BY <2>1, <2>2, ConcatProperties
    <3>2. Len(a) + Len(b) = Len(l) - 1
      BY <1>1, <1>3, <2>1, <2>2
    <3> QED BY <2>1, <2>3, <3>1, <3>2
  <2>5. ASSUME NEW k \in 1..(Len(l) - 1) PROVE r[k] = IF k < p THEN l[k] ELSE l[k + 1]
    <3>1. CASE k < p
      BY <1>1, <1>3, <2>1, <2>4, <3>1
    <3>2. CASE ~(k < p)
      <4>1. k - (p - 1) \in 1..(Len(l) - p) /\ p + 1 + (k - (p - 1)) - 1 = k + 1
        BY <1>1, <1>3, <3>2
      <4> QED BY <1>1, <1>3, <2>2, <2>4, <3>2, <4>1
    <3> QED BY <3>1, <3>2
  <2> QED BY <2>4, <2>5
<1> HIDE DEF r
<1>5. /\ m \in Seq(Items) /\ Len(m) = Len(l)
      /\ \A k \in 1..Len(l) : m[k] = IF k < q THEN r[k] ELSE IF k = q THEN x ELSE r[k - 1]
  <2> DEFINE a == SubSeq(r, 1, q - 1)
             b == SubSeq(r, q, Len(r))
  <2>1. a \in Seq(Items) /\ Len(a) = q - 1 /\ \A k \in 1..(q - 1) : a[k] = r[1 + k - 1]
    BY <1>1, <1>3, <1>4, PartOK
  <2>2. /\ b \in Seq(Items) /\ Len(b) = Len(l) - q
        /\ \A k \in 1..(Len(l) - q) : b[k] = r[q + k - 1]
    BY <1>1, <1>3, <1>4, PartOK
  <2>3. m = a \o <<x>> \o b
    BY DEF Seqs!InsertAt
  <2>4. <<x>> \in Seq(Items) /\ Len(<<x>>) = 1 /\ <<x>>[1] = x
    OBVIOUS
  <2> HIDE DEF a, b, m
  <2>5. /\ a \o <<x>> \in Seq(Items) /\ Len(a \o <<x>>) = q
        /\ \A k \in 1..q : (a \o <<x>>)[k] = IF k <= q - 1 THEN a[k] ELSE <<x>>[k - (q - 1)]
    BY <1>1, <1>3, <2>1, <2>4, ConcatProperties
  <2>6. /\ m \in Seq(Items) /\ Len(m) = Len(l)
        /\ \A k \in 1..Len(l) : m[k] = IF k <= q THEN (a \o <<x>>)[k] ELSE b[k - q]
    <3> DEFINE c == a \o <<x>>
    <3>1. c \in Seq(Items) /\ Len(c) = q /\ m = c \o b
      BY <2>3, <2>5
    <3> HIDE DEF c
    <3>2. /\ m \in Seq(Items) /\ Len(m) = Len(c) + Len(b)
          /\ \A k \in 1..(Len(c) + Len(b)) : m[k] = IF k <= Len(c) THEN c[k] ELSE b[k - Len(c)]
      BY <2>2, <3>1, ConcatProperties
    <3>3. Len(c) + Len(b) = Len(l)
      BY <1>1, <1>3, <2>2, <3>1
    <3>4. \A k \in 1..Len(l) : m[k] = IF k <= q THEN c[k] ELSE b[k - q]
      BY <3>1, <3>2, <3>3
    <3> QED BY <3>2, <3>3, <3>4 DEF c
  <2>7. ASSUME NEW k \in 1..Len(l)
        PROVE  m[k] = IF k < q THEN r[k] ELSE IF k = q THEN x ELSE r[k - 1]
    <3>1. CASE k < q
      BY <1>1, <1>3, <2>1, <2>5, <2>6, <3>1
    <3>2. CASE k = q
      BY <1>1, <1>3, <2>4, <2>5, <2>6, <3>2
    <3>3. CASE k > q
      <4>1. k - q \in 1..(Len(l) - q) /\ q + (k - q) - 1 = k - 1
        BY <1>1, <1>3, <3>3
      <4> QED BY <1>1, <1>3, <2>2, <2>6, <3>3, <4>1
    <3> QED BY <1>1, <1>3, <3>1, <3>2, <3>3
  <2> QED BY <2>6, <2>7
<1> HIDE DEF m
<1>6. \A z \in Items : \E k \in 1..Len(l) : m[k] = z
  <2> SUFFICES ASSUME NEW z \in Items PROVE \E k \in 1..Len(l) : m[k] = z
    OBVIOUS
  <2>1. CASE z = x
    BY <1>3, <1>5, <2>1
  <2>2. CASE z # x
    <3>1. PICK k \in 1..Len(l) : l[k] = z
      BY <1>2
    <3>2. k # p
      BY <1>3, <2>2, <3>1
    <3>3. PICK j \in 1..(Len(l) - 1) : r[j] = z
      <4>1. CASE k < p
        BY <1>3, <1>4, <3>1, <4>1
      <4>2. CASE k > p
        <5>1. k - 1 \in 1..(Len(l) - 1) /\ ~(k - 1 < p) /\ (k - 1) + 1 = k
          BY <1>3, <4>2
        <5> QED BY <1>4, <3>1, <5>1
      <4> QED BY <1>3, <3>2, <4>1, <4>2
    <3>4. CASE j < q
      BY <1>1, <1>3, <1>5, <3>3, <3>4
    <3>5. CASE ~(j < q)
      <4>1. j + 1 \in 1..Len(l) /\ ~(j + 1 < q) /\ j + 1 # q /\ (j + 1) - 1 = j
        BY <1>1, <1>3, <3>5
      <4> QED BY <1>5, <3>3, <4>1
    <3> QED BY <3>4, <3>5
  <2> QED BY <2>1, <2>2
<1>7. DOMAIN m = 1..Len(l) /\ \A k \in DOMAIN m : m[k] \in Items
  BY <1>5
<1>8. Seqs!ToSet(m) = Items
  BY <1>6, <1>7 DEF Seqs!ToSet
<1>9. Moved(l, x, y) = m
  BY DEF Moved, m, r, p, q
<1> QED BY <1>5, <1>8, <1>9 DEF WholeList

\* The effect on the connection's data.
LEMMA FilledConnectionOK ==
  ASSUME NEW u, ConnectionOK(u), NEW data
  PROVE  ConnectionOK(FilledConnection(u, data)) /\ FilledConnection(u, data).data = data
  BY DEF ConnectionOK, FilledConnection

\* The effect on the selected text leaves an editor that is in order.
LEMMA SettledOK ==
  ASSUME NEW u, EditorOK(u), TextsOK(u.data)
  PROVE  EditorOK(Settled(u))
<1> DEFINE k == SelectedIn(u)
<1>1. k \in Keys \cup {0}
  BY FirstListed DEF SelectedIn, Listed
<1> HIDE DEF k
<1>2. CASE k \in {0, u.shown}
  <2>1. Settled(u) = [u EXCEPT !.shown = k]
    BY <1>2 DEF Settled, k
  <2> QED BY <1>1, <1>2, <2>1 DEF EditorOK
<1>3. CASE k \notin {0, u.shown}
  <2>1. Settled(u) = [u EXCEPT !.shown = k, !.selected = k, !.draft = u.data[k]]
    BY <1>3 DEF Settled, k
  <2>2. u.data[k][1] = k /\ k \in Keys
    BY <1>1, <1>3 DEF EditorOK, TextsOK
  <2> QED BY <2>1, <2>2 DEF EditorOK
<1> QED BY <1>2, <1>3

\* What a section starts with.
LEMMA FreshOK ==
  ASSUME NEW s, NEW a, NEW q
  PROVE  /\ ScreenOK(s, a, Fresh(s), q)
         /\ s = "users" => Fresh(s).page = PageOf(Fresh(s))
<1>1. CASE s = "users"
  BY <1>1 DEF ScreenOK, Fresh, RowsOK, PageOf, Ordered
<1>2. CASE s = "backup"
  BY <1>2 DEF ScreenOK, Fresh, FreshBackup, BackupOK, Ordered
<1>5. CASE s = "discounts"
  BY <1>5 DEF ScreenOK, Fresh, Blank, Ordered
<1>6. CASE s \in Ordered
  <2>1. Fresh(s) = FreshOrder
    BY <1>6 DEF Fresh, Ordered
  <2> QED BY <1>6, <2>1 DEF ScreenOK, FreshOrder, OrderedOK, Ordered
<1>7. CASE s = "connection"
  BY <1>7 DEF ScreenOK, Fresh, FreshConnection, ConnectionOK, Ordered
<1>3. CASE s = "test-account"
  BY <1>3 DEF ScreenOK, Fresh, FreshTrial, TrialOK, TargetsOK, Ordered
<1>4. CASE s = "custom"
  BY <1>4 DEF ScreenOK, Fresh, FreshTexts, EditorOK, Ordered
<1> QED BY <1>1, <1>2, <1>3, <1>4, <1>5, <1>6, <1>7 DEF ScreenOK

\* Starting to load hides the rows and leaves every draft alone.
LEMMA StartLoadingOK ==
  ASSUME SectionsInv, ~authRequired
  PROVE  /\ \A p : ScreenOK(section, authRequired, StartLoading(ui), p)
         /\ section = "users" =>
              /\ StartLoading(ui).page = ui.page /\ StartLoading(ui).loading = TRUE
              /\ {"data", "loading", "error", "page"} \subseteq DOMAIN StartLoading(ui)
<1>0. ScreenOK(section, authRequired, ui, query)
  BY DEF SectionsInv
<1> DEFINE w == [ui EXCEPT !.loading = TRUE, !.error = FALSE]
<1>1. CASE section = "users"
  <2>1. StartLoading(ui) = w
    BY <1>1 DEF StartLoading
  <2> QED BY <1>0, <1>1, <2>1 DEF ScreenOK, RowsOK, Ordered
<1>2. CASE section = "backup"
  <2>1. StartLoading(ui) = w
    BY <1>2 DEF StartLoading
  <2> QED BY <1>0, <1>2, <2>1 DEF ScreenOK, BackupOK, Ordered
<1>3. CASE section = "test-account"
  <2>1. StartLoading(ui) = w
    BY <1>3 DEF StartLoading
  <2> QED BY <1>0, <1>3, <2>1 DEF ScreenOK, TrialOK, Ordered
<1>4. CASE section = "custom"
  <2>1. StartLoading(ui) = ui \/ StartLoading(ui) = w
    BY <1>4 DEF StartLoading
  <2>2. EditorOK(ui)
    BY <1>0, <1>4 DEF ScreenOK, Ordered
  <2>3. EditorOK(ui) => EditorOK(w)
    BY DEF EditorOK
  <2> QED BY <1>4, <2>1, <2>2, <2>3 DEF ScreenOK, Ordered
<1>5. CASE section = "discounts"
  <2>1. StartLoading(ui) = w
    BY <1>5 DEF StartLoading
  <2> QED BY <1>0, <1>5, <2>1 DEF ScreenOK, Ordered
<1>6. CASE section \in Ordered
  <2>1. StartLoading(ui) = w
    BY <1>6 DEF StartLoading, Ordered
  <2>2. OrderedOK(w)
    BY <1>0, <1>6 DEF ScreenOK, OrderedOK
  <2> QED BY <1>6, <2>1, <2>2 DEF ScreenOK, Ordered
<1>7. CASE section = "connection"
  <2>1. StartLoading(ui) = w
    BY <1>7 DEF StartLoading
  <2>2. ConnectionOK(w)
    BY <1>0, <1>7 DEF ScreenOK, ConnectionOK
  <2> QED BY <1>7, <2>1, <2>2 DEF ScreenOK, Ordered
<1> QED BY <1>1, <1>2, <1>3, <1>4, <1>5, <1>6, <1>7 DEF ScreenOK

\* setReloadKey keeps the section in order.
LEMMA ReloadOK ==
  ASSUME SectionsInv, NEW h, RequestsOK(h, section, authRequired, ui, query), Reload(h),
         UNCHANGED <<section, authRequired, query, db>>
  PROVE  SectionsInv'
<1>1. CASE authRequired
  BY <1>1 DEF Reload, SectionsInv
<1>2. CASE ~authRequired
  <2>1. http' = StartLoad(h, section, ui, query) /\ ui' = StartLoading(ui)
    BY <1>2 DEF Reload
  <2>2. /\ ScreenOK(section, authRequired, ui', query)
        /\ section = "users" => ui'.page = ui.page
    BY <1>2, <2>1, StartLoadingOK
  <2>3. section = "users" => ui'.page = PageOf(ui)
    BY <1>2, <2>2 DEF SectionsInv, ScreenOK, RowsOK, PageOf, Ordered
  <2>4. section # "shell"
    BY DEF SectionsInv, SectionKeys
  <2>5. RequestsOK(http', section, authRequired, ui', query)
    BY <1>2, <2>1, <2>3, <2>4, LoadOK
  <2> QED BY <1>2, <2>2, <2>5 DEF SectionsInv
<1> QED BY <1>1, <1>2

-----------------------------------------------------------------------------
(* The server.                                                             *)

\* The answer b to a request i, if it is in order.
LEMMA AnsweredOK ==
  ASSUME SectionsInv, NEW i \in InFlight, NEW b, http' = [http EXCEPT ![i].ans = b],
         UNCHANGED <<section, authRequired, query, ui>>, StoreOK(db'),
         b \notin {Waiting, Failed, Unauthorized} =>
           /\ http[i].op = "texts" => TextsOK(b)
           /\ http[i].op \in {"load", "refetch"} /\ http[i].at = "test-account" => TargetsOK(b)
           /\ http[i].op = "load" /\ http[i].at \in Ordered => WholeList(b)
           /\ http[i].op = "load" /\ http[i].at = "users" => b = http[i].arg.path
  PROVE  SectionsInv'
<1>1. Typed(http')
  BY AnswerKeeps DEF SectionsInv, RequestsOK, Keeps
<1>2. http[i] = [op |-> http[i].op, at |-> http[i].at, arg |-> http[i].arg,
                 ans |-> http[i].ans, live |-> http[i].live]
  BY DEF SectionsInv, RequestsOK, Typed, InFlight
<1>3. http'[i] = [op |-> http[i].op, at |-> http[i].at, arg |-> http[i].arg,
                  ans |-> b, live |-> http[i].live]
  BY <1>2 DEF SectionsInv, RequestsOK, Typed, InFlight
<1>4. /\ http'[i].op = http[i].op /\ http'[i].at = http[i].at /\ http'[i].arg = http[i].arg
      /\ http'[i].ans = b /\ http'[i].live = http[i].live
  BY <1>3
<1>5. /\ Placed(http[i]) /\ Carries(http[i])
      /\ Awaited(http[i], section, authRequired, ui, query)
  BY DEF SectionsInv, RequestsOK, InFlight
<1>6. /\ Placed(http'[i]) /\ Carries(http'[i]) /\ Answered(http'[i])
      /\ Awaited(http'[i], section, authRequired, ui, query)
  BY <1>4, <1>5 DEF Placed, Carries, Answered, Awaited, Ordered
<1>7. \A j \in Slot : j # i => http'[j] = http[j]
  BY DEF SectionsInv, RequestsOK, Typed
<1>8. RequestsOK(http', section, authRequired, ui, query)
  BY <1>1, <1>6, <1>7 DEF SectionsInv, RequestsOK
<1> QED BY <1>8 DEF SectionsInv

\* The server does what it is asked, or its answer is lost.
LEMMA ServeOK ==
  ASSUME SectionsInv, NEW i \in InFlight, NEW newdb, NEW a, Serve(i, newdb, a), StoreOK(newdb),
         a \notin {Waiting, Failed, Unauthorized} =>
           /\ http[i].op = "texts" => TextsOK(a)
           /\ http[i].op \in {"load", "refetch"} /\ http[i].at = "test-account" => TargetsOK(a)
           /\ http[i].op = "load" /\ http[i].at \in Ordered => WholeList(a)
           /\ http[i].op = "load" /\ http[i].at = "users" => a = http[i].arg.path
  PROVE  SectionsInv'
<1>1. StoreOK(db') /\ UNCHANGED <<section, authRequired, query, ui>>
  BY DEF Serve, StoreOK, tab
<1>2. \/ http' = [http EXCEPT ![i].ans = a]
      \/ http' = [http EXCEPT ![i].ans = Failed]
  BY DEF Serve
<1> QED BY <1>1, <1>2, AnsweredOK

\* Every answer is in order: a list of users is the one asked for, the texts
\* are stored under their keys, the targets have inbounds of their servers.
LEMMA AnswerOK ==
  ASSUME SectionsInv, NEW i \in Slot, Answer(i)
  PROVE  SectionsInv'
<1> DEFINE r == http[i]
<1>0. i \in InFlight /\ StoreOK(db) /\ Placed(r) /\ Carries(r)
  BY DEF Answer, SectionsInv, RequestsOK, InFlight
<1>1. CASE Refuse(i)
  <2>1. UNCHANGED <<section, authRequired, query, ui, db>>
    BY <1>1 DEF Refuse, tab
  <2>2. \/ http' = [http EXCEPT ![i].ans = Unauthorized]
        \/ http' = [http EXCEPT ![i].ans = Failed]
    BY <1>1 DEF Refuse
  <2>3. StoreOK(db')
    BY <1>0, <2>1
  <2> QED BY <1>0, <2>1, <2>2, <2>3, AnsweredOK
<1>2. ASSUME NEW newdb, NEW a, Serve(i, newdb, a), StoreOK(newdb),
             r.op \notin {"load", "refetch", "texts"}
      PROVE  SectionsInv'
  BY <1>0, <1>2, ServeOK
<1>3. CASE r.op \in {"load", "poll", "refetch"} /\ Serve(i, db, Stores(r))
  <2>1. r.at = "users" => Stores(r) = r.arg.path
    BY DEF Stores, Ordered
  <2>2. r.at = "test-account" => Stores(r) = db.targets
    BY DEF Stores, Ordered
  <2>3. TargetsOK(db.targets) /\ WholeList(db.order)
    BY <1>0 DEF StoreOK
  <2>4. r.at \in Ordered => Stores(r) = db.order
    BY DEF Stores, Ordered
  <2> QED BY <1>0, <1>3, <2>1, <2>2, <2>3, <2>4, ServeOK
<1>4. CASE ServeAction(i)
  <2>1. StoreOK([db EXCEPT !.items = @ \ {r.arg.item}])
    BY <1>0 DEF StoreOK
  <2> QED BY <1>2, <1>4, <2>1 DEF ServeAction
<1>5. CASE ServeSubmit(i)
  <2>1. StoreOK(Stored(r.arg))
    BY <1>0 DEF StoreOK, Stored
  <2> QED BY <1>2, <1>5, <2>1 DEF ServeSubmit
<1>6. CASE ServeServer(i)
  <2>1. StoreOK([db EXCEPT !.servers = @ \ {r.arg.server}])
    BY <1>0 DEF StoreOK
  <2> QED BY <1>0, <1>2, <1>6, <2>1 DEF ServeServer
<1>7. CASE ServeOrder(i)
  <2>1. r.op = "order" => StoreOK([db EXCEPT !.order = r.arg.list])
    BY <1>0 DEF StoreOK, Carries
  <2> QED BY <1>2, <1>7, <2>1 DEF ServeOrder
<1>8. CASE ServeConnection(i)
  <2>1. \A c : StoreOK([db EXCEPT !.conn = c])
    BY <1>0 DEF StoreOK
  <2> QED BY <1>0, <1>2, <1>8, <2>1 DEF ServeConnection
<1>9. CASE ServeTrial(i)
  <2>1. r.op = "trial" => StoreOK([db EXCEPT !.targets = r.arg.targets])
    BY <1>0 DEF StoreOK, Carries
  <2> QED BY <1>0, <1>2, <1>9, <2>1 DEF ServeTrial
<1>10. CASE ServeTexts(i)
  <2>1. CASE r.op = "texts" /\ Serve(i, db, db.texts)
    <3>1. TextsOK(db.texts)
      BY <1>0 DEF StoreOK
    <3> QED BY <1>0, <2>1, <3>1, ServeOK
  <2>2. CASE r.op = "text" /\ Serve(i, [db EXCEPT !.texts[r.arg.key] = r.arg.text], Done)
    <3>1. r.arg.key \in Keys /\ r.arg.text[1] = r.arg.key
      BY <1>0, <2>2 DEF Carries
    <3>2. TextsOK([db.texts EXCEPT ![r.arg.key] = r.arg.text])
      BY <1>0, <3>1 DEF StoreOK, TextsOK
    <3>3. StoreOK([db EXCEPT !.texts[r.arg.key] = r.arg.text])
      BY <1>0, <3>2 DEF StoreOK
    <3> QED BY <1>2, <2>2, <3>3
  <2>3. CASE /\ r.op = "resettext"
             /\ Serve(i, [db EXCEPT !.texts = [k \in Keys |-> IF k \in r.arg.keys
                                                              THEN <<k, FALSE>> ELSE @[k]]], Done)
    <3> DEFINE t == [k \in Keys |-> IF k \in r.arg.keys THEN <<k, FALSE>> ELSE db.texts[k]]
    <3>1. TextsOK(t)
      BY <1>0 DEF StoreOK, TextsOK
    <3>2. StoreOK([db EXCEPT !.texts = t])
      BY <1>0, <3>1 DEF StoreOK
    <3> QED BY <1>2, <2>3, <3>2
  <2> QED BY <1>10, <2>1, <2>2, <2>3 DEF ServeTexts
<1>11. CASE ServeTest(i) \/ ServeBackup(i) \/ (r.op = "revenue" /\ Serve(i, db, Done))
  BY <1>0, <1>2, <1>11 DEF ServeTest, ServeBackup
<1> QED
  BY <1>1, <1>3, <1>4, <1>5, <1>6, <1>7, <1>8, <1>9, <1>10, <1>11 DEF Answer

-----------------------------------------------------------------------------
(* The replies.                                                            *)

\* A handler that sends at most one request and leaves the section in order.
LEMMA StepOK ==
  ASSUME SectionsInv, NEW h, RequestsOK(h, section, authRequired, ui, query),
         UNCHANGED <<section, authRequired, query, db>>,
         ScreenOK(section, authRequired, ui', query),
         section = "users" /\ ~authRequired => ui'.page = ui.page,
         \/ http' = h
         \/ \E op, at, arg : /\ http' = Put(h, Request(op, at, arg))
                             /\ MaySend(Request(op, at, arg), section, authRequired, ui', query)
  PROVE  SectionsInv'
<1>1. RequestsOK(h, section, authRequired, ui', query)
  BY MoveOK
<1>2. RequestsOK(http', section, authRequired, ui', query)
  BY <1>1, PutOK
<1> QED BY <1>2 DEF SectionsInv

\* The request of a reply leaves the others as they are.
LEMMA RemovedOK ==
  ASSUME SectionsInv, NEW i
  PROVE  RequestsOK(Remove(i), section, authRequired, ui, query)
  BY RemoveOK DEF SectionsInv

\* Behind the login notice there is no section.
LEMMA LoginOK ==
  ASSUME SectionsInv, NEW i, RequireLogin(Remove(i)), UNCHANGED db
  PROVE  SectionsInv'
<1>1. http' = Unmount(Remove(i)) /\ authRequired' = TRUE /\ UNCHANGED section
  BY DEF RequireLogin
<1>2. RequestsOK(http', section', authRequired', ui', query')
  BY <1>1, RemovedOK, UnmountOK
<1>3. ScreenOK(section', authRequired', ui', query')
  BY <1>1 DEF ScreenOK, Ordered
<1> QED BY <1>1, <1>2, <1>3 DEF SectionsInv

\* A reply that leads to the login notice, or that finds it there.
LEMMA AuthOK ==
  ASSUME SectionsInv, NEW i, AuthReply(i)
  PROVE  SectionsInv'
<1>1. CASE authRequired
  <2>1. http' = Remove(i) /\ UNCHANGED <<section, authRequired, query, ui, db>>
    BY <1>1 DEF AuthReply, tab
  <2>2. ScreenOK(section, authRequired, ui', query)
    BY <2>1 DEF SectionsInv
  <2> QED BY <1>1, <2>1, <2>2, RemovedOK, StepOK
<1>2. CASE ~authRequired
  BY <1>2, LoginOK DEF AuthReply
<1> QED BY <1>1, <1>2

\* The requests of the sections that have something to keep, and the shell's.
OwnOps == TextOps \cup ShellOps \cup {"restore", "trial", "order"}

\* A handler of a section that has nothing to keep.
Tracked ==
    {"users", "discounts", "connection", "backup", "test-account", "custom"} \cup Ordered
LEMMA OtherOK ==
  ASSUME SectionsInv, section \notin Tracked, NEW h,
         RequestsOK(h, section, authRequired, ui, query),
         UNCHANGED <<section, authRequired, query, db>>,
         \/ http' = h
         \/ \E op, arg : http' = Put(h, Request(op, section, arg)) /\ ~authRequired
                         /\ op \notin OwnOps
         \/ http' = StartLoad(h, section, ui, query) /\ ~authRequired
  PROVE  SectionsInv'
<1>1. ScreenOK(section, authRequired, ui', query) /\ section # "users" /\ section # "shell"
  BY DEF ScreenOK, Tracked, SectionsInv, SectionKeys, Ordered
<1>2. CASE http' = h
  BY <1>1, <1>2, StepOK
<1>3. ASSUME NEW op, NEW arg, http' = Put(h, Request(op, section, arg)), ~authRequired,
             op \notin OwnOps
      PROVE  SectionsInv'
  <2>1. MaySend(Request(op, section, arg), section, authRequired, ui', query)
    BY <1>1, <1>3 DEF MaySend, Request, Placed, Carries, Awaited, OwnOps, TextOps, ShellOps,
                      Tracked, Ordered
  <2> QED BY <1>1, <1>3, <2>1, StepOK
<1>4. CASE http' = StartLoad(h, section, ui, query) /\ ~authRequired
  <2>1. RequestsOK(http', section, authRequired, ui', query)
    BY <1>1, <1>4, LoadOK
  <2> QED BY <1>1, <2>1 DEF SectionsInv
<1> QED BY <1>2, <1>3, <1>4

\* The replies to what only other sections send.
LEMMA OtherReplyOK ==
  ASSUME SectionsInv, NEW i \in Slot,
         PollReply(i) \/ ResetRevenueReply(i) \/ ServerReply(i)
  PROVE  SectionsInv'
<1> DEFINE op == http[i].op
<1>1. /\ op \in {"poll", "revenue", "sync", "remove"}
      /\ http[i] # NoRequest /\ http[i].live
  BY DEF PollReply, ResetRevenueReply, ServerReply, Arrived, Live, InFlight
<1>2. ~authRequired /\ section \notin Tracked
  BY <1>1, Mounted DEF ShellOps, Placed, TextOps, Tracked, Ordered
<1>3. RequestsOK(Remove(i), section, authRequired, ui, query)
  BY RemovedOK
<1>4. ASSUME NEW u, Finish(i, u) PROVE SectionsInv'
  BY <1>2, <1>3, <1>4, OtherOK DEF Finish, tab
<1>5. ASSUME NEW u, NEW what, Refetch(i, u, what) PROVE SectionsInv'
  <2>1. "refetch" \notin OwnOps
    BY DEF OwnOps, TextOps, ShellOps
  <2> QED BY <1>2, <1>3, <1>5, <2>1, OtherOK DEF Refetch, tab
<1>6. CASE PollReply(i)
  BY <1>2, <1>3, <1>6, LoginOK, OtherOK DEF PollReply, tab
<1>7. CASE ResetRevenueReply(i)
  BY <1>2, <1>3, <1>7, OtherOK DEF ResetRevenueReply, tab
<1>8. CASE ServerReply(i)
  BY <1>4, <1>5, <1>8, AuthOK DEF ServerReply
<1> QED BY <1>6, <1>7, <1>8

\* The replies to the shell.
LEMMA ShellReplyOK ==
  ASSUME SectionsInv, NEW i \in Slot,
         LateReply(i) \/ ActionReply(i) \/ TestReply(i) \/ SubmitReply(i)
  PROVE  SectionsInv'
<1>1. RequestsOK(Remove(i), section, authRequired, ui, query)
  BY RemovedOK
<1>2. ASSUME http' = Remove(i), UNCHANGED <<section, authRequired, query, ui, db>>
      PROVE  SectionsInv'
  <2>1. ScreenOK(section, authRequired, ui', query) /\ ui' = ui
    BY <1>2 DEF SectionsInv
  <2> QED BY <1>1, <1>2, <2>1, StepOK
<1>3. ASSUME Reload(Remove(i)), UNCHANGED <<section, authRequired, query, db>>
      PROVE  SectionsInv'
  BY <1>1, <1>3, ReloadOK
<1>4. CASE LateReply(i)
  BY <1>2, <1>4, LoginOK DEF LateReply, tab
<1>5. CASE ActionReply(i)
  BY <1>2, <1>3, <1>5, AuthOK DEF ActionReply, AfterAction, tab
<1>6. CASE TestReply(i)
  BY <1>2, <1>6, AuthOK DEF TestReply, tab
<1>7. CASE SubmitReply(i)
  BY <1>2, <1>3, <1>7, AuthOK DEF SubmitReply, tab
<1> QED BY <1>4, <1>5, <1>6, <1>7

\* The request of a reply that ends there.
LEMMA FinishOK ==
  ASSUME SectionsInv, NEW i, NEW u, http' = Remove(i), ui' = u,
         UNCHANGED <<section, authRequired, query, db>>,
         ScreenOK(section, authRequired, u, query),
         section = "users" /\ ~authRequired => u.page = ui.page
  PROVE  SectionsInv'
  BY RemovedOK, StepOK

\* useApi's reply: the list that is shown is the one the section waits for.
LEMMA LoadReplyOK ==
  ASSUME SectionsInv, NEW i \in Slot, LoadReply(i, Filled(ui, http[i].ans))
  PROVE  SectionsInv'
<1> DEFINE r == http[i]
<1>1. r # NoRequest /\ r.op = "load" /\ r.live /\ r.ans # Waiting
  BY DEF LoadReply, Live, InFlight
<1>2. /\ ~authRequired /\ r.at = section /\ Placed(r) /\ Answered(r)
      /\ Awaited(r, section, authRequired, ui, query)
  BY <1>1, Mounted DEF ShellOps
<1>3. section # "custom"
  BY <1>1, <1>2 DEF Placed, TextOps, Ordered
<1>4. ScreenOK(section, authRequired, ui, query)
  BY DEF SectionsInv
<1>5. ASSUME r.ans \notin {Failed, Unauthorized}, ui' = Filled(ui, r.ans), http' = Remove(i),
             UNCHANGED <<section, authRequired, query, db>>
      PROVE  SectionsInv'
  <2>1. CASE section = "users"
    <3>1. r.ans = Path("users", ui.page, query)
      BY <1>1, <1>2, <1>5, <2>1 DEF Answered, Awaited
    <3>2. ui' = [ui EXCEPT !.data = r.ans, !.loading = FALSE]
      BY <1>5, <2>1 DEF Filled, Ordered
    <3>3. RowsOK(ui', query) /\ ui'.page = ui.page
      BY <1>2, <1>4, <2>1, <3>1, <3>2 DEF ScreenOK, RowsOK, Ordered
    <3>4. ScreenOK(section, authRequired, ui', query)
      BY <2>1, <3>3 DEF ScreenOK, Ordered
    <3> QED BY <1>5, <3>3, <3>4, FinishOK
  <2>2. CASE section = "backup"
    <3>1. ui' = [ui EXCEPT !.data = r.ans, !.loading = FALSE]
      BY <1>5, <2>2 DEF Filled, FilledBackup, Ordered
    <3>2. BackupOK(ui')
      BY <1>2, <1>4, <2>2, <3>1 DEF ScreenOK, BackupOK, Ordered
    <3>3. ScreenOK(section, authRequired, ui', query)
      BY <2>2, <3>2 DEF ScreenOK, Ordered
    <3> QED BY <1>5, <2>2, <3>3, FinishOK
  <2>3. CASE section = "test-account"
    <3>1. TargetsOK(r.ans)
      BY <1>1, <1>2, <1>5, <2>3 DEF Answered
    <3>2. ui' = [ui EXCEPT !.data = r.ans, !.loading = FALSE, !.targets = r.ans]
      BY <1>5, <2>3 DEF Filled, FilledTrial, Ordered
    <3>3. TrialOK(ui')
      BY <1>2, <1>4, <2>3, <3>1, <3>2 DEF ScreenOK, TrialOK, Ordered
    <3>4. ScreenOK(section, authRequired, ui', query)
      BY <2>3, <3>3 DEF ScreenOK, Ordered
    <3> QED BY <1>5, <2>3, <3>4, FinishOK
  <2>4. CASE section \notin Tracked
    BY <1>5, <2>4, RemovedOK, OtherOK
  <2>5. CASE section = "discounts"
    <3>1. ui' = [ui EXCEPT !.data = r.ans, !.loading = FALSE]
      BY <1>5, <2>5 DEF Filled, Ordered
    <3>2. ScreenOK(section, authRequired, ui', query)
      BY <1>2, <1>4, <2>5, <3>1 DEF ScreenOK, Ordered
    <3> QED BY <1>5, <2>5, <3>2, FinishOK
  <2>6. CASE section \in Ordered
    <3>1. WholeList(r.ans)
      BY <1>1, <1>2, <1>5, <2>6 DEF Answered
    <3>2. ui' = [ui EXCEPT !.data = r.ans, !.loading = FALSE, !.order = r.ans]
      BY <1>5, <2>6 DEF Filled, FilledOrder, Ordered
    <3>3. OrderedOK(ui')
      BY <1>2, <1>4, <2>6, <3>1, <3>2 DEF ScreenOK, OrderedOK
    <3>4. ScreenOK(section, authRequired, ui', query)
      BY <2>6, <3>3 DEF ScreenOK, Ordered
    <3> QED BY <1>5, <2>6, <3>4, FinishOK DEF Ordered
  <2>7. CASE section = "connection"
    <3>1. ui' = FilledConnection(ui, r.ans)
      BY <1>5, <2>7 DEF Filled, Ordered
    <3>2. ConnectionOK(ui')
      BY <1>2, <1>4, <2>7, <3>1, FilledConnectionOK DEF ScreenOK
    <3>3. ScreenOK(section, authRequired, ui', query)
      BY <2>7, <3>2 DEF ScreenOK, Ordered
    <3> QED BY <1>5, <2>7, <3>3, FinishOK
  <2> QED BY <1>3, <2>1, <2>2, <2>3, <2>4, <2>5, <2>6, <2>7 DEF Tracked
<1>6. ASSUME ui' = [ui EXCEPT !.error = TRUE, !.loading = FALSE], http' = Remove(i),
             UNCHANGED <<section, authRequired, query, db>>
      PROVE  SectionsInv'
  <2>1. section = "users" => RowsOK(ui', query) /\ ui'.page = ui.page
    BY <1>2, <1>4, <1>6 DEF ScreenOK, RowsOK, Ordered
  <2>2. section = "backup" => BackupOK(ui')
    BY <1>2, <1>4, <1>6 DEF ScreenOK, BackupOK, Ordered
  <2>3. section = "test-account" => TrialOK(ui')
    BY <1>2, <1>4, <1>6 DEF ScreenOK, TrialOK, Ordered
  <2>4. section = "discounts" => {"data", "loading", "error"} \subseteq DOMAIN ui'
    BY <1>2, <1>4, <1>6 DEF ScreenOK
  <2>5. section \in Ordered => OrderedOK(ui')
    BY <1>2, <1>4, <1>6 DEF ScreenOK, OrderedOK
  <2>6. section = "connection" => ConnectionOK(ui')
    BY <1>2, <1>4, <1>6 DEF ScreenOK, ConnectionOK
  <2>7. ScreenOK(section, authRequired, ui', query)
    BY <1>3, <2>1, <2>2, <2>3, <2>4, <2>5, <2>6 DEF ScreenOK
  <2> QED BY <1>6, <2>1, <2>7, FinishOK
<1> QED BY <1>5, <1>6, LoginOK DEF LoadReply, tab

\* A saved order: the list the server has stored is still whole.
LEMMA OrderReplyOK ==
  ASSUME SectionsInv, NEW i \in Slot, OrderReply(i)
  PROVE  SectionsInv'
<1> DEFINE r == http[i]
<1>1. r # NoRequest /\ r.op = "order" /\ r.live
  BY DEF OrderReply, Arrived, Live, InFlight
<1>2. ~authRequired /\ r.at = section /\ Placed(r) /\ Carries(r)
  BY <1>1, Mounted DEF ShellOps
<1>3. section \in Ordered \/ section \notin Tracked
  BY <1>1, <1>2 DEF Placed, TextOps, Tracked
<1>4. WholeList(r.arg.list) /\ (section \in Ordered => OrderedOK(ui))
  BY <1>1, <1>2 DEF SectionsInv, ScreenOK, Carries
<1>5. ASSUME NEW u, Finish(i, u), section \in Ordered => OrderedOK(u) PROVE SectionsInv'
  <2>1. CASE section \in Ordered
    BY <1>5, <2>1, FinishOK DEF Finish, tab, ScreenOK, Ordered
  <2>2. CASE section \notin Tracked
    BY <1>5, <2>2, RemovedOK, OtherOK DEF Finish, tab
  <2> QED BY <1>3, <2>1, <2>2
<1>6. OrderedOK(ui) => \A b : OrderedOK(Unlocked(ui, b))
  BY DEF OrderedOK, Unlocked
<1>7. OrderedOK(ui) =>
        OrderedOK(Unlocked([ui EXCEPT !.data = r.arg.list, !.order = r.arg.list], FALSE))
  BY <1>4 DEF OrderedOK, Unlocked
<1> QED BY <1>4, <1>5, <1>6, <1>7, AuthOK DEF OrderReply

\* The connection: the answer to a save, or the read after a test.
LEMMA ConnectionReplyOK ==
  ASSUME SectionsInv, NEW i \in Slot, ConnectionReply(i)
  PROVE  SectionsInv'
<1> DEFINE r == http[i]
<1>1. r # NoRequest /\ r.op = "connect" /\ r.live
  BY DEF ConnectionReply, Arrived, Live, InFlight
<1>2. ~authRequired /\ r.at = section /\ Placed(r)
  BY <1>1, Mounted DEF ShellOps
<1>3. section = "connection" \/ section \notin Tracked
  BY <1>1, <1>2 DEF Placed, TextOps, Tracked, Ordered
<1>4. ASSUME section = "connection" PROVE ConnectionOK(ui)
  BY <1>2, <1>4 DEF SectionsInv, ScreenOK
<1>5. ASSUME NEW u, Finish(i, u), section = "connection" => ConnectionOK(u) PROVE SectionsInv'
  <2>1. CASE section = "connection"
    BY <1>5, <2>1, FinishOK DEF Finish, tab, ScreenOK, Ordered
  <2>2. CASE section \notin Tracked
    BY <1>5, <2>2, RemovedOK, OtherOK DEF Finish, tab
  <2> QED BY <1>3, <2>1, <2>2
<1>6. ASSUME NEW what, Refetch(i, ui, what) PROVE SectionsInv'
  <2>1. /\ http' = Put(Remove(i), Request("refetch", section, [what |-> what])) /\ ui' = ui
        /\ UNCHANGED <<section, authRequired, query, db>>
    BY <1>6 DEF Refetch, tab
  <2>2. MaySend(Request("refetch", section, [what |-> what]), section, authRequired, ui, query)
    BY <1>2, <1>3 DEF MaySend, Request, Placed, Carries, Awaited, TextOps, Tracked, SectionsInv,
                      SectionKeys, Ordered
  <2>3. ScreenOK(section, authRequired, ui, query)
    BY DEF SectionsInv
  <2> QED BY <2>1, <2>2, <2>3, RemovedOK, StepOK
<1>7. ConnectionOK(ui) => ConnectionOK([ui EXCEPT !.busy = ""])
  BY DEF ConnectionOK
<1>8. ConnectionOK(ui) => ConnectionOK([ui EXCEPT !.form.secret = FALSE])
  BY DEF ConnectionOK
<1>9. ASSUME NEW u, ConnectionOK(u), NEW b
      PROVE  ConnectionOK([FilledConnection(u, r.ans) EXCEPT !.busy = "", !.loading = b])
  <2>1. ConnectionOK(FilledConnection(u, r.ans))
    BY <1>9, FilledConnectionOK
  <2> QED BY <2>1 DEF ConnectionOK
<1> QED BY <1>4, <1>5, <1>6, <1>7, <1>8, <1>9, AuthOK DEF ConnectionReply

\* Backup: the file and what was typed for it change together.
LEMMA BackupReplyOK ==
  ASSUME SectionsInv, NEW i \in Slot, BackupReply(i)
  PROVE  SectionsInv'
<1> DEFINE r == http[i]
<1>1. r # NoRequest /\ r.op \in {"backup", "restore"} /\ r.live
  BY DEF BackupReply, Arrived, Live, InFlight
<1>2. ~authRequired /\ r.at = section /\ Placed(r)
  BY <1>1, Mounted DEF ShellOps
<1>3. section = "backup" \/ section \notin Tracked
  BY <1>1, <1>2 DEF Placed, TextOps, Tracked, Ordered
<1>4. ASSUME section = "backup" PROVE BackupOK(ui)
  BY <1>2, <1>4 DEF SectionsInv, ScreenOK, Ordered
<1>5. ASSUME NEW u, Finish(i, u), section = "backup" => BackupOK(u) PROVE SectionsInv'
  <2>1. CASE section = "backup"
    BY <1>5, <2>1, FinishOK DEF Finish, tab, ScreenOK, Ordered
  <2>2. CASE section \notin Tracked
    BY <1>5, <2>2, RemovedOK, OtherOK DEF Finish, tab
  <2> QED BY <1>3, <2>1, <2>2
<1>6. ASSUME NEW what, Refetch(i, ui, what) PROVE SectionsInv'
  <2>1. /\ http' = Put(Remove(i), Request("refetch", section, [what |-> what])) /\ ui' = ui
        /\ UNCHANGED <<section, authRequired, query, db>>
    BY <1>6 DEF Refetch, tab
  <2>2. MaySend(Request("refetch", section, [what |-> what]), section, authRequired, ui, query)
    BY <1>2, <1>3 DEF MaySend, Request, Placed, Carries, Awaited, TextOps, Tracked, SectionsInv,
                      SectionKeys, Ordered
  <2>3. ScreenOK(section, authRequired, ui, query)
    BY DEF SectionsInv
  <2> QED BY <2>1, <2>2, <2>3, RemovedOK, StepOK
<1>7. BackupOK(ui) => BackupOK([ui EXCEPT !.busy = ""])
  BY DEF BackupOK
<1>8. BackupOK(ui) => BackupOK([ui EXCEPT !.file = None, !.typed = {}, !.need = {}, !.busy = ""])
  BY DEF BackupOK
<1>9. \A k : BackupOK(ui) => BackupOK([ui EXCEPT !.need = @ \cup k, !.busy = ""])
  BY DEF BackupOK
<1> QED BY <1>4, <1>5, <1>6, <1>7, <1>8, <1>9, AuthOK DEF BackupReply

\* The test account: what was saved is read again.
LEMMA TrialReplyOK ==
  ASSUME SectionsInv, NEW i \in Slot, TrialReply(i)
  PROVE  SectionsInv'
<1> DEFINE r == http[i]
<1>1. r # NoRequest /\ r.op \in {"trial", "trialreset"} /\ r.live
  BY DEF TrialReply, Arrived, Live, InFlight
<1>2. ~authRequired /\ r.at = section /\ Placed(r)
  BY <1>1, Mounted DEF ShellOps
<1>3. section = "test-account" \/ section \notin Tracked
  BY <1>1, <1>2 DEF Placed, TextOps, Tracked, Ordered
<1>4. ASSUME section = "test-account" PROVE TrialOK(ui)
  BY <1>2, <1>4 DEF SectionsInv, ScreenOK, Ordered
<1>5. ASSUME NEW u, Finish(i, u), section = "test-account" => TrialOK(u) PROVE SectionsInv'
  <2>1. CASE section = "test-account"
    BY <1>5, <2>1, FinishOK DEF Finish, tab, ScreenOK, Ordered
  <2>2. CASE section \notin Tracked
    BY <1>5, <2>2, RemovedOK, OtherOK DEF Finish, tab
  <2> QED BY <1>3, <2>1, <2>2
<1>6. ASSUME NEW what, Refetch(i, ui, what) PROVE SectionsInv'
  <2>1. /\ http' = Put(Remove(i), Request("refetch", section, [what |-> what])) /\ ui' = ui
        /\ UNCHANGED <<section, authRequired, query, db>>
    BY <1>6 DEF Refetch, tab
  <2>2. MaySend(Request("refetch", section, [what |-> what]), section, authRequired, ui, query)
    BY <1>2, <1>3 DEF MaySend, Request, Placed, Carries, Awaited, TextOps, Tracked, SectionsInv,
                      SectionKeys, Ordered
  <2>3. ScreenOK(section, authRequired, ui, query)
    BY DEF SectionsInv
  <2> QED BY <2>1, <2>2, <2>3, RemovedOK, StepOK
<1>7. TrialOK(ui) => TrialOK(Unlocked(ui, TRUE))
  BY DEF TrialOK, Unlocked
<1> QED BY <1>4, <1>5, <1>6, <1>7, AuthOK DEF TrialReply

\* The read after the POST replaces what is shown, and no draft of a backup.
LEMMA RefetchReplyOK ==
  ASSUME SectionsInv, NEW i \in Slot, RefetchReply(i)
  PROVE  SectionsInv'
<1> DEFINE r == http[i]
<1>1. r # NoRequest /\ r.op = "refetch" /\ r.live /\ r.ans # Waiting
  BY DEF RefetchReply, Arrived, Live, InFlight
<1>2. ~authRequired /\ r.at = section /\ Placed(r) /\ Answered(r)
  BY <1>1, Mounted DEF ShellOps
<1>3. section \in {"backup", "test-account", "connection"} \/ section \notin Tracked
  BY <1>1, <1>2 DEF Placed, TextOps, Tracked, Ordered
<1>4. /\ section = "backup" => BackupOK(ui)
      /\ section = "test-account" => TrialOK(ui)
      /\ section = "connection" => ConnectionOK(ui)
  BY <1>2 DEF SectionsInv, ScreenOK, Ordered
<1>5. ASSUME NEW u, Finish(i, u), section = "backup" => BackupOK(u),
             section = "test-account" => TrialOK(u), section = "connection" => ConnectionOK(u)
      PROVE  SectionsInv'
  <2>1. CASE section \in {"backup", "test-account", "connection"}
    BY <1>5, <2>1, FinishOK DEF Finish, tab, ScreenOK, Ordered
  <2>2. CASE section \notin Tracked
    BY <1>5, <2>2, RemovedOK, OtherOK DEF Finish, tab
  <2> QED BY <1>3, <2>1, <2>2
<1>6. ASSUME NEW u, NEW what
      PROVE  /\ section = "backup" /\ BackupOK(u) => BackupOK(Ended(u, what))
             /\ section = "test-account" /\ TrialOK(u) => TrialOK(Ended(u, what))
             /\ section = "connection" /\ ConnectionOK(u) => ConnectionOK(Ended(u, what))
  <2>1. section \in {"backup", "test-account", "connection"} =>
          Ended(u, what) \in {[u EXCEPT !.saving = FALSE], u, [u EXCEPT !.busy = ""]}
    BY DEF Ended, Unlocked
  <2>2. BackupOK(u) => BackupOK([u EXCEPT !.saving = FALSE]) /\ BackupOK([u EXCEPT !.busy = ""])
    BY DEF BackupOK
  <2>3. TrialOK(u) => TrialOK([u EXCEPT !.saving = FALSE]) /\ TrialOK([u EXCEPT !.busy = ""])
    BY DEF TrialOK
  <2>4. ConnectionOK(u) => ConnectionOK([u EXCEPT !.saving = FALSE])
                           /\ ConnectionOK([u EXCEPT !.busy = ""])
    BY DEF ConnectionOK
  <2> QED BY <2>1, <2>2, <2>3, <2>4
<1>7. ASSUME section = "backup" PROVE BackupOK(Refetched(ui, r.ans))
  BY <1>4, <1>7 DEF Refetched, BackupOK
<1>8. ASSUME section = "test-account", ~Refused(i) PROVE TrialOK(Refetched(ui, r.ans))
  <2>1. TargetsOK(r.ans)
    BY <1>1, <1>2, <1>8 DEF Answered, Refused
  <2>2. Refetched(ui, r.ans) = [ui EXCEPT !.data = r.ans, !.targets = r.ans]
    BY <1>8 DEF Refetched
  <2> QED BY <1>4, <1>8, <2>1, <2>2 DEF TrialOK
<1>9. ASSUME section = "connection" PROVE ConnectionOK(Refetched(ui, r.ans))
  <2>1. ConnectionOK(FilledConnection(ui, r.ans))
    BY <1>4, <1>9, FilledConnectionOK
  <2>2. Refetched(ui, r.ans) = [FilledConnection(ui, r.ans) EXCEPT !.loading = ui.loading]
    BY <1>9 DEF Refetched
  <2> QED BY <2>1, <2>2 DEF ConnectionOK
<1> QED BY <1>4, <1>5, <1>6, <1>7, <1>8, <1>9, AuthOK DEF RefetchReply

\* Custom texts: a save or a reset that is done loads the texts again.
LEMMA TextReplyOK ==
  ASSUME SectionsInv, NEW i \in Slot, TextReply(i)
  PROVE  SectionsInv'
<1> DEFINE r == http[i]
<1>1. r # NoRequest /\ r.op \in {"text", "resettext"} /\ r.live
  BY DEF TextReply, Live, InFlight
<1>2. ~authRequired /\ r.at = section /\ section = "custom"
  BY <1>1, Mounted DEF ShellOps, Placed, TextOps, Ordered
<1>3. EditorOK(ui) /\ ScreenOK(section, authRequired, ui, query)
  BY <1>2 DEF SectionsInv, ScreenOK, Ordered
<1>4. ASSUME NEW arg, http' = Put(Remove(i), Request("texts", section, arg)),
             UNCHANGED <<section, authRequired, query, ui, db>>
      PROVE  SectionsInv'
  <2>1. MaySend(Request("texts", section, arg), section, authRequired, ui, query)
    BY <1>2 DEF MaySend, Request, Placed, Carries, Awaited, TextOps, Ordered
  <2> QED BY <1>3, <1>4, <2>1, RemovedOK, StepOK
<1>5. \A b : EditorOK([ui EXCEPT !.saving = b])
  BY <1>3 DEF EditorOK
<1>6. ASSUME NEW b, http' = Remove(i), ui' = [ui EXCEPT !.saving = b],
             UNCHANGED <<section, authRequired, query, db>>
      PROVE  SectionsInv'
  BY <1>2, <1>5, <1>6, FinishOK DEF ScreenOK, Ordered
<1> QED BY <1>4, <1>6, AuthOK DEF TextReply, tab

\* A load of the texts, the latest or an older one: a draft that is replaced is
\* replaced together with the key it is for.
LEMMA TextsReplyOK ==
  ASSUME SectionsInv, NEW i \in Slot, TextsReply(i)
  PROVE  SectionsInv'
<1> DEFINE r == http[i]
           u == [ui EXCEPT !.loading = FALSE, !.saving = @ /\ ~r.arg.saves]
           key == IF r.arg.key \in Keys THEN r.arg.key ELSE FirstOf(Keys)
           w == [u EXCEPT !.data = r.ans, !.selected = key, !.error = FALSE]
<1>1. r # NoRequest /\ r.op = "texts" /\ r.live /\ r.ans # Waiting
  BY DEF TextsReply, Live, InFlight
<1>2. ~authRequired /\ r.at = section /\ section = "custom" /\ Answered(r)
  BY <1>1, Mounted DEF ShellOps, Placed, TextOps, Ordered
<1>3. EditorOK(ui)
  BY <1>2 DEF SectionsInv, ScreenOK, Ordered
<1>4. EditorOK(u)
  BY <1>3 DEF EditorOK
<1>5. ASSUME NEW x, EditorOK(x), http' = Remove(i), ui' = x,
             UNCHANGED <<section, authRequired, query, db>>
      PROVE  SectionsInv'
  BY <1>2, <1>5, FinishOK DEF ScreenOK, Ordered
<1>6. CASE /\ r.ans \notin {Failed, Unauthorized} /\ ui' = Settled(w)
           /\ http' = Remove(i) /\ UNCHANGED <<tab, dialog, db>>
  <2>1. TextsOK(r.ans)
    BY <1>1, <1>2, <1>6 DEF Answered
  <2> HIDE DEF u
  <2>2. EditorOK(w) /\ w.data = r.ans
    BY <1>4, <2>1 DEF EditorOK
  <2>3. EditorOK(Settled(w))
    BY <2>1, <2>2, SettledOK
  <2> QED BY <1>5, <1>6, <2>3 DEF tab
<1>7. CASE /\ ui' = [u EXCEPT !.error = u.data = None]
           /\ http' = Remove(i) /\ UNCHANGED <<tab, dialog, db>>
  <2> HIDE DEF u
  <2>1. EditorOK([u EXCEPT !.error = u.data = None])
    BY <1>4 DEF EditorOK
  <2> QED BY <1>5, <1>7, <2>1 DEF tab
<1> QED BY <1>6, <1>7, AuthOK DEF TextsReply

-----------------------------------------------------------------------------
(* What the owner does.                                                    *)

\* Whichever section is opened, nothing of the one before is left in it.
LEMMA OpenSectionOK ==
  ASSUME SectionsInv, NEW s, OpenSection(s, Fresh(s))
  PROVE  SectionsInv'
<1>1. /\ s \in SectionKeys /\ ~authRequired /\ section' = s /\ ui' = Fresh(s)
      /\ http' = StartLoad(Unmount(http), s, Fresh(s), query)
      /\ UNCHANGED <<query, authRequired, db>>
  BY DEF OpenSection
<1>2. RequestsOK(Unmount(http), s, authRequired, ui', query)
  BY UnmountOK DEF SectionsInv
<1>3. s # "shell"
  BY <1>1 DEF SectionKeys
<1>4. RequestsOK(http', s, authRequired, ui', query)
  BY <1>1, <1>2, <1>3, FreshOK, LoadOK
<1>5. ScreenOK(s, authRequired, ui', query)
  BY <1>1, FreshOK
<1> QED BY <1>1, <1>4, <1>5 DEF SectionsInv

\* The panel that is loaded anew after the login.
LEMMA LoginAgainOK ==
  ASSUME SectionsInv, LoginAgain(Fresh(section))
  PROVE  SectionsInv'
<1> DEFINE none == [i \in Slot |-> NoRequest]
<1>1. /\ ~authRequired' /\ query' = "" /\ ui' = Fresh(section)
      /\ http' = StartLoad(none, section, Fresh(section), "")
      /\ UNCHANGED <<section, db>>
  BY DEF LoginAgain
<1>2. RequestsOK(none, section, authRequired', ui', "")
  BY NothingOK
<1>3. section # "shell"
  BY DEF SectionsInv, SectionKeys
<1> HIDE DEF none
<1>4. RequestsOK(http', section, authRequired', ui', "")
  BY <1>1, <1>2, <1>3, FreshOK, LoadOK
<1>5. ScreenOK(section, authRequired', ui', "")
  BY <1>1, FreshOK
<1> QED BY <1>1, <1>4, <1>5 DEF SectionsInv

\* The list of another page or search is not on screen before it has come.
LEMMA RowsLoadOK ==
  ASSUME SectionsInv, section = "users", ~authRequired, NEW p,
         http' = StartLoad(http, "users", [ui EXCEPT !.page = p], query'),
         ui' = [StartLoading(ui) EXCEPT !.page = p],
         UNCHANGED <<section, authRequired, db>>
  PROVE  SectionsInv'
<1>1. {"data", "loading", "error", "page"} \subseteq DOMAIN ui
  BY DEF SectionsInv, ScreenOK, RowsOK, Ordered
<1>2. ui'.page = p /\ ui'.page = PageOf([ui EXCEPT !.page = p])
  BY <1>1, StartLoadingOK DEF PageOf
<1>3. RequestsOK(http', section, authRequired, ui', query')
  BY <1>2, LoadOK DEF SectionsInv
<1>4. RowsOK(ui', query')
  BY StartLoadingOK DEF RowsOK
<1>5. ScreenOK(section, authRequired, ui', query')
  BY <1>4 DEF ScreenOK, Ordered
<1> QED BY <1>3, <1>5 DEF SectionsInv

\* A step that leaves the requests and the section alone.
LEMMA StillOK ==
  ASSUME SectionsInv, UNCHANGED <<section, authRequired, query, ui, http, db>>
  PROVE  SectionsInv'
  BY DEF SectionsInv

\* A search in any other list changes what it shows, not what it loads.
LEMMA SetQueryOK ==
  ASSUME SectionsInv, NEW q, SetQuery(q)
  PROVE  SectionsInv'
<1>1. CASE section = "users"
  BY <1>1, RowsLoadOK DEF SetQuery
<1>2. CASE section # "users"
  <2>1. UNCHANGED <<section, authRequired, ui, http, db>>
    BY <1>2 DEF SetQuery
  <2>2. RequestsOK(http, section, authRequired, ui, query')
    BY <1>2, MoveOK DEF SectionsInv
  <2>3. ScreenOK(section, authRequired, ui, query')
    BY <1>2 DEF SectionsInv, ScreenOK, Ordered
  <2> QED BY <2>1, <2>2, <2>3 DEF SectionsInv
<1> QED BY <1>1, <1>2

\* The shell sends a request of its own.
LEMMA ShellSendsOK ==
  ASSUME SectionsInv, NEW op \in ShellOps, NEW arg,
         http' = Put(http, Request(op, "shell", arg)),
         UNCHANGED <<section, authRequired, query, ui, db>>
  PROVE  SectionsInv'
<1>1. section # "shell" /\ RequestsOK(http, section, authRequired, ui, query)
  BY DEF SectionsInv, SectionKeys
<1>2. MaySend(Request(op, "shell", arg), section, authRequired, ui, query)
  BY DEF MaySend, Request, Placed, Carries, Awaited, TextOps, ShellOps, Ordered
<1>3. RequestsOK(http', section, authRequired, ui, query)
  BY <1>1, <1>2, PutOK
<1> QED BY <1>3 DEF SectionsInv

\* Everything that is done outside the forms and the sections.
LEMMA BrowseOK ==
  ASSUME SectionsInv, Browse
  PROVE  SectionsInv'
<1>0. RequestsOK(http, section, authRequired, ui, query)
  BY DEF SectionsInv
<1>1. ASSUME Reload(http), UNCHANGED <<tab, db>> PROVE SectionsInv'
  BY <1>0, <1>1, ReloadOK DEF tab
<1>2. ASSUME section = "dashboard", Poll, UNCHANGED <<section, authRequired, query, db>>,
             ~authRequired
      PROVE  SectionsInv'
  <2>1. "poll" \notin OwnOps
    BY DEF OwnOps, TextOps, ShellOps
  <2> QED BY <1>0, <1>2, <2>1, OtherOK DEF Poll, Tracked, Ordered
<1>3. CASE PollTick
  BY <1>2, <1>3 DEF PollTick, CanPoll, tab
<1>4. CASE ToggleVisible
  <2>1. CASE ~visible /\ CanPoll
    BY <1>2, <1>4, <2>1 DEF ToggleVisible, CanPoll
  <2>2. CASE ~(~visible /\ CanPoll)
    BY <1>4, <2>2, StillOK DEF ToggleVisible
  <2> QED BY <2>1, <2>2
<1>5. CASE ResetRevenue
  <2>1. "revenue" \notin OwnOps
    BY DEF OwnOps, TextOps, ShellOps
  <2>2. /\ section = "dashboard" /\ ~authRequired
        /\ http' = Put(http, Request("revenue", section, None))
        /\ UNCHANGED <<section, authRequired, query, db>>
    BY <1>5 DEF ResetRevenue, Usable, tab
  <2>3. section \notin Tracked
    BY <2>2 DEF Tracked, Ordered
  <2> QED BY <1>0, <2>1, <2>2, <2>3, OtherOK
<1>6. ASSUME NEW x, RunAction(x) PROVE SectionsInv'
  <2>1. /\ http' = Put(http, Request("action", "shell", [item |-> x]))
        /\ UNCHANGED <<section, authRequired, query, ui, db>>
    BY <1>6 DEF RunAction, tab
  <2> QED BY <2>1, ShellSendsOK DEF ShellOps
<1>7. CASE SessionEnds
  BY <1>7, StillOK DEF SessionEnds
<1>8. ASSUME NEW p, TurnPage(p) PROVE SectionsInv'
  BY <1>8, RowsLoadOK DEF TurnPage, Usable, tab
<1>9. CASE Refresh \/ RefreshCycle
  BY <1>1, <1>9 DEF Refresh, RefreshCycle
<1> QED
  BY <1>3, <1>4, <1>5, <1>6, <1>7, <1>8, <1>9, OpenSectionOK, LoginAgainOK, SetQueryOK DEF Browse

\* A handler that is given up leaves its request in order.
LEMMA DroppedOK ==
  ASSUME NEW s, NEW a, NEW u, NEW q, RequestsOK(http, s, a, u, q), NEW S \in SUBSET Live("test")
  PROVE  RequestsOK([i \in Slot |-> IF i \in S THEN [http[i] EXCEPT !.live = FALSE] ELSE http[i]],
                    s, a, u, q)
<1> DEFINE g == [i \in Slot |-> IF i \in S THEN [http[i] EXCEPT !.live = FALSE] ELSE http[i]]
<1>1. ASSUME NEW i \in Slot, i \in S
      PROVE  g[i] = [op |-> http[i].op, at |-> http[i].at, arg |-> http[i].arg,
                     ans |-> http[i].ans, live |-> FALSE]
  <2>1. http[i] = [op |-> http[i].op, at |-> http[i].at, arg |-> http[i].arg,
                   ans |-> http[i].ans, live |-> http[i].live]
    BY <1>1 DEF RequestsOK, Typed, Live, InFlight
  <2>2. g[i] = [http[i] EXCEPT !.live = FALSE]
    BY <1>1
  <2> QED BY <2>1, <2>2
<1>2. \A i \in Slot : i \notin S => g[i] = http[i]
  OBVIOUS
<1>3. g = [i \in Slot |-> g[i]]
  OBVIOUS
<1> HIDE DEF g
<1>4. ASSUME NEW i \in Slot, i \in S
      PROVE  /\ Placed(g[i]) /\ Carries(g[i]) /\ Answered(g[i]) /\ Awaited(g[i], s, a, u, q)
             /\ g[i] = [op |-> g[i].op, at |-> g[i].at, arg |-> g[i].arg,
                        ans |-> g[i].ans, live |-> g[i].live]
  <2>1. g[i] = [op |-> http[i].op, at |-> http[i].at, arg |-> http[i].arg,
                ans |-> http[i].ans, live |-> FALSE]
    BY <1>1, <1>4
  <2>2. /\ g[i].op = http[i].op /\ g[i].at = http[i].at /\ g[i].arg = http[i].arg
        /\ g[i].ans = http[i].ans /\ g[i].live = FALSE
    BY <2>1
  <2>3. Placed(http[i]) /\ Carries(http[i]) /\ Answered(http[i]) /\ http[i].op = "test"
    BY <1>4 DEF RequestsOK, Live, InFlight
  <2>4. Placed(g[i]) /\ Carries(g[i]) /\ Answered(g[i]) /\ Awaited(g[i], s, a, u, q)
    BY <2>2, <2>3 DEF Placed, Carries, Answered, Awaited, Ordered
  <2> QED BY <2>1, <2>2, <2>4
<1>5. Typed(g)
  BY <1>2, <1>3, <1>4 DEF RequestsOK, Typed
<1>6. RequestsOK(g, s, a, u, q)
  BY <1>2, <1>4, <1>5 DEF RequestsOK
<1> QED BY <1>6 DEF g

\* The dialog shares nothing with the section behind it.
LEMMA UseFormOK ==
  ASSUME SectionsInv, UseForm
  PROVE  SectionsInv'
<1>1. CASE TestServer
  <2>1. /\ http' = Put(http, Request("test", "shell", None))
        /\ UNCHANGED <<section, authRequired, query, ui, db>>
    BY <1>1 DEF TestServer, tab
  <2> QED BY <2>1, ShellSendsOK DEF ShellOps
<1>2. CASE SubmitForm
  <2>1. /\ http' = Put(http, Request("submit", "shell", [form |-> dialog.form, v |-> Sent(dialog)]))
        /\ UNCHANGED <<section, authRequired, query, ui, db>>
    BY <1>2 DEF SubmitForm, tab
  <2> QED BY <2>1, ShellSendsOK DEF ShellOps
<1>3. CASE CloseForm
  <2>1. UNCHANGED <<section, authRequired, query, ui, db>>
    BY <1>3 DEF CloseForm, tab
  <2>2. RequestsOK(http', section, authRequired, ui, query)
    BY <1>3, DroppedOK DEF CloseForm, SectionsInv
  <2> QED BY <2>1, <2>2 DEF SectionsInv
<1>4. ASSUME NEW v, Put1(v) PROVE SectionsInv'
  BY <1>4, StillOK DEF Put1, tab
<1>5. ASSUME NEW s, NEW v, OpenForm(s, v) PROVE SectionsInv'
  BY <1>5, StillOK DEF OpenForm
<1> QED
  BY <1>1, <1>2, <1>3, <1>4, <1>5
  DEF UseForm, ChangeType, ChangeServer, ChangeMode, ToggleInbound, ToggleServer,
      SetResellerPolicy

\* A section edits what it holds.
LEMMA EditOK ==
  ASSUME SectionsInv, ScreenOK(section, authRequired, ui', query), section # "users",
         UNCHANGED <<section, authRequired, query, http, db>>
  PROVE  SectionsInv'
<1>1. RequestsOK(http, section, authRequired, ui, query)
  BY DEF SectionsInv
<1> QED BY <1>1, StepOK

\* A section sends a request of its own.
LEMMA SendOK ==
  ASSUME SectionsInv, ~authRequired, section # "users",
         ScreenOK(section, authRequired, ui', query),
         NEW op, NEW arg, http' = Put(http, Request(op, section, arg)),
         Placed(Request(op, section, arg)), Carries(Request(op, section, arg)),
         UNCHANGED <<section, authRequired, query, db>>
  PROVE  SectionsInv'
<1>1. RequestsOK(http, section, authRequired, ui, query)
  BY DEF SectionsInv
<1>2. MaySend(Request(op, section, arg), section, authRequired, ui', query)
  BY DEF MaySend, Request, Awaited
<1> QED BY <1>1, <1>2, StepOK

\* The servers have nothing to keep.
LEMMA ServerActsOK ==
  ASSUME SectionsInv, \E x : RefreshOne(x) \/ DeleteServer(x)
  PROVE  SectionsInv'
<1>1. RequestsOK(http, section, authRequired, ui, query)
  BY DEF SectionsInv
<1>2. section \notin Tracked /\ ~authRequired
  BY DEF RefreshOne, DeleteServer, Usable, Tracked, Ordered
<1>3. ASSUME NEW u, NEW op \in {"sync", "remove"}, NEW arg, Send(u, op, arg)
      PROVE  SectionsInv'
  <2>1. op \notin OwnOps
    BY DEF OwnOps, TextOps, ShellOps
  <2> QED BY <1>1, <1>2, <1>3, <2>1, OtherOK DEF Send, tab
<1> QED BY <1>3 DEF RefreshOne, DeleteServer

\* A drop sends the whole list, whatever part of it a search shows.
LEMMA DropOK ==
  ASSUME SectionsInv, NEW s \in Ordered, NEW x \in Items, NEW y \in Items, Drop(s, x, y)
  PROVE  SectionsInv'
<1> DEFINE next == Moved(Reordered(s), x, y)
           u == [ui EXCEPT !.saving = TRUE, !.order = IF s = "service-types" THEN @ ELSE next]
<1>1. section = s /\ ~authRequired /\ ui.data # None
  BY DEF Drop, Usable
<1>2. OrderedOK(ui) /\ WholeList(Reordered(s))
  BY <1>1 DEF SectionsInv, ScreenOK, OrderedOK, Reordered
<1>3. WholeList(next)
  BY <1>2, MovedOK
<1>4. Send(u, "order", [list |-> next])
  BY DEF Drop
<1> HIDE DEF next
<1>5. OrderedOK(u)
  BY <1>2, <1>3 DEF OrderedOK
<1> HIDE DEF u
<1>6. ScreenOK(section, authRequired, ui', query)
  BY <1>1, <1>4, <1>5 DEF Send, ScreenOK, Ordered
<1>7. /\ Placed(Request("order", section, [list |-> next]))
      /\ Carries(Request("order", section, [list |-> next]))
  BY <1>1, <1>3 DEF Placed, Carries, Request, TextOps, Ordered
<1>8. section # "users"
  BY <1>1 DEF Ordered
<1> QED BY <1>1, <1>4, <1>6, <1>7, <1>8, SendOK DEF Send, tab

\* The connection is typed into, tested and saved.
LEMMA ConnectionActsOK ==
  ASSUME SectionsInv,
         \/ \E v, t : TypeConnection([value |-> v, secret |-> t])
         \/ \E k : SendConnection(k)
  PROVE  SectionsInv'
<1>1. section = "connection" /\ ~authRequired
  BY DEF TypeConnection, SendConnection, Usable
<1>2. ConnectionOK(ui)
  BY <1>1 DEF SectionsInv, ScreenOK
<1>3. ASSUME NEW v, NEW t, TypeConnection([value |-> v, secret |-> t]) PROVE SectionsInv'
  <2>1. ConnectionOK([ui EXCEPT !.form = [value |-> v, secret |-> t]])
    BY <1>2 DEF ConnectionOK
  <2> QED BY <1>1, <1>3, <2>1, EditOK DEF TypeConnection, Edit, ScreenOK, Ordered, tab
<1>4. ASSUME NEW k, SendConnection(k) PROVE SectionsInv'
  <2> DEFINE arg == [kind |-> k, value |-> ui.form.value]
  <2>1. ConnectionOK([ui EXCEPT !.busy = k])
    BY <1>2 DEF ConnectionOK
  <2>2. Send([ui EXCEPT !.busy = k], "connect", arg)
    BY <1>4 DEF SendConnection
  <2> HIDE DEF arg
  <2>3. ScreenOK(section, authRequired, ui', query)
    BY <1>1, <2>1, <2>2 DEF Send, ScreenOK, Ordered
  <2>4. Placed(Request("connect", section, arg)) /\ Carries(Request("connect", section, arg))
    BY <1>1 DEF Placed, Carries, Request, TextOps, Ordered
  <2> QED BY <1>1, <2>2, <2>3, <2>4, SendOK DEF Send, tab
<1> QED BY <1>3, <1>4

\* Backup: choosing a file empties the secrets, and a secret is typed for the
\* file that is chosen.
LEMMA BackupActsOK ==
  ASSUME SectionsInv, section = "backup", ~authRequired,
         \/ \E k : RunBackup(k) \/ TypeSecret(k)
         \/ \E f : ChooseFile(f)
         \/ RestoreBackup
  PROVE  SectionsInv'
<1>1. BackupOK(ui)
  BY DEF SectionsInv, ScreenOK, Ordered
<1>2. ASSUME NEW u, BackupOK(u), Edit(u) PROVE SectionsInv'
  BY <1>2, EditOK DEF Edit, ScreenOK, tab, Ordered
<1>3. ASSUME NEW k, BackupOK([ui EXCEPT !.busy = k]), NEW op \in {"backup", "restore"}, NEW arg,
             Send([ui EXCEPT !.busy = k], op, arg), Carries(Request(op, section, arg))
      PROVE  SectionsInv'
  <2>1. Placed(Request(op, section, arg))
    BY DEF Placed, Request, TextOps, Ordered
  <2>2. ScreenOK(section, authRequired, ui', query)
    BY <1>3 DEF Send, ScreenOK, Ordered
  <2> QED BY <1>3, <2>1, <2>2, SendOK DEF Send, tab
<1>4. \A k : BackupOK([ui EXCEPT !.busy = k])
  BY <1>1 DEF BackupOK
<1>5. ASSUME NEW k, RunBackup(k) PROVE SectionsInv'
  <2>1. Carries(Request("backup", section, [what |-> k]))
    BY DEF Carries, Request
  <2> QED BY <1>3, <1>4, <1>5, <2>1 DEF RunBackup
<1>6. CASE RestoreBackup
  <2>1. Carries(Request("restore", section, [file |-> ui.file, typed |-> ui.typed]))
    BY <1>1 DEF Carries, Request, BackupOK
  <2> QED BY <1>3, <1>4, <1>6, <2>1 DEF RestoreBackup
<1>7. ASSUME NEW f, ChooseFile(f) PROVE SectionsInv'
  <2>1. BackupOK([ui EXCEPT !.file = f, !.typed = {}, !.need = {}])
    BY <1>1 DEF BackupOK
  <2>2. Edit([ui EXCEPT !.file = f, !.typed = {}, !.need = {}])
    BY <1>7 DEF ChooseFile, TypedAfterChoice
  <2> QED BY <1>2, <2>1, <2>2
<1>8. ASSUME NEW k, TypeSecret(k) PROVE SectionsInv'
  <2>1. BackupOK([ui EXCEPT !.typed = {t \in ui.typed : t[1] # k} \cup {<<k, ui.file>>}])
    BY <1>1 DEF BackupOK
  <2> QED BY <1>2, <1>8, <2>1 DEF TypeSecret
<1> QED BY <1>5, <1>6, <1>7, <1>8

\* The test account: a server joins with its own inbounds, and the switch of
\* an inbound is only offered for the server it is of.
LEMMA TrialActsOK ==
  ASSUME SectionsInv, section = "test-account", ~authRequired,
         \/ \E x : ChooseTarget(x)
         \/ \E x : \E b \in InboundsAt(x) : ToggleTarget(x, b)
         \/ SaveTrial \/ ResetTrial
  PROVE  SectionsInv'
<1>1. TrialOK(ui)
  BY DEF SectionsInv, ScreenOK, Ordered
<1>2. ASSUME NEW f, TargetsOK(f), Edit([ui EXCEPT !.targets = f]) PROVE SectionsInv'
  <2>1. TrialOK([ui EXCEPT !.targets = f])
    BY <1>1, <1>2 DEF TrialOK
  <2> QED BY <1>2, <2>1, EditOK DEF Edit, ScreenOK, tab, Ordered
<1>3. ASSUME NEW u, TrialOK(u), NEW op \in {"trial", "trialreset"}, NEW arg, Send(u, op, arg),
             Carries(Request(op, section, arg))
      PROVE  SectionsInv'
  <2>1. Placed(Request(op, section, arg))
    BY DEF Placed, Request, TextOps, Ordered
  <2>2. ScreenOK(section, authRequired, ui', query)
    BY <1>3 DEF Send, ScreenOK, Ordered
  <2> QED BY <1>3, <2>1, <2>2, SendOK DEF Send, tab
<1>4. ASSUME NEW x, ChooseTarget(x) PROVE SectionsInv'
  <2> DEFINE out == [y \in DOMAIN ui.targets \ {x} |-> ui.targets[y]]
             joined == [y \in DOMAIN ui.targets \cup {x} |-> IF y = x THEN InboundsAt(x)
                                                             ELSE ui.targets[y]]
  <2>1. TargetsOK(out) /\ TargetsOK(joined)
    BY <1>1 DEF TrialOK, TargetsOK
  <2>2. Edit([ui EXCEPT !.targets = IF x \in DOMAIN ui.targets THEN out ELSE joined])
    BY <1>4 DEF ChooseTarget
  <2> HIDE DEF out, joined
  <2> QED BY <1>2, <2>1, <2>2
<1>5. ASSUME NEW x, NEW b \in InboundsAt(x), ToggleTarget(x, b) PROVE SectionsInv'
  <2> DEFINE old == ui.targets[x]
             new == IF b \in old THEN old \ {b} ELSE old \cup {b}
  <2>1. x \in DOMAIN ui.targets /\ Edit([ui EXCEPT !.targets = [ui.targets EXCEPT ![x] = new]])
    BY <1>5 DEF ToggleTarget, WithInbounds
  <2>2. new \subseteq InboundsAt(x)
    BY <1>1, <2>1 DEF TrialOK, TargetsOK
  <2> HIDE DEF new
  <2>3. TargetsOK([ui.targets EXCEPT ![x] = new])
    BY <1>1, <2>1, <2>2 DEF TrialOK, TargetsOK
  <2> QED BY <1>2, <2>1, <2>3
<1>6. CASE SaveTrial
  <2>1. TrialOK([ui EXCEPT !.saving = TRUE])
    BY <1>1 DEF TrialOK
  <2>2. Carries(Request("trial", section, [targets |-> ui.targets]))
    BY <1>1, <1>6 DEF SaveTrial, Carries, Request, TrialOK
  <2> QED BY <1>3, <1>6, <2>1, <2>2 DEF SaveTrial
<1>7. CASE ResetTrial
  <2>1. Carries(Request("trialreset", section, None))
    BY DEF Carries, Request
  <2> QED BY <1>1, <1>3, <1>7, <2>1 DEF ResetTrial
<1> QED BY <1>4, <1>5, <1>6, <1>7

\* The editor of the texts: what is saved is the draft, under the key shown.
LEMMA TextActsOK ==
  ASSUME SectionsInv,
         \/ \E k : SelectText(k) \/ ResetTexts(k)
         \/ \E f : FilterTexts(f)
         \/ TypeText \/ SaveText
  PROVE  SectionsInv'
<1>1. section = "custom" /\ ~authRequired /\ ui.data # None
  BY DEF SelectText, ResetTexts, FilterTexts, TypeText, SaveText, TextsOpen
<1>2. EditorOK(ui) /\ TextsOK(ui.data)
  BY <1>1 DEF SectionsInv, ScreenOK, EditorOK, Ordered
<1>3. ASSUME NEW u, EditorOK(u), ui' = u, UNCHANGED <<tab, http, db>> PROVE SectionsInv'
  BY <1>1, <1>3, EditOK DEF ScreenOK, tab, Ordered
<1>4. ASSUME EditorOK(ui'), UNCHANGED <<tab, db>>, NEW op \in {"text", "resettext"}, NEW arg,
             http' = Put(http, Request(op, section, arg)), Carries(Request(op, section, arg))
      PROVE  SectionsInv'
  <2>1. Placed(Request(op, section, arg))
    BY <1>1 DEF Placed, Request, TextOps, Ordered
  <2>2. ScreenOK(section, authRequired, ui', query)
    BY <1>1, <1>4 DEF ScreenOK, Ordered
  <2> QED BY <1>1, <1>4, <2>1, <2>2, SendOK DEF tab
<1>5. ASSUME NEW k, SelectText(k) PROVE SectionsInv'
  <2> DEFINE u == [ui EXCEPT !.selected = k]
  <2>1. EditorOK(u) /\ TextsOK(u.data)
    BY <1>2 DEF EditorOK
  <2>2. EditorOK(Settled(u))
    BY <2>1, SettledOK
  <2> QED BY <1>3, <1>5, <2>2 DEF SelectText
<1>6. ASSUME NEW f, FilterTexts(f) PROVE SectionsInv'
  <2> DEFINE u == [ui EXCEPT !.filter = f]
  <2>1. EditorOK(u) /\ TextsOK(u.data)
    BY <1>2 DEF EditorOK
  <2>2. EditorOK(Settled(u))
    BY <2>1, SettledOK
  <2> QED BY <1>3, <1>6, <2>2 DEF FilterTexts
<1>7. CASE TypeText
  <2>1. EditorOK([ui EXCEPT !.draft = <<ui.shown, TRUE>>])
    BY <1>2 DEF EditorOK
  <2> QED BY <1>3, <1>7, <2>1 DEF TypeText
<1>8. CASE SaveText
  <2> DEFINE arg == [key |-> ui.shown, text |-> ui.draft, from |-> ui.selected]
  <2>1. EditorOK([ui EXCEPT !.saving = TRUE])
    BY <1>2 DEF EditorOK
  <2>2. Carries(Request("text", section, arg))
    BY <1>2, <1>8 DEF SaveText, Carries, Request, EditorOK
  <2> QED BY <1>4, <1>8, <2>1, <2>2 DEF SaveText
<1>9. ASSUME NEW k, ResetTexts(k) PROVE SectionsInv'
  <2> DEFINE arg == [keys |-> k, from |-> ui.selected]
  <2>1. Carries(Request("resettext", section, arg))
    BY DEF Carries, Request
  <2> QED BY <1>2, <1>4, <1>9, <2>1 DEF ResetTexts
<1> QED BY <1>5, <1>6, <1>7, <1>8, <1>9

-----------------------------------------------------------------------------
(* Every step.                                                             *)

\* Every handler of a section keeps the invariant.
LEMMA UseSectionOK ==
  ASSUME SectionsInv, UseSection
  PROVE  SectionsInv'
<1>1. (\E k : RunBackup(k) \/ TypeSecret(k)) \/ (\E f : ChooseFile(f)) \/ RestoreBackup
        => section = "backup" /\ ~authRequired
  BY DEF RunBackup, TypeSecret, ChooseFile, RestoreBackup, Usable
<1>2. (\E x : ChooseTarget(x) \/ \E b : ToggleTarget(x, b)) \/ SaveTrial \/ ResetTrial
        => section = "test-account" /\ ~authRequired
  BY DEF ChooseTarget, ToggleTarget, SaveTrial, ResetTrial, Usable
<1> QED
  BY <1>1, <1>2, ServerActsOK, DropOK, ConnectionActsOK, BackupActsOK, TrialActsOK, TextActsOK
  DEF UseSection

\* So does every handler that resumes.
LEMMA ReplyOK ==
  ASSUME SectionsInv, NEW i \in Slot, Reply(i)
  PROVE  SectionsInv'
  BY LoadReplyOK, ShellReplyOK, OtherReplyOK, OrderReplyOK, ConnectionReplyOK, BackupReplyOK,
     TrialReplyOK, RefetchReplyOK, TextReplyOK, TextsReplyOK
  DEF Reply

\* The panel starts with one section, which waits for its data.
LEMMA SectionsInit == Init => SectionsInv
<1> SUFFICES ASSUME Init PROVE SectionsInv
  OBVIOUS
<1> DEFINE none == [i \in Slot |-> NoRequest]
<1>1. /\ section \in SectionKeys /\ ~authRequired /\ ui = Fresh(section) /\ query = ""
      /\ http = StartLoad(none, section, ui, "")
  BY DEF Init
<1>2. section # "shell"
  BY <1>1 DEF SectionKeys
<1>3. RequestsOK(none, section, authRequired, ui, "")
  BY NothingOK
<1> HIDE DEF none
<1>4. RequestsOK(http, section, authRequired, ui, query)
  BY <1>1, <1>2, <1>3, FreshOK, LoadOK
<1>5. ScreenOK(section, authRequired, ui, query)
  BY <1>1, FreshOK
<1>6. {"texts", "targets", "order", "items", "lost"} \subseteq DOMAIN db
  BY DEF Init
<1>7. db.texts = DefaultTexts /\ db.targets = [x \in Servers |-> InboundsAt(x)]
  BY DEF Init
<1>8. TextsOK(DefaultTexts) /\ TargetsOK([x \in Servers |-> InboundsAt(x)])
  BY DEF TextsOK, TargetsOK, DefaultTexts
<1>9. WholeList(db.order)
  <2> DEFINE n == Cardinality(Items)
             All(f) == \A x \in Items : \E k \in DOMAIN f : f[k] = x
  <2>1. n \in Nat /\ \E f \in [1..n -> Items] : All(f)
    <3>1. n \in Nat /\ ExistsBijection(1..n, Items)
      BY FS_CardinalityType, ShellAssumption
    <3>2. PICK f : f \in Bijection(1..n, Items)
      BY <3>1 DEF ExistsBijection
    <3>3. f \in [1..n -> Items] /\ All(f)
      BY <3>2 DEF Bijection, Injection, Surjection
    <3> QED BY <3>1, <3>3
  <2>2. db.order = CHOOSE f \in [1..n -> Items] : All(f)
    BY DEF Init
  <2>3. db.order \in [1..n -> Items] /\ All(db.order)
    <3> HIDE DEF n, All
    <3> QED BY <2>1, <2>2
  <2>4. db.order \in Seq(Items) /\ Len(db.order) = n
    <3>1. db.order \in Seq(Items) /\ DOMAIN db.order = 1..n
      <4>1. Seq(Items) = UNION {[1..j -> Items] : j \in Nat}
        BY SeqDef
      <4>2. db.order \in UNION {[1..j -> Items] : j \in Nat}
        BY <2>1, <2>3
      <4> QED BY <2>3, <4>1, <4>2
    <3> QED BY <2>1, <3>1, LenProperties
  <2> QED BY <2>3, <2>4 DEF WholeList, Seqs!ToSet
<1>10. StoreOK(db)
  BY <1>6, <1>7, <1>8, <1>9 DEF StoreOK
<1> QED BY <1>1, <1>4, <1>5, <1>10 DEF SectionsInv

\* Every step of the panel keeps the invariant.
LEMMA SectionsStep == SectionsInv /\ [Next]_vars => SectionsInv'
<1> SUFFICES ASSUME SectionsInv, [Next]_vars PROVE SectionsInv'
  OBVIOUS
<1>1. CASE UNCHANGED vars
  BY <1>1, StillOK DEF vars, tab
<1> QED BY <1>1, AnswerOK, ReplyOK, BrowseOK, UseFormOK, UseSectionOK DEF Next

\* The invariant of the sections holds for every tour of the panel.
THEOREM SectionsHold == Spec => []SectionsInv
  BY SectionsInit, SectionsStep, PTL DEF Spec

-----------------------------------------------------------------------------
(* What follows.                                                           *)

\* The rows of the users list are those of the page and the search on screen,
\* however many lists are asked for before one comes.
THEOREM RowsAreAskedFor == Spec => []RowsMatchRequest
<1>1. SectionsInv => RowsMatchRequest
  BY DEF SectionsInv, ScreenOK, RowsOK, RowsMatchRequest, Usable, Ordered
<1> QED BY <1>1, SectionsHold, PTL

\* An order that is saved names every item, also while a search hides some.
THEOREM OrdersAreWhole == Spec => []ReorderKeepsAll
<1>1. SectionsInv => ReorderKeepsAll
  BY DEF SectionsInv, RequestsOK, Carries, WholeList, ReorderKeepsAll, InFlight
<1> QED BY <1>1, SectionsHold, PTL

\* No secret that was typed for one backup file is sent with another.
THEOREM SecretsStayWithFile == Spec => []SecretsBelongToFile
<1>1. SectionsInv => SecretsBelongToFile
  BY DEF SectionsInv, RequestsOK, Carries, SecretsBelongToFile, InFlight
<1> QED BY <1>1, SectionsHold, PTL

\* The targets of a trial that are saved have inbounds of their own servers.
THEOREM TargetsAreUsable == Spec => []TargetsUsable
<1>1. SectionsInv => TargetsUsable
  BY DEF SectionsInv, RequestsOK, Carries, TargetsOK, TargetsUsable, InFlight
<1> QED BY <1>1, SectionsHold, PTL

\* No text is ever stored, or sent, under the key of another.
THEOREM TextsUnderTheirKeys == Spec => []SavedUnderItsKey
<1>1. SectionsInv => SavedUnderItsKey
  BY DEF SectionsInv, StoreOK, TextsOK, RequestsOK, Carries, SavedUnderItsKey, InFlight
<1> QED BY <1>1, SectionsHold, PTL

-----------------------------------------------------------------------------
(***************************************************************************)
(* What is typed into the connection form is left alone, and a list shows  *)
(* what the server stores.  Both are about one mounted section, whose      *)
(* steps are few: what another section sends or does has no handler left.  *)
(***************************************************************************)

-----------------------------------------------------------------------------
(* Which steps there are.                                                  *)

\* While the section s is mounted, nothing of another section is answered.
LEMMA NoOtherReply ==
  ASSUME SectionsInv, NEW i \in Slot, section \in {"discounts", "connection"}
  PROVE  /\ ~PollReply(i) /\ ~ResetRevenueReply(i) /\ ~ServerReply(i) /\ ~OrderReply(i)
         /\ ~BackupReply(i) /\ ~TrialReply(i) /\ ~TextReply(i) /\ ~TextsReply(i)
         /\ section = "discounts" => ~ConnectionReply(i) /\ ~RefetchReply(i)
<1> DEFINE r == http[i]
<1>1. ASSUME r # NoRequest, r.live, r.op \notin ShellOps
      PROVE  r.op \in (IF section = "discounts" THEN {"load"} ELSE {"load", "connect", "refetch"})
  BY <1>1, Mounted DEF Placed
<1>2. PollReply(i) => r # NoRequest /\ r.live /\ r.op = "poll"
  BY DEF PollReply, Live, InFlight
<1>3. ResetRevenueReply(i) => r # NoRequest /\ r.live /\ r.op = "revenue"
  BY DEF ResetRevenueReply, Live, InFlight
<1>4. ServerReply(i) => r # NoRequest /\ r.live /\ r.op \in {"sync", "remove"}
  BY DEF ServerReply, Arrived, Live, InFlight
<1>5. OrderReply(i) => r # NoRequest /\ r.live /\ r.op = "order"
  BY DEF OrderReply, Arrived, Live, InFlight
<1>6. BackupReply(i) => r # NoRequest /\ r.live /\ r.op \in {"backup", "restore"}
  BY DEF BackupReply, Arrived, Live, InFlight
<1>7. TrialReply(i) => r # NoRequest /\ r.live /\ r.op \in {"trial", "trialreset"}
  BY DEF TrialReply, Arrived, Live, InFlight
<1>8. TextReply(i) => r # NoRequest /\ r.live /\ r.op \in {"text", "resettext"}
  BY DEF TextReply, Live, InFlight
<1>9. TextsReply(i) => r # NoRequest /\ r.live /\ r.op = "texts"
  BY DEF TextsReply, Live, InFlight
<1>10. ConnectionReply(i) => r # NoRequest /\ r.live /\ r.op = "connect"
  BY DEF ConnectionReply, Arrived, Live, InFlight
<1>11. RefetchReply(i) => r # NoRequest /\ r.live /\ r.op = "refetch"
  BY DEF RefetchReply, Arrived, Live, InFlight
<1> QED
  BY <1>1, <1>2, <1>3, <1>4, <1>5, <1>6, <1>7, <1>8, <1>9, <1>10, <1>11 DEF ShellOps

\* Behind the notice no handler of a section is waited for.
LEMMA NoReplyBehindNotice ==
  ASSUME SectionsInv, NEW i \in Slot, authRequired, http[i] # NoRequest, http[i].live
  PROVE  http[i].op \in ShellOps
  BY Mounted

\* What the owner can do where these two sections are mounted.
Steps(s) ==
    \/ Refresh \/ SessionEnds \/ UseForm
    \/ s = "discounts" /\ \E x \in Items : RunAction(x)
    \/ s = "connection" /\ \/ \E v \in Values, t \in BOOLEAN :
                                 TypeConnection([value |-> v, secret |-> t])
                           \/ \E k \in {"test", "save"} : SendConnection(k)

\* Nothing else is offered there, and nothing at all behind the notice.
LEMMA FewSteps ==
  ASSUME section \in {"discounts", "connection"}, section' = section,
         Browse \/ UseForm \/ UseSection
  PROVE  Steps(section) \/ LoginAgain(Fresh(section))
<1>1. ASSUME NEW s, OpenSection(s, Fresh(s)) PROVE FALSE
  BY <1>1 DEF OpenSection
<1>2. ASSUME NEW q, SetQuery(q) PROVE FALSE
  BY <1>2 DEF SetQuery, Searched
<1>3. ASSUME NEW p, TurnPage(p) PROVE FALSE
  BY <1>3 DEF TurnPage, Usable
<1>4. ~RefreshCycle /\ ~PollTick /\ ~ToggleVisible /\ ~ResetRevenue
  BY DEF RefreshCycle, PollTick, CanPoll, ToggleVisible, ResetRevenue, Usable
<1>5. ASSUME NEW x, RunAction(x) PROVE section = "discounts"
  BY <1>5 DEF RunAction, Usable
<1>6. ASSUME NEW x, RefreshOne(x) \/ DeleteServer(x) \/ ChooseTarget(x) PROVE FALSE
  BY <1>6 DEF RefreshOne, DeleteServer, ChooseTarget, Usable
<1>7. ASSUME NEW s \in Ordered, NEW x, NEW y, Drop(s, x, y) PROVE FALSE
  BY <1>7 DEF Drop, Usable, Ordered
<1>8. ASSUME NEW f, TypeConnection(f) PROVE section = "connection"
  BY <1>8 DEF TypeConnection, Usable
<1>9. ASSUME NEW k, SendConnection(k) PROVE section = "connection"
  BY <1>9 DEF SendConnection, Usable
<1>10. ASSUME NEW k, RunBackup(k) \/ ChooseFile(k) \/ TypeSecret(k) PROVE FALSE
  BY <1>10 DEF RunBackup, ChooseFile, TypeSecret, Usable
<1>11. ~RestoreBackup /\ ~SaveTrial /\ ~ResetTrial /\ ~TypeText /\ ~SaveText
  BY DEF RestoreBackup, SaveTrial, ResetTrial, TypeText, SaveText, TextsOpen, Usable
<1>12. ASSUME NEW x, NEW b, ToggleTarget(x, b) PROVE FALSE
  BY <1>12 DEF ToggleTarget, Usable
<1>13. ASSUME NEW k, SelectText(k) \/ ResetTexts(k) \/ FilterTexts(k) PROVE FALSE
  BY <1>13 DEF SelectText, ResetTexts, FilterTexts, TextsOpen
<1>14. Browse => Steps(section) \/ LoginAgain(Fresh(section))
  BY <1>1, <1>2, <1>3, <1>4, <1>5 DEF Browse, Steps
<1>15. UseSection => Steps(section)
  BY <1>6, <1>7, <1>8, <1>9, <1>10, <1>11, <1>12, <1>13 DEF UseSection, Steps
<1> QED BY <1>14, <1>15 DEF Steps

\* The form leaves the section behind it alone.
LEMMA FormApart ==
  ASSUME UseForm
  PROVE  UNCHANGED <<section, authRequired, ui, db>>
<1>1. ASSUME NEW v, Put1(v) PROVE UNCHANGED <<section, authRequired, ui, db>>
  BY <1>1 DEF Put1, tab
<1>2. ASSUME NEW s, NEW v, OpenForm(s, v) PROVE UNCHANGED <<section, authRequired, ui, db>>
  BY <1>2 DEF OpenForm
<1>3. CloseForm \/ TestServer \/ SubmitForm => UNCHANGED <<section, authRequired, ui, db>>
  BY DEF CloseForm, TestServer, SubmitForm, tab
<1> QED
  BY <1>1, <1>2, <1>3 DEF UseForm, ChangeType, ChangeServer, ChangeMode, ToggleInbound,
                          ToggleServer, SetResellerPolicy

-----------------------------------------------------------------------------
(* The connection form.                                                    *)

\* From u to w what is typed is kept, unless the revision changed.
DraftKept(u, w) ==
    u.data # None /\ w.data # None /\ w.data.rev = u.data.rev => w.form.value = u.form.value

\* The effect on new data of the same revision leaves the form alone.
LEMMA FilledKeeps ==
  ASSUME NEW u, ConnectionOK(u), NEW data
  PROVE  DraftKept(u, FilledConnection(u, data))
<1> DEFINE w == FilledConnection(u, data)
<1>1. /\ w.data = data
      /\ w.form = IF Refills(u, data) THEN [value |-> data.value, secret |-> FALSE]
                                      ELSE u.form
  BY DEF FilledConnection, ConnectionOK
<1>2. u.data # None /\ data.rev = u.data.rev => ~Refills(u, data)
  BY DEF Refills
<1> HIDE DEF w
<1>3. DraftKept(u, w)
  BY <1>1, <1>2 DEF DraftKept
<1> QED BY <1>3 DEF w

\* A change of the flags keeps what is typed.
LEMMA FlagsKeep ==
  ASSUME NEW u, ConnectionOK(u)
  PROVE  /\ \A b : DraftKept(u, [u EXCEPT !.busy = b])
         /\ \A b : DraftKept(u, [u EXCEPT !.saving = b])
         /\ DraftKept(u, [u EXCEPT !.loading = TRUE, !.error = FALSE])
         /\ DraftKept(u, [u EXCEPT !.error = TRUE, !.loading = FALSE])
         /\ DraftKept(u, u)
  BY DEF ConnectionOK, DraftKept

\* setReloadKey hides the form while it loads, and keeps it.
LEMMA ReloadKeepsDraft ==
  ASSUME SectionsInv, section = "connection", NEW h, Reload(h)
  PROVE  DraftKept(ui, ui')
<1>1. CASE authRequired
  BY <1>1 DEF Reload, DraftKept
<1>2. CASE ~authRequired
  <2>1. ui' = [ui EXCEPT !.loading = TRUE, !.error = FALSE]
    BY <1>2 DEF Reload, StartLoading
  <2>2. ConnectionOK(ui)
    BY <1>2 DEF SectionsInv, ScreenOK
  <2> QED BY <2>1, <2>2, FlagsKeep
<1> QED BY <1>1, <1>2

\* The login notice has no form.
LEMMA NoticeKeepsDraft ==
  ASSUME NEW i, RequireLogin(Remove(i)) \/ AuthReply(i) \/ LoginAgain(Fresh(section)),
         section = "connection"
  PROVE  DraftKept(ui, ui')
<1>1. RequireLogin(Remove(i)) => ui'.data = None
  BY DEF RequireLogin
<1>2. AuthReply(i) => UNCHANGED ui \/ RequireLogin(Remove(i))
  BY DEF AuthReply
<1>3. LoginAgain(Fresh(section)) => ui' = Fresh(section)
  BY DEF LoginAgain
<1>4. Fresh(section).data = None
  BY DEF Fresh, FreshConnection, Ordered
<1>5. ui' = ui \/ ui'.data = None
  BY <1>1, <1>2, <1>3, <1>4
<1> QED BY <1>5 DEF DraftKept

\* No reply overwrites what is typed, unless it brings another revision.
LEMMA ReplyKeepsDraft ==
  ASSUME SectionsInv, NEW i \in Slot, Reply(i), section = "connection"
  PROVE  DraftKept(ui, ui')
<1> DEFINE r == http[i]
<1>1. ASSUME LoadReply(i, Filled(ui, r.ans)) \/ ConnectionReply(i) \/ RefetchReply(i)
      PROVE  ConnectionOK(ui)
  <2>1. r # NoRequest /\ r.live /\ r.op \in {"load", "connect", "refetch"}
    BY <1>1 DEF LoadReply, ConnectionReply, RefetchReply, Arrived, Live, InFlight
  <2>2. ~authRequired
    BY <2>1, Mounted DEF ShellOps
  <2> QED BY <2>2 DEF SectionsInv, ScreenOK
<1>2. ASSUME UNCHANGED ui PROVE DraftKept(ui, ui')
  BY <1>2 DEF DraftKept
<1>3. CASE LoadReply(i, Filled(ui, r.ans))
  <2>1. Filled(ui, r.ans) = FilledConnection(ui, r.ans)
    BY DEF Filled, Ordered
  <2>2. ConnectionOK(ui)
    BY <1>1, <1>3
  <2>3. \/ ui' = FilledConnection(ui, r.ans)
        \/ ui' = [ui EXCEPT !.error = TRUE, !.loading = FALSE]
        \/ RequireLogin(Remove(i))
    BY <1>3, <2>1 DEF LoadReply
  <2> QED BY <2>2, <2>3, FilledKeeps, FlagsKeep, NoticeKeepsDraft
<1>4. CASE LateReply(i)
  BY <1>2, <1>4, NoticeKeepsDraft DEF LateReply
<1>5. CASE ActionReply(i)
  BY <1>2, <1>5, ReloadKeepsDraft, NoticeKeepsDraft DEF ActionReply, AfterAction
<1>6. CASE TestReply(i)
  BY <1>2, <1>6, NoticeKeepsDraft DEF TestReply
<1>7. CASE SubmitReply(i)
  BY <1>2, <1>7, ReloadKeepsDraft, NoticeKeepsDraft DEF SubmitReply
<1>8. CASE ConnectionReply(i)
  <2> DEFINE u == [ui EXCEPT !.form.secret = FALSE]
             w == FilledConnection(u, r.ans)
             x == [w EXCEPT !.busy = "", !.loading = ui.loading]
  <2>1. ConnectionOK(ui)
    BY <1>1, <1>8
  <2>2. ConnectionOK(u) /\ u.data = ui.data /\ u.form.value = ui.form.value
    BY <2>1 DEF ConnectionOK
  <2>3. DraftKept(u, w) /\ ConnectionOK(w)
    BY <2>2, FilledKeeps, FilledConnectionOK
  <2> HIDE DEF u, w
  <2>4. x.data = w.data /\ x.form = w.form
    BY <2>3 DEF ConnectionOK
  <2>5. DraftKept(ui, x)
    BY <2>2, <2>3, <2>4 DEF DraftKept
  <2>6. AuthReply(i) \/ ui' = ui \/ ui' = [ui EXCEPT !.busy = ""] \/ ui' = x
    BY <1>8 DEF ConnectionReply, Refetch, Finish, u, w
  <2> HIDE DEF x
  <2>7. CASE AuthReply(i)
    BY <2>7, NoticeKeepsDraft
  <2>8. CASE ui' = [ui EXCEPT !.busy = ""]
    BY <2>1, <2>8, FlagsKeep
  <2>9. CASE ui' = x
    BY <2>5, <2>9
  <2> QED BY <1>2, <2>6, <2>7, <2>8, <2>9
<1>9. CASE RefetchReply(i)
  <2> DEFINE w == Refetched(ui, r.ans)
             what == r.arg.what
  <2>1. ConnectionOK(ui)
    BY <1>1, <1>9
  <2>2. w = [FilledConnection(ui, r.ans) EXCEPT !.loading = ui.loading]
    BY DEF Refetched
  <2>3. ConnectionOK(FilledConnection(ui, r.ans)) /\ DraftKept(ui, FilledConnection(ui, r.ans))
    BY <2>1, FilledKeeps, FilledConnectionOK
  <2> HIDE DEF w
  <2>4. ConnectionOK(w) /\ DraftKept(ui, w)
    BY <2>2, <2>3 DEF ConnectionOK, DraftKept
  <2>5. ASSUME NEW u, ConnectionOK(u), DraftKept(ui, u) PROVE DraftKept(ui, Ended(u, what))
    <3>1. Ended(u, what) \in {[u EXCEPT !.saving = FALSE], u, [u EXCEPT !.busy = ""]}
      BY DEF Ended, Unlocked
    <3>2. Ended(u, what).data = u.data /\ Ended(u, what).form = u.form
      BY <2>5, <3>1 DEF ConnectionOK
    <3> QED BY <2>5, <3>2 DEF DraftKept
  <2>6. ui' = Ended(w, what) \/ ui' = Ended(ui, what) \/ AuthReply(i)
    BY <1>9 DEF RefetchReply, Finish, w
  <2> QED BY <2>1, <2>4, <2>5, <2>6, FlagsKeep, NoticeKeepsDraft
<1> QED
  BY <1>3, <1>4, <1>5, <1>6, <1>7, <1>8, <1>9, NoOtherReply DEF Reply

\* What is typed is only overwritten by typing, or by another revision.
LEMMA DraftStep ==
  ASSUME SectionsInv, [Next]_vars, section = "connection", section' = "connection", http' # http
  PROVE  DraftKept(ui, ui')
<1>1. ASSUME UNCHANGED ui PROVE DraftKept(ui, ui')
  BY <1>1 DEF DraftKept
<1>2. ASSUME NEW i \in Slot, Answer(i) PROVE DraftKept(ui, ui')
  <2>1. UNCHANGED ui
    BY <1>2 DEF Answer, Refuse, Serve, ServeAction, ServeTest, ServeSubmit, ServeServer, ServeOrder,
                ServeConnection, ServeBackup, ServeTrial, ServeTexts
  <2> QED BY <1>1, <2>1
<1>3. CASE Steps("connection")
  <2>1. CASE Refresh
    BY <2>1, ReloadKeepsDraft DEF Refresh
  <2>2. CASE SessionEnds
    BY <1>1, <2>2 DEF SessionEnds
  <2>3. CASE UseForm
    BY <1>1, <2>3, FormApart
  <2>4. ASSUME NEW f, TypeConnection(f) PROVE FALSE
    BY <2>4 DEF TypeConnection, Edit
  <2>5. ASSUME NEW k, SendConnection(k) PROVE DraftKept(ui, ui')
    <3>1. ~authRequired /\ ui' = [ui EXCEPT !.busy = k]
      BY <2>5 DEF SendConnection, Usable, Send
    <3>2. ConnectionOK(ui)
      BY <3>1 DEF SectionsInv, ScreenOK
    <3> QED BY <3>1, <3>2, FlagsKeep
  <2> QED BY <1>3, <2>1, <2>2, <2>3, <2>4, <2>5 DEF Steps
<1>4. CASE UNCHANGED vars
  BY <1>1, <1>4 DEF vars
<1> QED BY <1>2, <1>3, <1>4, ReplyKeepsDraft, FewSteps, NoticeKeepsDraft DEF Next

\* No answer writes over what is typed into the connection form, unless it
\* brings another revision of the settings: the revision is what decides.
THEOREM DraftStays == Spec => ConnDraftKept
<1> DEFINE A == /\ section = "connection" /\ section' = "connection" /\ http' # http
                /\ ui.data # None /\ ui'.data # None /\ ui'.data.rev = ui.data.rev
                => ui'.form.value = ui.form.value
<1>1. SectionsInv /\ [Next]_vars => [A]_vars
  BY DraftStep DEF DraftKept
<1> QED BY <1>1, SectionsHold, PTL DEF Spec, ConnDraftKept

-----------------------------------------------------------------------------
(* A list without an order of its own.                                     *)

\* A reply that will load the list again is on its way.
Reloads(h) ==
    \E i \in Slot : h[i] # NoRequest /\ h[i].op \in {"action", "submit"} /\ h[i].ans = Done

\* A list that is on its way to the section.
Loads(r) ==
    r # NoRequest /\ r.op = "load" /\ r.live /\ r.ans \notin {Waiting, Failed, Unauthorized}

\* What is shown, or will be by a list that is on its way, is what is stored.
Current(h, u, items) ==
    /\ u.data # None /\ ~u.loading /\ ~u.error => u.data = items
    /\ \A i \in Slot : Loads(h[i]) => h[i].ans = items

ListInv ==
    section = "discounts" /\ ~authRequired /\ ~db.lost =>
      Reloads(http) \/ Current(http, ui, db.items)

\* From h to g no list comes, and no reply that will load it goes.
Goes(h, g) ==
    /\ Reloads(h) => Reloads(g)
    /\ \A i \in Slot : Loads(g[i]) => g[i] = h[i]

\* A step that changes neither the list nor what is stored.
LEMMA GoesOn ==
  ASSUME ListInv, Goes(http, http'), UNCHANGED <<section, db>>, ui' = ui,
         authRequired => authRequired'
  PROVE  ListInv'
  BY DEF ListInv, Goes, Current

\* A free slot is taken, if there is one.
LEMMA TakenFree ==
  ASSUME NEW h, \E i \in Slot : h[i] = NoRequest
  PROVE  Taken(h) \in Slot /\ h[Taken(h)] = NoRequest
<1> DEFINE S == {i \in Slot : h[i] = NoRequest}
<1>1. S \subseteq Nat /\ S # {}
  BY DEF Slot
<1>2. PICK x \in S : \A y \in S : ~(<<y, x>> \in OpToRel(<, Nat))
  BY <1>1, NatLessThanWellFounded, WFMin
<1>3. \A y \in S : ~(y < x)
  BY <1>1, <1>2 DEF OpToRel
<1>4. \A j \in 1..(x - 1) : j \in Slot /\ j < x
  <2>1. MaxHttp \in Nat /\ x \in 1..MaxHttp
    BY ShellAssumption DEF Slot
  <2> HIDE DEF S
  <2> QED BY <2>1 DEF Slot
<1>5. x \in Slot /\ h[x] = NoRequest /\ \A j \in 1..(x - 1) : h[j] # NoRequest
  BY <1>3, <1>4
<1> QED BY <1>5 DEF Taken

\* A request that is sent while there is room.
LEMMA PutGoes ==
  ASSUME NEW h, Typed(h), \E i \in Slot : h[i] = NoRequest, NEW op, NEW at, NEW arg
  PROVE  Goes(h, Put(h, Request(op, at, arg)))
<1> DEFINE g == Put(h, Request(op, at, arg))
<1>1. \A i \in Slot : g[i] = IF i = Taken(h) THEN Request(op, at, arg) ELSE h[i]
  BY PutEffect
<1>2. ~Loads(Request(op, at, arg))
  BY DEF Loads, Request
<1>3. Taken(h) \in Slot /\ h[Taken(h)] = NoRequest
  BY TakenFree
<1> HIDE DEF g
<1>4. Goes(h, g)
  BY <1>1, <1>2, <1>3 DEF Goes, Reloads
<1> QED BY <1>4 DEF g

\* A request that is done with, unless it has the list loaded.
LEMMA RemoveGoes ==
  ASSUME Typed(http), NEW i \in Slot,
         ~(http[i].op \in {"action", "submit"} /\ http[i].ans = Done)
  PROVE  Goes(http, Remove(i))
<1>1. \A j \in Slot : Remove(i)[j] = IF j = i THEN NoRequest ELSE http[j]
  BY DEF Remove, Typed
<1> QED BY <1>1 DEF Goes, Reloads, Loads

\* A section that loads again waits for its list, and for no older one.
LEMMA LoadingIsCurrent ==
  ASSUME NEW h, Typed(h), NEW v, NEW q, NEW w, w.loading \/ w.data = None, NEW items
  PROVE  Current(StartLoad(h, "discounts", v, q), w, items)
<1> DEFINE arg == [path |-> Path("discounts", PageOf(v), q)]
           c == CancelLoads(h)
           g == Put(c, Request("load", "discounts", arg))
<1>1. Typed(c)
  BY DEF CancelLoads, Typed
<1>2. \A i \in Slot : ~Loads(c[i])
  BY DEF CancelLoads, Loads
<1>3. g = StartLoad(h, "discounts", v, q)
  BY DEF StartLoad
<1> HIDE DEF c, arg
<1>4. \A i \in Slot : g[i] = IF i = Taken(c) THEN Request("load", "discounts", arg) ELSE c[i]
  BY <1>1, PutEffect
<1>5. ~Loads(Request("load", "discounts", arg))
  BY DEF Loads, Request
<1> HIDE DEF g
<1>6. \A i \in Slot : ~Loads(g[i])
  BY <1>2, <1>4, <1>5
<1> QED BY <1>3, <1>6 DEF Current

\* setReloadKey.
LEMMA ReloadIsCurrent ==
  ASSUME SectionsInv, section = "discounts", ~authRequired, NEW h, Typed(h), Reload(h),
         UNCHANGED <<section, db>>
  PROVE  ListInv'
<1>1. http' = StartLoad(h, "discounts", ui, query)
      /\ ui' = [ui EXCEPT !.loading = TRUE, !.error = FALSE]
  BY DEF Reload, StartLoading
<1>2. {"data", "loading", "error"} \subseteq DOMAIN ui
  BY DEF SectionsInv, ScreenOK
<1>3. ui'.loading
  BY <1>1, <1>2
<1>4. Current(http', ui', db.items)
  BY <1>1, <1>3, LoadingIsCurrent
<1> QED BY <1>4 DEF ListInv

\* A section that is mounted anew.
LEMMA FreshIsCurrent ==
  ASSUME NEW h, Typed(h), NEW q, http' = StartLoad(h, section', Fresh(section'), q),
         ui' = Fresh(section')
  PROVE  ListInv'
<1>1. CASE section' = "discounts"
  <2>1. ui'.data = None
    BY <1>1 DEF Fresh, Blank, Ordered
  <2>2. Current(http', ui', db'.items)
    BY <1>1, <2>1, LoadingIsCurrent
  <2> QED BY <2>2 DEF ListInv
<1> QED BY <1>1 DEF ListInv

\* The answer b to a request i.
LEMMA AnswerGoes ==
  ASSUME SectionsInv, ListInv, NEW i \in InFlight, NEW b, http[i].ans = Waiting,
         http' = [http EXCEPT ![i].ans = b], UNCHANGED <<section, authRequired, ui>>,
         \/ /\ db'.items = db.items
            /\ \/ b \in {Waiting, Failed, Unauthorized}
               \/ http[i].op = "load" /\ http[i].live /\ section = "discounts" /\ ~authRequired
                    => b = db.items
         \/ http[i].op \in {"action", "submit"} /\ b = Done,
         db.lost => db'.lost
  PROVE  ListInv'
<1> DEFINE r == [op |-> http[i].op, at |-> http[i].at, arg |-> http[i].arg,
                 ans |-> b, live |-> http[i].live]
<1>1. Typed(http) /\ i \in Slot /\ http[i] # NoRequest
  BY DEF SectionsInv, RequestsOK, InFlight
<1>2. http[i] = [op |-> http[i].op, at |-> http[i].at, arg |-> http[i].arg,
                 ans |-> http[i].ans, live |-> http[i].live]
  BY <1>1 DEF Typed
<1>3. [http[i] EXCEPT !.ans = b] = r
  BY <1>2
<1>4. \A j \in Slot : http'[j] = IF j = i THEN r ELSE http[j]
  BY <1>1, <1>3 DEF Typed
<1>5. r # NoRequest
  <2>1. "at" \in DOMAIN r /\ "at" \notin DOMAIN NoRequest
    BY DEF NoRequest
  <2> QED BY <2>1
<1>6. r.op = http[i].op /\ r.ans = b /\ r.live = http[i].live
  OBVIOUS
<1> HIDE DEF r
<1>7. Reloads(http) => Reloads(http')
  <2>1. \A j \in Slot : http[j].ans = Done => j # i
    BY ShellAssumption
  <2> QED BY <1>4, <2>1 DEF Reloads
<1>8. CASE http[i].op \in {"action", "submit"} /\ b = Done
  <2>1. Reloads(http')
    BY <1>1, <1>4, <1>5, <1>6, <1>8 DEF Reloads
  <2> QED BY <2>1 DEF ListInv
<1>9. CASE /\ db'.items = db.items
           /\ \/ b \in {Waiting, Failed, Unauthorized}
              \/ http[i].op = "load" /\ http[i].live /\ section = "discounts" /\ ~authRequired
                   => b = db.items
  <2>1. section = "discounts" /\ ~authRequired /\ Loads(r) => r.ans = db.items
    BY <1>6, <1>9 DEF Loads
  <2>2. section = "discounts" /\ ~authRequired /\ Current(http, ui, db.items)
          => Current(http', ui', db'.items)
    BY <1>4, <1>9, <2>1 DEF Current
  <2> QED BY <1>7, <2>2 DEF ListInv
<1> QED BY <1>8, <1>9

\* The server stores newdb and answers a, or its answer is lost.
LEMMA ServeKeepsList ==
  ASSUME SectionsInv, ListInv, NEW i \in InFlight, NEW newdb, NEW a, Serve(i, newdb, a),
         {"items", "lost"} \subseteq DOMAIN newdb, newdb.lost = db.lost,
         \/ /\ newdb.items = db.items
            /\ http[i].op = "load" /\ http[i].live /\ section = "discounts" /\ ~authRequired
                 => a = db.items
         \/ http[i].op \in {"action", "submit"} /\ a = Done
  PROVE  ListInv'
<1>1. http[i].ans = Waiting /\ UNCHANGED <<section, authRequired, ui>>
  BY DEF Serve, tab
<1>2. CASE db' = newdb /\ http' = [http EXCEPT ![i].ans = a]
  BY <1>1, <1>2, AnswerGoes
<1>3. CASE /\ db' = [newdb EXCEPT !.lost = @ \/ newdb.items # db.items]
           /\ http' = [http EXCEPT ![i].ans = Failed]
  <2>1. db'.items = newdb.items /\ (db'.lost <=> newdb.lost \/ newdb.items # db.items)
    BY <1>3
  <2>2. CASE newdb.items = db.items
    BY <1>1, <1>3, <2>1, <2>2, AnswerGoes
  <2>3. CASE newdb.items # db.items
    BY <2>1, <2>3 DEF ListInv
  <2> QED BY <2>2, <2>3
<1> QED BY <1>2, <1>3 DEF Serve

\* The server's answers: what changes the list is answered, or counted as lost.
LEMMA AnswerKeepsList ==
  ASSUME SectionsInv, ListInv, NEW i \in Slot, Answer(i)
  PROVE  ListInv'
<1> DEFINE r == http[i]
<1>0. i \in InFlight /\ {"items", "lost"} \subseteq DOMAIN db
  BY DEF Answer, SectionsInv, StoreOK
<1>1. CASE Refuse(i)
  <2>1. \/ http' = [http EXCEPT ![i].ans = Failed]
        \/ http' = [http EXCEPT ![i].ans = Unauthorized]
    BY <1>1 DEF Refuse
  <2>2. r.ans = Waiting /\ UNCHANGED <<section, authRequired, ui, db>>
    BY <1>1 DEF Refuse, tab
  <2> QED BY <1>0, <2>1, <2>2, AnswerGoes
<1>2. ASSUME NEW newdb, NEW a, Serve(i, newdb, a), {"items", "lost"} \subseteq DOMAIN newdb,
             newdb.lost = db.lost, newdb.items = db.items, r.op # "load"
      PROVE  ListInv'
  BY <1>0, <1>2, ServeKeepsList
<1>3. CASE r.op \in {"load", "poll", "refetch"} /\ Serve(i, db, Stores(r))
  <2>1. r.op = "load" /\ r.live /\ section = "discounts" /\ ~authRequired => Stores(r) = db.items
    <3>1. r.op = "load" /\ r.live => r.at = section
      BY <1>0, Mounted DEF ShellOps, InFlight
    <3> QED BY <3>1 DEF Stores, Ordered
  <2> QED BY <1>0, <1>3, <2>1, ServeKeepsList
<1>4. CASE ServeAction(i)
  <2> DEFINE newdb == [db EXCEPT !.items = @ \ {r.arg.item}]
  <2>1. {"items", "lost"} \subseteq DOMAIN newdb /\ newdb.lost = db.lost
    BY <1>0
  <2> QED BY <1>0, <1>4, <2>1, ServeKeepsList DEF ServeAction
<1>5. CASE ServeSubmit(i)
  <2> DEFINE newdb == Stored(r.arg)
  <2>1. {"items", "lost"} \subseteq DOMAIN newdb /\ newdb.lost = db.lost
    BY <1>0 DEF Stored
  <2> QED BY <1>0, <1>5, <2>1, ServeKeepsList DEF ServeSubmit
<1>6. CASE ServeServer(i)
  <2> DEFINE newdb == [db EXCEPT !.servers = @ \ {r.arg.server}]
  <2>1. /\ {"items", "lost"} \subseteq DOMAIN newdb
        /\ newdb.lost = db.lost /\ newdb.items = db.items
    BY <1>0
  <2> QED BY <1>0, <1>2, <1>6, <2>1 DEF ServeServer
<1>7. CASE ServeOrder(i)
  <2> DEFINE newdb == [db EXCEPT !.order = r.arg.list]
  <2>1. /\ {"items", "lost"} \subseteq DOMAIN newdb
        /\ newdb.lost = db.lost /\ newdb.items = db.items
    BY <1>0
  <2> QED BY <1>2, <1>7, <2>1 DEF ServeOrder
<1>8. CASE ServeConnection(i)
  <2>1. \A c : /\ {"items", "lost"} \subseteq DOMAIN [db EXCEPT !.conn = c]
               /\ [db EXCEPT !.conn = c].lost = db.lost /\ [db EXCEPT !.conn = c].items = db.items
    BY <1>0
  <2> QED BY <1>0, <1>2, <1>8, <2>1 DEF ServeConnection
<1>9. CASE ServeTrial(i)
  <2> DEFINE newdb == [db EXCEPT !.targets = r.arg.targets]
  <2>1. /\ {"items", "lost"} \subseteq DOMAIN newdb
        /\ newdb.lost = db.lost /\ newdb.items = db.items
    BY <1>0
  <2> QED BY <1>0, <1>2, <1>9, <2>1 DEF ServeTrial
<1>10. CASE ServeTexts(i)
  <2>1. \A t : /\ {"items", "lost"} \subseteq DOMAIN [db EXCEPT !.texts = t]
               /\ [db EXCEPT !.texts = t].lost = db.lost /\ [db EXCEPT !.texts = t].items = db.items
    BY <1>0
  <2>2. \A k, v : /\ {"items", "lost"} \subseteq DOMAIN [db EXCEPT !.texts[k] = v]
                  /\ [db EXCEPT !.texts[k] = v].lost = db.lost
                  /\ [db EXCEPT !.texts[k] = v].items = db.items
    BY <1>0
  <2> QED BY <1>0, <1>2, <1>10, <2>1, <2>2 DEF ServeTexts
<1>11. CASE ServeTest(i) \/ ServeBackup(i) \/ (r.op = "revenue" /\ Serve(i, db, Done))
  BY <1>0, <1>2, <1>11 DEF ServeTest, ServeBackup
<1> QED
  BY <1>1, <1>3, <1>4, <1>5, <1>6, <1>7, <1>8, <1>9, <1>10, <1>11 DEF Answer

\* A reply changes neither the section nor what is stored, and hides no notice.
LEMMA ReplyStays ==
  ASSUME NEW i \in Slot, Reply(i)
  PROVE  UNCHANGED <<section, db>> /\ (authRequired => authRequired')
<1>1. AuthReply(i) => UNCHANGED <<section, db>> /\ (authRequired => authRequired')
  BY DEF AuthReply, RequireLogin, tab
<1>2. ASSUME NEW u, Finish(i, u) PROVE UNCHANGED <<section, authRequired, db>>
  BY <1>2 DEF Finish, tab
<1>3. ASSUME NEW u, NEW w, Refetch(i, u, w) PROVE UNCHANGED <<section, authRequired, db>>
  BY <1>3 DEF Refetch, tab
<1>4. CASE LoadReply(i, Filled(ui, http[i].ans)) \/ LateReply(i) \/ PollReply(i)
  BY <1>4 DEF LoadReply, LateReply, PollReply, RequireLogin, tab
<1>5. CASE ResetRevenueReply(i) \/ ActionReply(i) \/ TestReply(i) \/ SubmitReply(i)
  BY <1>1, <1>5 DEF ResetRevenueReply, ActionReply, TestReply, SubmitReply, tab
<1>6. CASE ServerReply(i) \/ OrderReply(i)
  BY <1>1, <1>2, <1>3, <1>6 DEF ServerReply, OrderReply
<1>7. CASE ConnectionReply(i) \/ BackupReply(i)
  BY <1>1, <1>2, <1>3, <1>7 DEF ConnectionReply, BackupReply
<1>8. CASE TrialReply(i) \/ RefetchReply(i)
  BY <1>1, <1>2, <1>3, <1>8 DEF TrialReply, RefetchReply
<1>9. CASE TextReply(i) \/ TextsReply(i)
  BY <1>1, <1>9 DEF TextReply, TextsReply, tab
<1> QED BY <1>4, <1>5, <1>6, <1>7, <1>8, <1>9 DEF Reply

\* A reply shows the list that has come, or leaves what is shown.
LEMMA ReplyKeepsList ==
  ASSUME SectionsInv, ListInv, NEW i \in Slot, Reply(i)
  PROVE  ListInv'
<1> SUFFICES ASSUME section = "discounts", ~authRequired, ~authRequired' PROVE ListInv'
  BY ReplyStays DEF ListInv
<1> DEFINE r == http[i]
<1>0. Typed(http) /\ UNCHANGED <<section, db>>
  BY ReplyStays DEF SectionsInv, RequestsOK
<1>1. {"data", "loading", "error"} \subseteq DOMAIN ui
  BY DEF SectionsInv, ScreenOK
<1>2. Typed(Remove(i))
  BY <1>0, RemoveKeeps DEF Keeps
<1>3. ASSUME http' = Remove(i), ui' = ui, ~(r.op \in {"action", "submit"} /\ r.ans = Done)
      PROVE  ListInv'
  BY <1>0, <1>3, RemoveGoes, GoesOn
<1>4. ASSUME Reload(Remove(i)) PROVE ListInv'
  BY <1>0, <1>2, <1>4, ReloadIsCurrent
<1>5. ~RequireLogin(Remove(i)) /\ ~AuthReply(i)
  BY DEF RequireLogin, AuthReply
<1>6. Done # Failed
  BY ShellAssumption
<1>7. CASE LoadReply(i, Filled(ui, r.ans))
  <2>1. r # NoRequest /\ r.op = "load" /\ r.live /\ r.ans # Waiting
    BY <1>7 DEF LoadReply, Live, InFlight
  <2>2. Goes(http, Remove(i))
    BY <1>0, <2>1, RemoveGoes
  <2>3. CASE /\ r.ans \notin {Failed, Unauthorized}
             /\ ui' = Filled(ui, r.ans) /\ http' = Remove(i)
    <3>1. ui'.data = r.ans
      BY <1>1, <2>3 DEF Filled, Ordered
    <3>2. Current(http, ui, db.items) => r.ans = db.items
      BY <2>1, <2>3 DEF Current, Loads
    <3>3. Current(http, ui, db.items) => Current(http', ui', db.items)
      BY <2>2, <2>3, <3>1, <3>2 DEF Current, Goes
    <3> QED BY <1>0, <2>2, <2>3, <3>3 DEF ListInv, Goes
  <2>4. CASE ui' = [ui EXCEPT !.error = TRUE, !.loading = FALSE] /\ http' = Remove(i)
    <3>1. ui'.error
      BY <1>1, <2>4
    <3>2. Current(http, ui, db.items) => Current(http', ui', db.items)
      BY <2>2, <2>4, <3>1 DEF Current, Goes
    <3> QED BY <1>0, <2>2, <2>4, <3>2 DEF ListInv, Goes
  <2> QED BY <1>5, <1>7, <2>3, <2>4 DEF LoadReply
<1>8. CASE LateReply(i)
  <2>1. r # NoRequest /\ ~r.live
    BY <1>8 DEF LateReply, InFlight
  <2>2. r.op \notin {"action", "submit"}
    BY <2>1 DEF SectionsInv, RequestsOK, Placed
  <2> QED BY <1>3, <1>5, <1>8, <2>2 DEF LateReply
<1>9. CASE ActionReply(i)
  BY <1>3, <1>4, <1>5, <1>6, <1>9 DEF ActionReply, AfterAction
<1>10. CASE TestReply(i)
  <2>1. r.op = "test"
    BY <1>10 DEF TestReply, Live
  <2> QED BY <1>3, <1>5, <1>10, <2>1 DEF TestReply
<1>11. CASE SubmitReply(i)
  BY <1>3, <1>4, <1>5, <1>6, <1>11 DEF SubmitReply
<1> QED
  BY <1>7, <1>8, <1>9, <1>10, <1>11, NoOtherReply DEF Reply

\* Only a link, or the browser's buttons, mount another section.
LEMMA ActsStay ==
  ASSUME Browse \/ UseForm \/ UseSection, \A s : ~OpenSection(s, Fresh(s))
  PROVE  section' = section
<1>1. ASSUME NEW u, NEW op, NEW arg, Send(u, op, arg) PROVE section' = section
  BY <1>1 DEF Send, tab
<1>2. ASSUME NEW u, Edit(u) PROVE section' = section
  BY <1>2 DEF Edit, tab
<1>3. CASE Browse
  BY <1>3 DEF Browse, Refresh, LoginAgain, SessionEnds, SetQuery, TurnPage, RefreshCycle, PollTick,
              ToggleVisible, ResetRevenue, RunAction, tab
<1>4. CASE \/ \E x : RefreshOne(x) \/ DeleteServer(x) \/ ChooseTarget(x)
           \/ \E s, x, y : Drop(s, x, y)
           \/ \E f : TypeConnection(f) \/ SendConnection(f)
           \/ \E k : RunBackup(k) \/ ChooseFile(k) \/ TypeSecret(k)
           \/ \E x, b : ToggleTarget(x, b)
           \/ RestoreBackup \/ SaveTrial \/ ResetTrial
  BY <1>1, <1>2, <1>4 DEF RefreshOne, DeleteServer, ChooseTarget, Drop, TypeConnection,
     SendConnection, RunBackup, ChooseFile, TypeSecret, ToggleTarget, RestoreBackup, SaveTrial,
     ResetTrial
<1>5. CASE (\E k : SelectText(k) \/ ResetTexts(k) \/ FilterTexts(k)) \/ TypeText \/ SaveText
  BY <1>5 DEF SelectText, ResetTexts, FilterTexts, TypeText, SaveText, tab
<1>6. UseSection => section' = section
  BY <1>4, <1>5 DEF UseSection
<1> QED BY <1>3, <1>6, FormApart

\* What the owner does sends requests, or loads the list.
LEMMA ActKeepsList ==
  ASSUME SectionsInv, ListInv, Browse \/ UseForm \/ UseSection
  PROVE  ListInv'
<1>0. Typed(http)
  BY DEF SectionsInv, RequestsOK
<1>1. ASSUME NEW s, OpenSection(s, Fresh(s)) PROVE ListInv'
  <2>1. Typed(Unmount(http))
    BY <1>0, UnmountKeeps DEF Keeps
  <2> QED BY <1>1, <2>1, FreshIsCurrent DEF OpenSection
<1>2. CASE LoginAgain(Fresh(section))
  <2>1. Typed([i \in Slot |-> NoRequest])
    BY DEF Typed
  <2> QED BY <1>2, <2>1, FreshIsCurrent DEF LoginAgain
<1>3. ASSUME section = "discounts", section' = section, Steps("discounts"), ~authRequired,
             ~authRequired'
      PROVE  ListInv'
  <2>1. ASSUME Goes(http, http'), UNCHANGED <<ui, db>> PROVE ListInv'
    BY <1>3, <2>1, GoesOn
  <2>2. CASE Refresh
    BY <1>0, <1>3, <2>2, ReloadIsCurrent DEF Refresh
  <2>3. CASE SessionEnds
    BY <2>1, <2>3 DEF SessionEnds, Goes
  <2>4. ASSUME NEW x \in Items, RunAction(x) PROVE ListInv'
    <3>1. \E i \in Slot : http[i] = NoRequest
      BY <2>4 DEF RunAction, HasRoom, InFlight
    <3> QED BY <1>0, <2>1, <2>4, <3>1, PutGoes DEF RunAction
  <2>5. CASE UseForm
    <3>0. UNCHANGED <<ui, db>>
      BY <2>5, FormApart
    <3>1. CASE TestServer \/ SubmitForm
      <4>1. \E i \in Slot : http[i] = NoRequest
        BY <3>1 DEF TestServer, SubmitForm, HasRoom, InFlight
      <4> QED BY <1>0, <2>1, <3>0, <3>1, <4>1, PutGoes DEF TestServer, SubmitForm
    <3>2. CASE CloseForm
      <4>1. ASSUME NEW i \in Slot
            PROVE  \/ http'[i] = http[i]
                   \/ http[i].op = "test" /\ ~Loads(http'[i])
        <5>1. CASE i \in Live("test")
          <6>1. http[i].op = "test" /\ http'[i] = [http[i] EXCEPT !.live = FALSE]
            BY <3>2, <5>1 DEF CloseForm, Live
          <6>2. http[i] = [op |-> http[i].op, at |-> http[i].at, arg |-> http[i].arg,
                           ans |-> http[i].ans, live |-> http[i].live]
            BY <1>0, <5>1 DEF Typed, Live, InFlight
          <6>3. http'[i].live = FALSE
            BY <6>1, <6>2
          <6> QED BY <6>1, <6>3 DEF Loads
        <5>2. CASE i \notin Live("test")
          BY <3>2, <5>2 DEF CloseForm
        <5> QED BY <5>1, <5>2
      <4>2. Goes(http, http')
        BY <4>1 DEF Goes, Reloads
      <4> QED BY <2>1, <3>0, <4>2
    <3>3. ASSUME UNCHANGED http PROVE ListInv'
      BY <2>1, <3>0, <3>3 DEF Goes
    <3>4. ASSUME NEW v, Put1(v) PROVE ListInv'
      BY <3>3, <3>4 DEF Put1
    <3>5. ASSUME NEW s, NEW v, OpenForm(s, v) PROVE ListInv'
      BY <3>3, <3>5 DEF OpenForm
    <3> QED
      BY <2>5, <3>1, <3>2, <3>4, <3>5 DEF UseForm, ChangeType, ChangeServer, ChangeMode,
         ToggleInbound, ToggleServer, SetResellerPolicy
  <2> QED BY <1>3, <2>2, <2>3, <2>4, <2>5 DEF Steps
<1>4. Steps("discounts") => (authRequired => authRequired')
  <2>1. ASSUME NEW x, RunAction(x) PROVE UNCHANGED authRequired
    BY <2>1 DEF RunAction, tab
  <2> QED BY <2>1, FormApart DEF Steps, Refresh, SessionEnds, tab
<1>5. CASE section' = section /\ section = "discounts" /\ ~authRequired'
  BY <1>2, <1>3, <1>4, <1>5, FewSteps
<1> QED BY <1>1, <1>5, ActsStay DEF ListInv

\* Every step keeps what is shown, or announces what is stored.
LEMMA ListStep == SectionsInv /\ ListInv /\ [Next]_vars => ListInv'
<1> SUFFICES ASSUME SectionsInv, ListInv, [Next]_vars PROVE ListInv'
  OBVIOUS
<1>1. CASE UNCHANGED vars
  BY <1>1, GoesOn DEF vars, tab, Goes
<1> QED BY <1>1, AnswerKeepsList, ReplyKeepsList, ActKeepsList DEF Next

\* The panel starts with a list that is on its way.
LEMMA ListInit == Init => ListInv
<1> SUFFICES ASSUME Init, section = "discounts" PROVE Current(http, ui, db.items)
  BY DEF ListInv
<1> DEFINE none == [i \in Slot |-> NoRequest]
<1>1. http = StartLoad(none, "discounts", ui, "") /\ ui = Fresh("discounts")
  BY DEF Init
<1>2. ui.data = None
  BY <1>1 DEF Fresh, Blank, Ordered
<1>3. Typed(none)
  BY DEF Typed
<1> HIDE DEF none
<1> QED BY <1>1, <1>2, <1>3, LoadingIsCurrent

\* Once nothing is in flight a list shows what the server stores, unless the
\* answer to a change was lost: every change that is answered loads the list
\* again, and a list that was asked for before is never shown after it.
THEOREM ListsShowStore == Spec => []ListShowsStore
<1>1. Spec => []ListInv
  BY ListInit, ListStep, SectionsHold, PTL DEF Spec
<1>2. ListInv => ListShowsStore
  BY DEF ListInv, ListShowsStore, Reloads, Current, InFlight, Usable
<1> QED BY <1>1, <1>2, PTL

-----------------------------------------------------------------------------
(***************************************************************************)
(* What the panel holds.  The revision of the connection is a number and   *)
(* no more: a save whose section was left is still served, so that the     *)
(* bound on new ones does not bound the revision.                          *)
(***************************************************************************)

-----------------------------------------------------------------------------
(* The inductive invariant.                                                *)

\* The section whose handlers send op.
Homed(op, at) ==
    /\ op = "sync" => at = "servers"
    /\ op = "connect" => at = "connection"
    /\ op = "backup" => at = "backup"
    /\ op \in {"trial", "trialreset"} => at = "test-account"
    /\ op = "refetch" => at \in {"servers", "connection", "backup", "test-account"}

\* A request of a sitting t.
Belongs(r, t) ==
    r # NoRequest => r.at \in t \cup {"shell"} /\ r.live \in BOOLEAN /\ Homed(r.op, r.at)
OneLoad(h) ==
    \A i, j \in Slot :
      h[i] # NoRequest /\ h[i].op = "load" /\ h[j] # NoRequest /\ h[j].op = "load" => i = j
Orderly(h, t) == Typed(h) /\ OneLoad(h) /\ \A i \in Slot : Belongs(h[i], t)

PageOK(u) == "page" \in DOMAIN u => u.page \in 1..LastPage
TabOK ==
    /\ tour \in Tours /\ section \in tour \cap SectionKeys /\ query \in Queries
    /\ authRequired \in BOOLEAN /\ session \in BOOLEAN /\ visible \in BOOLEAN
NumberOK(d) == {"conn", "lost"} \subseteq DOMAIN d /\ d.conn.rev \in Nat

PanelInv == TabOK /\ Orderly(http, tour) /\ PageOK(ui) /\ NumberOK(db)

-----------------------------------------------------------------------------
(* What is done to the requests.                                           *)

\* A slot that is freed.
LEMMA RemoveOrderly ==
  ASSUME NEW t, Orderly(http, t), NEW i
  PROVE  Orderly(Remove(i), t)
<1>1. Typed(Remove(i))
  BY RemoveKeeps DEF Orderly, Keeps
<1>2. \A j \in Slot : Remove(i)[j] # NoRequest => Remove(i)[j] = http[j]
  BY DEF Remove, Orderly, Typed
<1> QED BY <1>1, <1>2 DEF Orderly, OneLoad, Belongs

\* A request that is no load.
LEMMA PutOrderly ==
  ASSUME NEW t, NEW h, Orderly(h, t), NEW op, NEW at, NEW arg,
         op # "load", at \in t \cup {"shell"}, Homed(op, at)
  PROVE  Orderly(Put(h, Request(op, at, arg)), t)
<1> DEFINE r == Request(op, at, arg)
           g == Put(h, r)
<1>1. Typed(g) /\ \A i \in Slot : g[i] = IF i = Taken(h) THEN r ELSE h[i]
  BY PutEffect DEF Orderly
<1>2. r.op # "load" /\ Belongs(r, t)
  BY DEF Request, Belongs
<1> HIDE DEF g, r
<1>3. Orderly(g, t)
  BY <1>1, <1>2 DEF Orderly, OneLoad
<1> QED BY <1>3 DEF g, r

\* A load, where there is none.
LEMMA PutLoad ==
  ASSUME NEW t, NEW h, Orderly(h, t), NEW s \in t, NEW arg,
         \A i \in Slot : h[i] # NoRequest => h[i].op # "load"
  PROVE  Orderly(Put(h, Request("load", s, arg)), t)
<1> DEFINE r == Request("load", s, arg)
           g == Put(h, r)
<1>1. Typed(g) /\ \A i \in Slot : g[i] = IF i = Taken(h) THEN r ELSE h[i]
  BY PutEffect DEF Orderly
<1>2. Belongs(r, t)
  BY DEF Request, Belongs, Homed
<1> HIDE DEF g, r
<1>3. Orderly(g, t)
  BY <1>1, <1>2 DEF Orderly, OneLoad
<1> QED BY <1>3 DEF g, r

\* A section that loads cancels its older load first.
LEMMA LoadOrderly ==
  ASSUME NEW t, NEW h, Orderly(h, t), NEW s \in t, NEW u, NEW q
  PROVE  Orderly(StartLoad(h, s, u, q), t)
<1>1. CASE s = "custom"
  <2>1. Homed("texts", s)
    BY DEF Homed
  <2> QED BY <1>1, <2>1, PutOrderly DEF StartLoad
<1>2. CASE s # "custom"
  <2> DEFINE c == CancelLoads(h)
  <2>1. Typed(c) /\ \A i \in Slot : c[i] # NoRequest => c[i] = h[i] /\ h[i].op # "load"
    BY DEF CancelLoads, Orderly, Typed
  <2> HIDE DEF c
  <2>2. Orderly(c, t)
    BY <2>1 DEF Orderly, OneLoad, Belongs
  <2>3. \A arg : Orderly(Put(c, Request("load", s, arg)), t)
    BY <2>1, <2>2, PutLoad
  <2> QED BY <1>2, <2>3 DEF StartLoad, c
<1> QED BY <1>1, <1>2

\* A section that goes takes its load with it.
LEMMA UnmountOrderly ==
  ASSUME NEW t, NEW h, Orderly(h, t)
  PROVE  Orderly(Unmount(h), t)
<1> DEFINE g == Unmount(h)
<1>1. Typed(g)
  BY UnmountKeeps DEF Orderly, Keeps
<1>2. ASSUME NEW i \in Slot, g[i] # NoRequest
      PROVE  /\ h[i] # NoRequest /\ g[i].op = h[i].op /\ g[i].at = h[i].at
             /\ g[i].live \in BOOLEAN
  <2>1. h[i] # NoRequest /\ g[i] = [h[i] EXCEPT !.live = @ /\ h[i].at = "shell"]
    BY <1>2 DEF Unmount
  <2>2. h[i] = [op |-> h[i].op, at |-> h[i].at, arg |-> h[i].arg, ans |-> h[i].ans,
                live |-> h[i].live]
    BY <2>1 DEF Orderly, Typed
  <2>3. g[i] = [op |-> h[i].op, at |-> h[i].at, arg |-> h[i].arg, ans |-> h[i].ans,
                live |-> h[i].live /\ h[i].at = "shell"]
    BY <2>1, <2>2
  <2> HIDE DEF g
  <2>4. /\ g[i].op = h[i].op /\ g[i].at = h[i].at
        /\ g[i].live = (h[i].live /\ h[i].at = "shell")
    BY <2>3
  <2>5. (h[i].live /\ h[i].at = "shell") \in BOOLEAN
    OBVIOUS
  <2> QED BY <2>1, <2>4, <2>5
<1> HIDE DEF g
<1>3. Orderly(g, t)
  BY <1>1, <1>2 DEF Orderly, OneLoad, Belongs
<1> QED BY <1>3 DEF g

\* Nothing in flight.
LEMMA NothingOrderly == \A t : Orderly([i \in Slot |-> NoRequest], t)
  BY DEF Orderly, Typed, OneLoad, Belongs

\* An answer.
LEMMA AnswerOrderly ==
  ASSUME NEW t, Orderly(http, t), NEW i \in InFlight, NEW b
  PROVE  Orderly([http EXCEPT ![i].ans = b], t)
<1> DEFINE g == [http EXCEPT ![i].ans = b]
           r == [op |-> http[i].op, at |-> http[i].at, arg |-> http[i].arg,
                 ans |-> b, live |-> http[i].live]
<1>1. Typed(g)
  BY AnswerKeeps DEF Orderly, Keeps
<1>2. i \in Slot /\ http[i] # NoRequest
  BY DEF InFlight
<1>3. http[i] = [op |-> http[i].op, at |-> http[i].at, arg |-> http[i].arg,
                 ans |-> http[i].ans, live |-> http[i].live]
  BY <1>2 DEF Orderly, Typed
<1>4. [http[i] EXCEPT !.ans = b] = r
  BY <1>3
<1>5. \A j \in Slot : g[j] = IF j = i THEN r ELSE http[j]
  BY <1>4 DEF Orderly, Typed
<1>6. r.op = http[i].op /\ r.at = http[i].at /\ r.live = http[i].live
  OBVIOUS
<1> HIDE DEF g, r
<1>7. Orderly(g, t)
  BY <1>1, <1>2, <1>5, <1>6 DEF Orderly, OneLoad, Belongs
<1> QED BY <1>7 DEF g

-----------------------------------------------------------------------------
(* The server and the replies.                                             *)

\* The server writes one answer, and numbers the revisions.
LEMMA AnswerTyped ==
  ASSUME PanelInv, NEW i \in Slot, Answer(i)
  PROVE  PanelInv'
<1> DEFINE r == http[i]
<1>0. i \in InFlight /\ NumberOK(db) /\ {"conn", "lost"} \subseteq DOMAIN db
  BY DEF Answer, PanelInv, NumberOK
<1>1. ASSUME NEW b, http' = [http EXCEPT ![i].ans = b], NumberOK(db'), UNCHANGED <<tab, ui>>
      PROVE  PanelInv'
  <2>1. Orderly(http', tour)
    BY <1>0, <1>1, AnswerOrderly DEF PanelInv
  <2> QED BY <1>1, <2>1 DEF PanelInv, TabOK, tab
<1>2. ASSUME NEW newdb, NEW a, Serve(i, newdb, a), NumberOK(newdb) PROVE PanelInv'
  <2>1. NumberOK(db')
    BY <1>2 DEF Serve, NumberOK
  <2>2. UNCHANGED <<tab, ui>>
    BY <1>2 DEF Serve
  <2>3. http' = [http EXCEPT ![i].ans = a] \/ http' = [http EXCEPT ![i].ans = Failed]
    BY <1>2 DEF Serve
  <2> QED BY <1>1, <2>1, <2>2, <2>3
<1>3. ASSUME NEW a, Serve(i, db, a) PROVE PanelInv'
  BY <1>0, <1>2, <1>3
<1>4. ASSUME NEW newdb, NEW a, Serve(i, newdb, a), {"conn", "lost"} \subseteq DOMAIN newdb,
             newdb.conn = db.conn
      PROVE  PanelInv'
  BY <1>0, <1>2, <1>4 DEF NumberOK
<1>5. CASE Refuse(i)
  <2>1. NumberOK(db') /\ UNCHANGED <<tab, ui>>
    BY <1>0, <1>5 DEF Refuse, NumberOK
  <2> QED BY <1>1, <1>5, <2>1 DEF Refuse
<1>6. CASE ServeAction(i)
  BY <1>0, <1>4, <1>6 DEF ServeAction
<1>7. CASE ServeSubmit(i)
  <2>1. Stored(r.arg).conn = db.conn /\ {"conn", "lost"} \subseteq DOMAIN Stored(r.arg)
    BY <1>0 DEF Stored
  <2> QED BY <1>4, <1>7, <2>1 DEF ServeSubmit
<1>8. CASE ServeServer(i)
  BY <1>0, <1>3, <1>4, <1>8 DEF ServeServer
<1>9. CASE ServeOrder(i)
  BY <1>0, <1>4, <1>9 DEF ServeOrder
<1>10. CASE ServeConnection(i)
  <2> DEFINE saved == [rev |-> db.conn.rev + 1, value |-> r.arg.value]
  <2>1. NumberOK([db EXCEPT !.conn = saved])
    BY <1>0 DEF NumberOK
  <2> QED BY <1>2, <1>3, <1>10, <2>1 DEF ServeConnection
<1>11. CASE ServeTrial(i)
  BY <1>0, <1>3, <1>4, <1>11 DEF ServeTrial
<1>12. CASE ServeTexts(i)
  BY <1>0, <1>3, <1>4, <1>12 DEF ServeTexts
<1> QED
  BY <1>3, <1>5, <1>6, <1>7, <1>8, <1>9, <1>10, <1>11, <1>12 DEF Answer, ServeTest, ServeBackup

\* From u to w no page appears or is turned.
SamePage(u, w) == "page" \in DOMAIN w => "page" \in DOMAIN u /\ w.page = u.page

\* A change of other fields.
LEMMA FieldsApart ==
  ASSUME NEW u
  PROVE  /\ \A x : /\ SamePage(u, [u EXCEPT !.error = x]) /\ SamePage(u, [u EXCEPT !.loading = x])
                   /\ SamePage(u, [u EXCEPT !.data = x]) /\ SamePage(u, [u EXCEPT !.busy = x])
                   /\ SamePage(u, [u EXCEPT !.saving = x]) /\ SamePage(u, [u EXCEPT !.items = x])
                   /\ SamePage(u, [u EXCEPT !.refreshing = x])
                   /\ SamePage(u, [u EXCEPT !.order = x]) /\ SamePage(u, [u EXCEPT !.form = x])
                   /\ SamePage(u, [u EXCEPT !.form.secret = x])
                   /\ SamePage(u, [u EXCEPT !.targets = x]) /\ SamePage(u, [u EXCEPT !.file = x])
                   /\ SamePage(u, [u EXCEPT !.typed = x]) /\ SamePage(u, [u EXCEPT !.need = x])
                   /\ SamePage(u, [u EXCEPT !.resetting = x])
                   /\ SamePage(u, [u EXCEPT !.pending = x]) /\ SamePage(u, [u EXCEPT !.stale = x])
                   /\ SamePage(u, [u EXCEPT !.polling = x]) /\ SamePage(u, [u EXCEPT !.shown = x])
                   /\ SamePage(u, [u EXCEPT !.selected = x]) /\ SamePage(u, [u EXCEPT !.draft = x])
                   /\ SamePage(u, [u EXCEPT !.filter = x])
         /\ SamePage(u, u)
  BY DEF SamePage

\* One after another.
LEMMA FurtherApart ==
  ASSUME NEW u, NEW v, NEW w, SamePage(u, v), SamePage(v, w)
  PROVE  SamePage(u, w)
  BY DEF SamePage

\* New data turn no page.
LEMMA FilledApart ==
  ASSUME NEW u, NEW data
  PROVE  SamePage(u, Filled(u, data)) /\ SamePage(u, FilledConnection(u, data))
<1>1. SamePage(u, FilledConnection(u, data))
  BY DEF FilledConnection, SamePage
<1>2. /\ SamePage(u, FilledDashboard(u, data)) /\ SamePage(u, FilledServers(u, data))
      /\ SamePage(u, FilledOrder(u, data)) /\ SamePage(u, FilledBackup(u, data))
      /\ SamePage(u, FilledTrial(u, data))
  BY DEF FilledDashboard, FilledServers, FilledOrder, FilledBackup, FilledTrial, SamePage
<1>3. SamePage(u, [u EXCEPT !.data = data, !.loading = FALSE])
  BY DEF SamePage
<1> QED BY <1>1, <1>2, <1>3 DEF Filled

\* Nor does loading, or another text.
LEMMA SettledApart ==
  ASSUME NEW u
  PROVE  SamePage(u, StartLoading(u)) /\ SamePage(u, Settled(u))
<1>1. SamePage(u, StartLoading(u))
  BY DEF StartLoading, SamePage
<1>2. SamePage(u, Settled(u))
  BY DEF Settled, SamePage
<1> QED BY <1>1, <1>2

\* How a handler ends: its request is done with, and it sends one more at most.
Ends(i) ==
    /\ UNCHANGED <<tab, db>> /\ SamePage(ui, ui')
    /\ \/ http' = Remove(i)
       \/ \E op, arg : /\ op # "load" /\ Homed(op, section)
                       /\ http' = Put(Remove(i), Request(op, section, arg))
       \/ http' = StartLoad(Remove(i), section, ui, query)
Logs(i) == RequireLogin(Remove(i)) /\ UNCHANGED db

\* Either way everything keeps its type.
LEMMA EndsTyped ==
  ASSUME PanelInv, NEW i \in Slot, Ends(i) \/ Logs(i)
  PROVE  PanelInv'
<1>1. Orderly(Remove(i), tour) /\ section \in tour
  BY RemoveOrderly DEF PanelInv, TabOK
<1>2. CASE Ends(i)
  <2>1. Orderly(http', tour)
    BY <1>1, <1>2, PutOrderly, LoadOrderly DEF Ends
  <2>2. UNCHANGED <<tab, db>> /\ SamePage(ui, ui')
    BY <1>2 DEF Ends
  <2>3. PageOK(ui')
    BY <2>2 DEF PanelInv, PageOK, SamePage
  <2> QED BY <2>1, <2>2, <2>3 DEF PanelInv, TabOK, NumberOK, tab
<1>3. CASE Logs(i)
  <2>1. Orderly(http', tour)
    BY <1>1, <1>3, UnmountOrderly DEF Logs, RequireLogin
  <2>2. PageOK(ui')
    BY <1>3 DEF Logs, RequireLogin, PageOK
  <2>3. TabOK' /\ tour' = tour /\ NumberOK(db')
    BY <1>3 DEF Logs, RequireLogin, PanelInv, TabOK, NumberOK
  <2> QED BY <2>1, <2>2, <2>3 DEF PanelInv
<1> QED BY <1>2, <1>3

\* setReloadKey at the end of a handler.
LEMMA ReloadEnds ==
  ASSUME NEW i, Reload(Remove(i)), UNCHANGED <<tab, db>>
  PROVE  Ends(i)
<1>1. SamePage(ui, StartLoading(ui)) /\ SamePage(ui, ui)
  BY SettledApart, FieldsApart
<1> QED BY <1>1 DEF Reload, Ends

\* A reply behind the notice, or one that leads there.
LEMMA AuthEnds ==
  ASSUME NEW i, AuthReply(i)
  PROVE  Ends(i) \/ Logs(i)
<1>1. SamePage(ui, ui)
  BY FieldsApart
<1> QED BY <1>1 DEF AuthReply, Ends, Logs

\* A handler that ends.
LEMMA FinishEnds ==
  ASSUME NEW i, NEW u, SamePage(ui, u), Finish(i, u)
  PROVE  Ends(i)
  BY DEF Finish, Ends

\* A handler that reads the settings again.
LEMMA RefetchEnds ==
  ASSUME NEW i, NEW what, Refetch(i, ui, what),
         section \in {"servers", "connection", "backup", "test-account"}
  PROVE  Ends(i)
<1>1. Homed("refetch", section) /\ SamePage(ui, ui)
  BY FieldsApart DEF Homed
<1> QED BY <1>1 DEF Refetch, Ends

\* Where the handler of a request of a section is answered.
LEMMA MountedHome ==
  ASSUME SectionsInv, PanelInv, NEW i \in Slot, http[i] # NoRequest, http[i].live,
         http[i].op \notin ShellOps
  PROVE  Homed(http[i].op, section)
<1>1. http[i].at = section
  BY Mounted
<1> QED BY <1>1 DEF PanelInv, Orderly, Belongs

\* The replies to a form, to a card, and to a handler that is gone.
LEMMA ShellReplyTyped ==
  ASSUME NEW i \in Slot, LateReply(i) \/ ActionReply(i) \/ TestReply(i) \/ SubmitReply(i)
  PROVE  Ends(i) \/ Logs(i)
<1> USE AuthEnds, ReloadEnds
<1>1. SamePage(ui, ui)
  BY FieldsApart
<1>2. CASE LateReply(i)
  BY <1>1, <1>2 DEF LateReply, Ends, Logs
<1>3. CASE ActionReply(i)
  BY <1>1, <1>3 DEF ActionReply, AfterAction, Ends
<1>4. CASE TestReply(i)
  BY <1>1, <1>4 DEF TestReply, Ends
<1>5. CASE SubmitReply(i)
  BY <1>1, <1>5 DEF SubmitReply, Ends
<1> QED BY <1>2, <1>3, <1>4, <1>5

\* The replies to the reads of a section.
LEMMA ReadReplyTyped ==
  ASSUME SectionsInv, PanelInv, NEW i \in Slot,
         \/ LoadReply(i, Filled(ui, http[i].ans)) \/ PollReply(i) \/ ResetRevenueReply(i)
         \/ RefetchReply(i) \/ TextsReply(i)
  PROVE  Ends(i) \/ Logs(i)
<1> DEFINE r == http[i]
<1>1. CASE LoadReply(i, Filled(ui, r.ans))
  <2>1. SamePage(ui, Filled(ui, r.ans)) /\ SamePage(ui, [ui EXCEPT !.error = TRUE, !.loading = FALSE])
    BY FilledApart DEF SamePage
  <2> QED BY <1>1, <2>1 DEF LoadReply, Ends, Logs
<1>2. CASE PollReply(i)
  <2>1. SamePage(ui, [ui EXCEPT !.stale = r.ans = Failed, !.pending = PendingAfter(r.ans = Failed)])
    BY DEF SamePage
  <2> QED BY <1>2, <2>1 DEF PollReply, Ends, Logs
<1>3. CASE ResetRevenueReply(i)
  <2>1. SamePage(ui, [ui EXCEPT !.resetting = FALSE, !.error = @ /\ r.ans \in {Failed, Unauthorized}])
    BY DEF SamePage
  <2> QED BY <1>3, <2>1 DEF ResetRevenueReply, Ends
<1>4. CASE RefetchReply(i)
  <2> DEFINE w == Refetched(ui, r.ans)
             what == r.arg.what
  <2>1. r # NoRequest /\ r.live /\ r.op = "refetch"
    BY <1>4 DEF RefetchReply, Arrived, Live, InFlight
  <2>2. Homed(r.op, section)
    BY <2>1, MountedHome DEF ShellOps
  <2>3. section \in {"servers", "connection", "backup", "test-account"}
    BY <2>1, <2>2 DEF Homed
  <2>4. SamePage(ui, w)
    <3>1. SamePage(ui, [FilledConnection(ui, r.ans) EXCEPT !.loading = ui.loading])
      BY FilledApart, FieldsApart, FurtherApart
    <3>2. /\ SamePage(ui, ui) /\ SamePage(ui, [ui EXCEPT !.data = r.ans])
          /\ SamePage(ui, [ui EXCEPT !.data = r.ans, !.targets = r.ans])
      BY DEF SamePage
    <3> QED BY <2>3, <3>1, <3>2 DEF Refetched
  <2> HIDE DEF w
  <2>5. ASSUME NEW u, SamePage(ui, u) PROVE SamePage(ui, Ended(u, what))
    <3>1. SamePage(u, Ended(u, what))
      BY FieldsApart DEF Ended, Unlocked
    <3> QED BY <2>5, <3>1, FurtherApart
  <2>6. Finish(i, Ended(w, what)) \/ Finish(i, Ended(ui, what)) \/ AuthReply(i)
    BY <1>4 DEF RefetchReply, w
  <2> QED BY <2>4, <2>5, <2>6, FinishEnds, AuthEnds, FieldsApart
<1>5. CASE TextsReply(i)
  <2> DEFINE u == [ui EXCEPT !.loading = FALSE, !.saving = @ /\ ~r.arg.saves]
             key == IF r.arg.key \in Keys THEN r.arg.key ELSE FirstOf(Keys)
             v == [u EXCEPT !.data = r.ans, !.selected = key, !.error = FALSE]
             w == [u EXCEPT !.error = u.data = None]
  <2>1. SamePage(ui, u)
    BY DEF SamePage
  <2>2. \/ ui' = Settled(v) /\ http' = Remove(i) /\ UNCHANGED <<tab, db>>
        \/ ui' = w /\ http' = Remove(i) /\ UNCHANGED <<tab, db>>
        \/ AuthReply(i)
    BY <1>5 DEF TextsReply
  <2> HIDE DEF u
  <2>3. SamePage(ui, v) /\ SamePage(ui, w)
    BY <2>1 DEF SamePage
  <2> HIDE DEF v, w
  <2>4. SamePage(ui, Settled(v))
    BY <2>3, SettledApart, FurtherApart
  <2> QED BY <2>2, <2>3, <2>4, AuthEnds DEF Ends
<1> QED BY <1>1, <1>2, <1>3, <1>4, <1>5

\* The replies to what a section has sent to be stored.
LEMMA SentReplyTyped ==
  ASSUME SectionsInv, PanelInv, NEW i \in Slot,
         \/ ServerReply(i) \/ OrderReply(i) \/ ConnectionReply(i) \/ BackupReply(i)
         \/ TrialReply(i) \/ TextReply(i)
  PROVE  Ends(i) \/ Logs(i)
<1> DEFINE r == http[i]
<1> USE AuthEnds
<1>1. ASSUME NEW op, Arrived(i, op), op \notin ShellOps PROVE Homed(op, section)
  <2>1. r # NoRequest /\ r.live /\ r.op = op
    BY <1>1 DEF Arrived, Live, InFlight
  <2> QED BY <1>1, <2>1, MountedHome
<1>2. CASE ServerReply(i)
  <2>1. ASSUME NEW x PROVE /\ SamePage(ui, [ui EXCEPT !.refreshing = None])
                           /\ SamePage(ui, [ui EXCEPT !.items = @ \ {x}]) /\ SamePage(ui, ui)
    BY DEF SamePage
  <2>2. Arrived(i, "sync") => section = "servers"
    BY <1>1 DEF Homed, ShellOps
  <2> QED BY <1>2, <2>1, <2>2, FinishEnds, RefetchEnds DEF ServerReply
<1>3. CASE OrderReply(i)
  <2>1. ASSUME NEW x, NEW f
        PROVE  /\ SamePage(ui, Unlocked(ui, f))
               /\ SamePage(ui, Unlocked([ui EXCEPT !.data = x, !.order = x], f))
    BY DEF SamePage, Unlocked
  <2> QED BY <1>3, <2>1, FinishEnds DEF OrderReply
<1>4. CASE ConnectionReply(i)
  <2> DEFINE u == [ui EXCEPT !.form.secret = FALSE]
             w == FilledConnection(u, r.ans)
             x == [w EXCEPT !.busy = "", !.loading = ui.loading]
  <2>1. SamePage(ui, u) /\ SamePage(u, w) /\ SamePage(ui, [ui EXCEPT !.busy = ""])
    BY FieldsApart, FilledApart
  <2> HIDE DEF u, w
  <2>2. SamePage(w, x)
    BY DEF SamePage
  <2>3. SamePage(ui, x)
    BY <2>1, <2>2, FurtherApart
  <2>4. \/ AuthReply(i)
        \/ Arrived(i, "connect") /\ Refetch(i, ui, "connection")
        \/ Finish(i, [ui EXCEPT !.busy = ""]) \/ Finish(i, x)
    BY <1>4 DEF ConnectionReply, u, w
  <2> HIDE DEF x
  <2>5. Arrived(i, "connect") => section = "connection"
    BY <1>1 DEF Homed, ShellOps
  <2> QED BY <2>1, <2>3, <2>4, <2>5, FinishEnds, RefetchEnds
<1>5. CASE BackupReply(i)
  <2>1. ASSUME NEW k
        PROVE  /\ SamePage(ui, [ui EXCEPT !.busy = ""])
               /\ SamePage(ui, [ui EXCEPT !.need = @ \cup k, !.busy = ""])
               /\ SamePage(ui, [ui EXCEPT !.file = None, !.typed = {}, !.need = {}, !.busy = ""])
    BY DEF SamePage
  <2>2. Arrived(i, "backup") => section = "backup"
    BY <1>1 DEF Homed, ShellOps
  <2> QED BY <1>5, <2>1, <2>2, FinishEnds, RefetchEnds DEF BackupReply
<1>6. CASE TrialReply(i)
  <2>1. \A f : SamePage(ui, Unlocked(ui, f)) /\ SamePage(ui, ui)
    BY DEF SamePage, Unlocked
  <2>2. Arrived(i, "trial") \/ Arrived(i, "trialreset") => section = "test-account"
    BY <1>1 DEF Homed, ShellOps
  <2> QED BY <1>6, <2>1, <2>2, FinishEnds, RefetchEnds DEF TrialReply
<1>7. CASE TextReply(i)
  <2>1. \A x : SamePage(ui, [ui EXCEPT !.saving = @ /\ ~x]) /\ SamePage(ui, ui)
    BY DEF SamePage
  <2>2. Homed("texts", section)
    BY DEF Homed
  <2> QED BY <1>7, <2>1, <2>2 DEF TextReply, Ends
<1> QED BY <1>2, <1>3, <1>4, <1>5, <1>6, <1>7

\* Every reply.
LEMMA ReplyTyped ==
  ASSUME SectionsInv, PanelInv, NEW i \in Slot, Reply(i)
  PROVE  PanelInv'
<1>1. Ends(i) \/ Logs(i)
  BY ShellReplyTyped, ReadReplyTyped, SentReplyTyped DEF Reply
<1> QED BY <1>1, EndsTyped

-----------------------------------------------------------------------------
(* What the owner does.                                                    *)

\* A handler that begins: it sends one request at most, or loads.
Begins ==
    /\ UNCHANGED <<tour, section, query, authRequired, session, db>>
    /\ visible' \in BOOLEAN /\ SamePage(ui, ui')
    /\ \/ http' = http
       \/ \E op, at, arg : /\ op # "load" /\ at \in {section, "shell"} /\ Homed(op, at)
                           /\ http' = Put(http, Request(op, at, arg))
       \/ http' = StartLoad(http, section, ui, query)

\* It leaves everything of its type.
LEMMA BeginsTyped ==
  ASSUME PanelInv, Begins
  PROVE  PanelInv'
<1>1. Orderly(http, tour) /\ section \in tour
  BY DEF PanelInv, TabOK
<1>2. Orderly(http', tour)
  BY <1>1, PutOrderly, LoadOrderly DEF Begins
<1>3. PageOK(ui')
  BY DEF PanelInv, Begins, PageOK, SamePage
<1>4. TabOK' /\ NumberOK(db')
  BY DEF PanelInv, Begins, TabOK, NumberOK
<1> QED BY <1>2, <1>3, <1>4 DEF PanelInv, Begins

\* A handler of a section that sends a request.
LEMMA SendBegins ==
  ASSUME PanelInv, NEW u, SamePage(ui, u), NEW op, op # "load", Homed(op, section), NEW arg,
         Send(u, op, arg)
  PROVE  Begins
  BY DEF Send, Begins, PanelInv, TabOK, tab

\* One that edits what is shown.
LEMMA EditBegins ==
  ASSUME PanelInv, NEW u, SamePage(ui, u), Edit(u)
  PROVE  Begins
  BY DEF Edit, Begins, PanelInv, TabOK, tab

\* setReloadKey by the owner, or by the timer.
LEMMA ReloadBegins ==
  ASSUME PanelInv, Reload(http), UNCHANGED <<tab, db>>
  PROVE  Begins
<1>1. SamePage(ui, StartLoading(ui)) /\ SamePage(ui, ui)
  BY SettledApart, FieldsApart
<1> QED BY <1>1 DEF Reload, Begins, PanelInv, TabOK, tab

\* There is a first page.
LEMMA FirstPage == 1 \in 1..LastPage
<1>1. LastPage \in Nat /\ LastPage # 0
  BY ShellAssumption
<1> QED BY <1>1

\* A section that is mounted shows its first page.
LEMMA FreshPage == \A s : PageOK(Fresh(s))
<1> SUFFICES ASSUME NEW s PROVE PageOK(Fresh(s))
  OBVIOUS
<1>2. CASE s = "users"
  <2>1. Fresh(s).page = 1
    BY <1>2 DEF Fresh, Ordered
  <2> QED BY <2>1, FirstPage DEF PageOK
<1>3. CASE s # "users"
  <2>1. \/ Fresh(s) \in {FreshDashboard, FreshServers, FreshOrder, FreshConnection}
        \/ Fresh(s) \in {FreshBackup, FreshTrial, FreshTexts, Blank}
    BY <1>3 DEF Fresh
  <2>2. /\ "page" \notin DOMAIN FreshDashboard /\ "page" \notin DOMAIN FreshServers
        /\ "page" \notin DOMAIN FreshOrder /\ "page" \notin DOMAIN FreshConnection
        /\ "page" \notin DOMAIN FreshBackup /\ "page" \notin DOMAIN FreshTrial
        /\ "page" \notin DOMAIN FreshTexts /\ "page" \notin DOMAIN Blank
    BY DEF FreshDashboard, FreshServers, FreshOrder, FreshConnection, FreshBackup, FreshTrial,
           FreshTexts, Blank
  <2> QED BY <2>1, <2>2 DEF PageOK
<1> QED BY <1>2, <1>3

\* The users list loads the page p that is chosen.
LEMMA PageTyped ==
  ASSUME PanelInv, NEW p \in 1..LastPage, NEW v, NEW q \in Queries, section = "users",
         http' = StartLoad(http, "users", v, q), ui' = [StartLoading(ui) EXCEPT !.page = p],
         query' = q, UNCHANGED <<tour, section, authRequired, session, visible, db>>
  PROVE  PanelInv'
<1>1. Orderly(http', tour)
  BY LoadOrderly DEF PanelInv, TabOK
<1>2. PageOK(ui')
  BY DEF PageOK
<1>3. TabOK' /\ NumberOK(db')
  BY DEF PanelInv, TabOK, NumberOK
<1> QED BY <1>1, <1>2, <1>3 DEF PanelInv

\* Links, the search, the timers and the cards.
LEMMA BrowseTyped ==
  ASSUME PanelInv, Browse
  PROVE  PanelInv'
<1>0. SamePage(ui, ui) /\ 1 \in 1..LastPage
  BY FieldsApart, FirstPage
<1>1. ASSUME NEW s \in tour, OpenSection(s, Fresh(s)) PROVE PanelInv'
  <2>1. Orderly(http', tour)
    BY <1>1, UnmountOrderly, LoadOrderly DEF OpenSection, PanelInv
  <2>2. PageOK(ui')
    BY <1>1, FreshPage DEF OpenSection
  <2>3. TabOK' /\ NumberOK(db') /\ tour' = tour
    BY <1>1 DEF OpenSection, PanelInv, TabOK, NumberOK
  <2> QED BY <2>1, <2>2, <2>3 DEF PanelInv
<1>2. CASE LoginAgain(Fresh(section))
  <2>1. Orderly(http', tour)
    BY <1>2, NothingOrderly, LoadOrderly DEF LoginAgain, PanelInv, TabOK
  <2>2. PageOK(ui')
    BY <1>2, FreshPage DEF LoginAgain
  <2>3. TabOK' /\ NumberOK(db') /\ tour' = tour
    BY <1>2, ShellAssumption DEF LoginAgain, PanelInv, TabOK, NumberOK
  <2> QED BY <2>1, <2>2, <2>3 DEF PanelInv
<1>3. CASE Refresh \/ RefreshCycle
  BY <1>3, ReloadBegins, BeginsTyped DEF Refresh, RefreshCycle
<1>4. CASE SessionEnds
  BY <1>4 DEF SessionEnds, PanelInv, TabOK, NumberOK
<1>5. ASSUME NEW q \in Queries, SetQuery(q) PROVE PanelInv'
  <2>1. CASE section = "users"
    BY <1>0, <1>5, <2>1, PageTyped DEF SetQuery
  <2>2. CASE section # "users"
    BY <1>5, <2>2 DEF SetQuery, PanelInv, TabOK, NumberOK
  <2> QED BY <2>1, <2>2
<1>6. ASSUME NEW p, TurnPage(p) PROVE PanelInv'
  <2>1. p \in 1..LastPage /\ section = "users" /\ query \in Queries
    BY <1>6 DEF TurnPage, PagesFrom, Usable, PanelInv, TabOK
  <2> QED BY <1>6, <2>1, PageTyped DEF TurnPage, tab
<1>7. CASE PollTick \/ ToggleVisible
  <2>1. SamePage(ui, [ui EXCEPT !.pending = TRUE]) /\ Homed("poll", section)
    BY FieldsApart DEF Homed
  <2>2. Begins
    BY <1>0, <1>7, <2>1 DEF PollTick, ToggleVisible, Poll, Begins, PanelInv, TabOK, tab
  <2> QED BY <2>2, BeginsTyped
<1>8. CASE ResetRevenue
  <2>1. SamePage(ui, [ui EXCEPT !.resetting = TRUE]) /\ Homed("revenue", section)
    BY FieldsApart DEF Homed
  <2>2. Begins
    BY <1>8, <2>1 DEF ResetRevenue, Begins, PanelInv, TabOK, tab
  <2> QED BY <2>2, BeginsTyped
<1>9. ASSUME NEW x, RunAction(x) PROVE PanelInv'
  <2>1. Homed("action", "shell")
    BY DEF Homed
  <2>2. Begins
    BY <1>0, <1>9, <2>1 DEF RunAction, Begins, PanelInv, TabOK, tab
  <2> QED BY <2>2, BeginsTyped
<1> QED
  BY <1>1, <1>2, <1>3, <1>4, <1>5, <1>6, <1>7, <1>8, <1>9 DEF Browse

\* The forms.
LEMMA UseFormTyped ==
  ASSUME PanelInv, UseForm
  PROVE  PanelInv'
<1>0. SamePage(ui, ui)
  BY FieldsApart
<1>1. CASE CloseForm
  <2>1. ASSUME NEW i \in Slot, http'[i] # NoRequest
        PROVE  /\ http[i] # NoRequest /\ http'[i].op = http[i].op /\ http'[i].at = http[i].at
               /\ http'[i].live = http[i].live \/ http'[i].live = FALSE
               /\ http'[i] = [op |-> http'[i].op, at |-> http'[i].at, arg |-> http'[i].arg,
                              ans |-> http'[i].ans, live |-> http'[i].live]
    <3>1. CASE i \in Live("test")
      <4>1. http[i] # NoRequest /\ http'[i] = [http[i] EXCEPT !.live = FALSE]
        BY <1>1, <3>1 DEF CloseForm, Live, InFlight
      <4>2. http[i] = [op |-> http[i].op, at |-> http[i].at, arg |-> http[i].arg,
                       ans |-> http[i].ans, live |-> http[i].live]
        BY <4>1 DEF PanelInv, Orderly, Typed
      <4>3. http'[i] = [op |-> http[i].op, at |-> http[i].at, arg |-> http[i].arg,
                        ans |-> http[i].ans, live |-> FALSE]
        BY <4>1, <4>2
      <4> QED BY <4>1, <4>3
    <3>2. CASE i \notin Live("test")
      <4>1. http'[i] = http[i]
        BY <1>1, <3>2 DEF CloseForm
      <4> QED BY <2>1, <4>1 DEF PanelInv, Orderly, Typed
    <3> QED BY <3>1, <3>2
  <2>2. http' = [i \in Slot |-> http'[i]]
    BY <1>1 DEF CloseForm
  <2>3. Typed(http')
    BY <2>1, <2>2 DEF Typed
  <2>4. OneLoad(http')
    BY <2>1 DEF PanelInv, Orderly, OneLoad
  <2>5. \A i \in Slot : Belongs(http'[i], tour)
    BY <2>1 DEF PanelInv, Orderly, Belongs
  <2>6. UNCHANGED <<tab, ui, db>>
    BY <1>1 DEF CloseForm
  <2>7. TabOK' /\ tour' = tour
    BY <2>6 DEF PanelInv, TabOK, tab
  <2>8. PageOK(ui') /\ NumberOK(db')
    BY <2>6 DEF PanelInv, NumberOK
  <2> QED BY <2>3, <2>4, <2>5, <2>7, <2>8 DEF PanelInv, Orderly
<1>2. CASE TestServer \/ SubmitForm
  <2>1. Homed("test", "shell") /\ Homed("submit", "shell")
    BY DEF Homed
  <2>2. Begins
    BY <1>0, <1>2, <2>1 DEF TestServer, SubmitForm, Begins, PanelInv, TabOK, tab
  <2> QED BY <2>2, BeginsTyped
<1>3. ASSUME NEW s, NEW v, OpenForm(s, v) PROVE PanelInv'
  BY <1>3 DEF OpenForm, PanelInv, TabOK, NumberOK
<1>4. ASSUME NEW v, Put1(v) PROVE PanelInv'
  BY <1>4 DEF Put1, PanelInv, TabOK, NumberOK, tab
<1> QED
  BY <1>1, <1>2, <1>3, <1>4 DEF UseForm, ChangeType, ChangeServer, ChangeMode, ToggleInbound,
                                ToggleServer, SetResellerPolicy

\* The sections with a draft or an order.
LEMMA UseSectionTyped ==
  ASSUME PanelInv, UseSection
  PROVE  PanelInv'
<1>0. SamePage(ui, ui)
  BY FieldsApart
<1>1. ASSUME NEW x, RefreshOne(x) \/ DeleteServer(x) PROVE Begins
  <2>1. section = "servers"
    BY <1>1 DEF RefreshOne, DeleteServer, Usable
  <2>2. Homed("sync", section) /\ Homed("remove", section) /\ SamePage(ui, [ui EXCEPT !.refreshing = x])
    BY <2>1, FieldsApart DEF Homed
  <2> QED BY <1>0, <1>1, <2>2, SendBegins DEF RefreshOne, DeleteServer
<1>2. ASSUME NEW x, ChooseTarget(x) PROVE Begins
  BY <1>2, FieldsApart, EditBegins DEF ChooseTarget
<1>3. ASSUME NEW s, NEW x, NEW y, Drop(s, x, y) PROVE Begins
  <2>1. \A l : SamePage(ui, [ui EXCEPT !.saving = TRUE, !.order = l])
    BY DEF SamePage
  <2>2. Homed("order", section)
    BY DEF Homed
  <2>3. PICK u, l : Send(u, "order", l) /\ SamePage(ui, u)
    <3> DEFINE next == Moved(Reordered(s), x, y)
               m == IF s = "service-types" THEN ui.order ELSE next
    <3>1. Send([ui EXCEPT !.saving = TRUE, !.order = m], "order", [list |-> next])
      BY <1>3 DEF Drop
    <3> HIDE DEF next, m
    <3> QED BY <2>1, <3>1
  <2> QED BY <2>2, <2>3, SendBegins
<1>4. ASSUME NEW f, TypeConnection(f) PROVE Begins
  BY <1>4, FieldsApart, EditBegins DEF TypeConnection
<1>5. ASSUME NEW k, SendConnection(k) PROVE Begins
  <2>1. section = "connection"
    BY <1>5 DEF SendConnection, Usable
  <2>2. Homed("connect", section)
    BY <2>1 DEF Homed
  <2> QED BY <1>5, <2>2, FieldsApart, SendBegins DEF SendConnection
<1>6. ASSUME NEW k, RunBackup(k) PROVE Begins
  <2>1. section = "backup"
    BY <1>6 DEF RunBackup, Usable
  <2>2. Homed("backup", section)
    BY <2>1 DEF Homed
  <2> QED BY <1>6, <2>2, FieldsApart, SendBegins DEF RunBackup
<1>7. ASSUME NEW f, ChooseFile(f) PROVE Begins
  <2>1. \A x : SamePage(ui, [ui EXCEPT !.file = f, !.typed = x, !.need = {}])
    BY DEF SamePage
  <2> QED BY <1>7, <2>1, EditBegins DEF ChooseFile
<1>8. ASSUME NEW k, TypeSecret(k) PROVE Begins
  BY <1>8, FieldsApart, EditBegins DEF TypeSecret
<1>9. ASSUME RestoreBackup PROVE Begins
  <2>1. Homed("restore", section) /\ SamePage(ui, [ui EXCEPT !.busy = "restore"])
    BY FieldsApart DEF Homed
  <2> QED BY <1>9, <2>1, SendBegins DEF RestoreBackup
<1>10. ASSUME SaveTrial \/ ResetTrial PROVE Begins
  <2>1. section = "test-account"
    BY <1>10 DEF SaveTrial, ResetTrial, Usable
  <2>2. Homed("trial", section) /\ Homed("trialreset", section)
    BY <2>1 DEF Homed
  <2>3. SamePage(ui, [ui EXCEPT !.saving = TRUE])
    BY FieldsApart
  <2> QED BY <1>0, <1>10, <2>2, <2>3, SendBegins DEF SaveTrial, ResetTrial
<1>11. ASSUME NEW x, NEW b, ToggleTarget(x, b) PROVE Begins
  BY <1>11, FieldsApart, EditBegins DEF ToggleTarget
<1>12. ASSUME UNCHANGED <<tab, http, db>>, SamePage(ui, ui') PROVE Begins
  BY <1>12 DEF Begins, PanelInv, TabOK, tab
<1>13. ASSUME NEW k, SelectText(k) \/ FilterTexts(k) PROVE Begins
  <2>1. /\ SamePage(ui, Settled([ui EXCEPT !.selected = k]))
        /\ SamePage(ui, Settled([ui EXCEPT !.filter = k]))
    BY FieldsApart, SettledApart, FurtherApart
  <2> QED BY <1>12, <1>13, <2>1 DEF SelectText, FilterTexts
<1>14. ASSUME TypeText PROVE Begins
  <2>1. SamePage(ui, [ui EXCEPT !.draft = <<ui.shown, TRUE>>])
    BY FieldsApart
  <2> QED BY <1>12, <1>14, <2>1 DEF TypeText
<1>15. ASSUME SaveText PROVE Begins
  <2>1. Homed("text", section) /\ SamePage(ui, [ui EXCEPT !.saving = TRUE])
    BY FieldsApart DEF Homed
  <2>2. visible' \in BOOLEAN /\ UNCHANGED <<tour, section, query, authRequired, session, db>>
    BY <1>15 DEF SaveText, PanelInv, TabOK, tab
  <2> QED BY <1>15, <2>1, <2>2 DEF SaveText, Begins
<1>16. ASSUME NEW k, ResetTexts(k) PROVE Begins
  <2>1. Homed("resettext", section)
    BY DEF Homed
  <2> QED BY <1>0, <1>16, <2>1 DEF ResetTexts, Begins, PanelInv, TabOK, tab
<1>17. Begins
  BY <1>1, <1>2, <1>3, <1>4, <1>5, <1>6, <1>7, <1>8, <1>9, <1>10, <1>11, <1>13, <1>14, <1>15,
     <1>16 DEF UseSection
<1> QED BY <1>17, BeginsTyped

-----------------------------------------------------------------------------
(* Every step.                                                             *)

\* The panel starts with one load, or one read of the texts.
LEMMA PanelInit == Init => PanelInv
<1> SUFFICES ASSUME Init PROVE PanelInv
  OBVIOUS
<1>1. TabOK
  BY ShellAssumption DEF Init, TabOK
<1>2. Orderly(http, tour)
  BY <1>1, NothingOrderly, LoadOrderly DEF Init, TabOK
<1>3. PageOK(ui)
  BY FreshPage DEF Init
<1>4. NumberOK(db)
  BY DEF Init, NumberOK
<1> QED BY <1>1, <1>2, <1>3, <1>4 DEF PanelInv

\* Every step keeps the types.
LEMMA PanelStep == SectionsInv /\ PanelInv /\ [Next]_vars => PanelInv'
<1> SUFFICES ASSUME SectionsInv, PanelInv, [Next]_vars PROVE PanelInv'
  OBVIOUS
<1>1. CASE UNCHANGED vars
  BY <1>1 DEF vars, tab, PanelInv, TabOK, NumberOK
<1> QED
  BY <1>1, AnswerTyped, ReplyTyped, BrowseTyped, UseFormTyped, UseSectionTyped DEF Next

\* What the panel holds has its type for every tour: one load at most is on its
\* way, every request belongs to the shell or to a section of the tour, the
\* users list shows a page it has, and the dialog is one of its forms.
THEOREM PanelTypes == Spec => []TypeOK
<1>1. Spec => []PanelInv
  BY PanelInit, PanelStep, SectionsHold, PTL DEF Spec
<1>2. PanelInv /\ FormsInv => TypeOK
  <2> SUFFICES ASSUME PanelInv, FormsInv PROVE TypeOK
    OBVIOUS
  <2>1. opened \in 0..MaxOpened /\ dialog \in Dialogs \cup {None}
    BY DEF FormsInv, DialogOK
  <2>2. \A i \in InFlight : http[i].at \in tour \cup {"shell"} /\ http[i].live \in BOOLEAN
    BY DEF PanelInv, Orderly, Belongs, InFlight
  <2>3. \A i, j \in Live("load") : i = j
    BY DEF PanelInv, Orderly, OneLoad, Live, InFlight
  <2> QED BY <2>1, <2>2, <2>3 DEF PanelInv, TabOK, PageOK, NumberOK, TypeOK
<1> QED BY <1>1, <1>2, FormsHold, PTL

=============================================================================
