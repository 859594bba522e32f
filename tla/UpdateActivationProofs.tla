----------------------- MODULE UpdateActivationProofs -----------------------
(***************************************************************************)
(* Theorems about UpdateActivation, for every number of releases, updates  *)
(* and mishaps and every number of retained slots.                         *)
(***************************************************************************)
EXTENDS UpdateActivation, SequenceTheorems, TLAPS

-----------------------------------------------------------------------------
(* Slot pointers *)

\* The retained slots are a short sequence without repetitions.
LEMMA SlotListsAre ==
    ASSUME NEW s
    PROVE  s \in SlotLists <=> /\ s \in Seq(Versions) /\ Len(s) <= Keep
                               /\ \A i, j \in 1..Len(s) : s[i] = s[j] => i = j
<1>1. ASSUME s \in SlotLists
      PROVE  s \in Seq(Versions) /\ Len(s) <= Keep /\ DOMAIN s = 1..Len(s)
  <2>1. PICK n \in 0..Keep : s \in [1..n -> Versions]
    BY <1>1 DEF SlotLists
  <2>2. n \in Nat
    BY <2>1, BoundsAssumption
  <2>3. s \in Seq(Versions) /\ Len(s) = n
    BY <2>1, <2>2
  <2> QED BY <2>1, <2>3
<1>2. ASSUME s \in Seq(Versions), Len(s) <= Keep
      PROVE  s \in UNION {[1..n -> Versions] : n \in 0..Keep} /\ DOMAIN s = 1..Len(s)
  <2>1. Len(s) \in 0..Keep /\ s \in [1..Len(s) -> Versions]
    BY <1>2, BoundsAssumption
  <2> QED BY <2>1
<1> QED BY <1>1, <1>2 DEF SlotLists

\* The first n elements.
LEMMA TakeIs ==
    ASSUME NEW s \in Seq(Versions), NEW n \in Nat
    PROVE  /\ Take(s, n) \in Seq(Versions)
           /\ Len(Take(s, n)) = IF n < Len(s) THEN n ELSE Len(s)
           /\ \A i \in 1..Len(Take(s, n)) : Take(s, n)[i] = s[i]
<1> DEFINE m == IF n < Len(s) THEN n ELSE Len(s)
<1>1. m \in 0..Len(s) /\ m \in Nat
  OBVIOUS
<1>2. Take(s, n) = SubSeq(s, 1, m)
  BY DEF Take
<1> HIDE DEF m
<1>3. /\ SubSeq(s, 1, m) \in Seq(Versions) /\ Len(SubSeq(s, 1, m)) = m
      /\ \A i \in 1..m : SubSeq(s, 1, m)[i] = s[i]
  BY <1>1, SubSeqProperties
<1> QED BY <1>2, <1>3 DEF m

\* Moving or adding v to the front.
LEMMA Front1Is ==
    ASSUME NEW s \in Seq(Versions), \A i, j \in 1..Len(s) : s[i] = s[j] => i = j,
           NEW v \in Versions
    PROVE  /\ Front1(v, s) \in Seq(Versions)
           /\ Len(Front1(v, s)) \in 1..(Len(s) + 1)
           /\ Front1(v, s)[1] = v
           /\ \A i, j \in 1..Len(Front1(v, s)) :
                 Front1(v, s)[i] = Front1(v, s)[j] => i = j
           /\ \A i \in 1..Len(Front1(v, s)) :
                 Front1(v, s)[i] = v \/ \E j \in 1..Len(s) : Front1(v, s)[i] = s[j]
<1> DEFINE present == \E i \in 1..Len(s) : s[i] = v
           at == IF present THEN CHOOSE i \in 1..Len(s) : s[i] = v ELSE Len(s) + 1
           n == IF present THEN Len(s) ELSE Len(s) + 1
           f == [k \in 1..n |-> IF k = 1 THEN v ELSE IF k <= at THEN s[k - 1] ELSE s[k]]
<1>1. Front1(v, s) = f
  BY DEF Front1
<1>2. Len(s) \in Nat /\ n \in Nat /\ n \in 1..(Len(s) + 1)
  OBVIOUS
<1>3. /\ present => at \in 1..Len(s) /\ s[at] = v
      /\ ~present => at = Len(s) + 1
  OBVIOUS
<1>4. /\ n = IF present THEN Len(s) ELSE Len(s) + 1
      /\ present <=> \E i \in 1..Len(s) : s[i] = v
  OBVIOUS
<1> HIDE DEF n, at, present
<1>5. \A k \in 1..n : k # 1 => IF k <= at THEN k - 1 \in 1..Len(s) /\ k - 1 # at
                                        ELSE k \in 1..Len(s) /\ k # at
  BY <1>2, <1>3, <1>4
<1>6. f \in Seq(Versions) /\ Len(f) = n
  <2>1. \A k \in 1..n : f[k] \in Versions
    BY <1>2, <1>5
  <2> QED BY <1>2, <2>1
<1>7. f[1] = v
  BY <1>2
<1>8. \A k \in 1..n : k # 1 => f[k] # v
  <2> SUFFICES ASSUME NEW k \in 1..n, k # 1, f[k] = v PROVE FALSE
    OBVIOUS
  <2>1. CASE k <= at
    <3>1. f[k] = s[k - 1] /\ k - 1 \in 1..Len(s) /\ k - 1 # at
      BY <1>5, <2>1
    <3> QED BY <1>3, <1>4, <3>1
  <2>2. CASE ~(k <= at)
    <3>1. f[k] = s[k] /\ k \in 1..Len(s) /\ k # at
      BY <1>5, <2>2
    <3> QED BY <1>3, <1>4, <3>1
  <2> QED BY <2>1, <2>2
<1>9. \A i, j \in 1..n : f[i] = f[j] => i = j
  <2> SUFFICES ASSUME NEW i \in 1..n, NEW j \in 1..n, f[i] = f[j] PROVE i = j
    OBVIOUS
  <2>1. CASE i = 1 \/ j = 1
    BY <1>7, <1>8, <2>1
  <2>2. CASE i # 1 /\ j # 1
    <3> DEFINE x == IF i <= at THEN i - 1 ELSE i
               y == IF j <= at THEN j - 1 ELSE j
    <3>1. x \in 1..Len(s) /\ y \in 1..Len(s) /\ x # at /\ y # at /\ f[i] = s[x] /\ f[j] = s[y]
      BY <1>5, <2>2
    <3>2. x = y
      BY <3>1
    <3>3. i \in Int /\ j \in Int /\ at \in Int
      BY <1>2, <1>3
    <3> QED BY <3>1, <3>2, <3>3
  <2> QED BY <2>1, <2>2
<1>10. \A i \in 1..n : f[i] = v \/ \E j \in 1..Len(s) : f[i] = s[j]
  BY <1>5, <1>7
<1> QED BY <1>1, <1>2, <1>6, <1>7, <1>9, <1>10

\* The names in a pointer file: Good as the range of the list.
LEMMA GoodIs ==
    ASSUME NEW p \in SlotPointers
    PROVE  /\ p.good \in Seq(Versions) /\ Len(p.good) \in 0..Keep
           /\ \A i, j \in 1..Len(p.good) : p.good[i] = p.good[j] => i = j
           /\ Good(p) = {p.good[i] : i \in 1..Len(p.good)}
           /\ Good(p) \subseteq Versions
           /\ p.current \in Versions \cup {None} /\ p.previous \in Versions \cup {None}
<1>1. p.good \in SlotLists /\ p.current \in Versions \cup {None}
      /\ p.previous \in Versions \cup {None}
  BY DEF SlotPointers
<1>2. /\ p.good \in Seq(Versions) /\ Len(p.good) <= Keep /\ Len(p.good) \in Nat
      /\ \A i, j \in 1..Len(p.good) : p.good[i] = p.good[j] => i = j
  BY <1>1, SlotListsAre
<1>3. DOMAIN p.good = 1..Len(p.good) /\ \A i \in 1..Len(p.good) : p.good[i] \in Versions
  BY <1>2
<1> QED BY <1>1, <1>2, <1>3, BoundsAssumption DEF Good

\* A pointer file with a given list.
LEMMA PointersAre ==
    ASSUME NEW c \in Versions \cup {None}, NEW d \in Versions \cup {None}, NEW s \in SlotLists
    PROVE  /\ [current |-> c, previous |-> d, good |-> s] \in SlotPointers
           /\ Good([current |-> c, previous |-> d, good |-> s])
                 = {s[i] : i \in 1..Len(s)}
<1>1. [current |-> c, previous |-> d, good |-> s] \in SlotPointers
  BY DEF SlotPointers
<1> QED BY <1>1, GoodIs

\* Truncating the list with v in front.
LEMMA Retained ==
    ASSUME NEW s \in SlotLists, NEW v \in Versions, NEW n \in 1..Keep
    PROVE  /\ Take(Front1(v, s), n) \in SlotLists
           /\ Len(Take(Front1(v, s), n)) \in 1..n
           /\ Take(Front1(v, s), n)[1] = v
           /\ \A i \in 1..Len(Take(Front1(v, s), n)) :
                 Take(Front1(v, s), n)[i] \in {v} \cup {s[j] : j \in 1..Len(s)}
<1> DEFINE f == Front1(v, s)
           g == Take(f, n)
<1>1. s \in Seq(Versions) /\ \A i, j \in 1..Len(s) : s[i] = s[j] => i = j
  BY SlotListsAre
<1>2. /\ f \in Seq(Versions) /\ Len(f) \in 1..(Len(s) + 1) /\ f[1] = v
      /\ \A i, j \in 1..Len(f) : f[i] = f[j] => i = j
      /\ \A i \in 1..Len(f) : f[i] = v \/ \E j \in 1..Len(s) : f[i] = s[j]
  BY <1>1, Front1Is
<1>3. n \in Nat /\ n >= 1 /\ n <= Keep /\ Keep \in Nat /\ Len(f) \in Nat
  BY <1>2, BoundsAssumption
<1> HIDE DEF f
<1>4. /\ g \in Seq(Versions) /\ Len(g) = IF n < Len(f) THEN n ELSE Len(f)
      /\ \A i \in 1..Len(g) : g[i] = f[i]
  BY <1>2, <1>3, TakeIs
<1> HIDE DEF g
<1>5. Len(g) \in 1..n /\ Len(g) <= Len(f)
  BY <1>1, <1>2, <1>3, <1>4
<1>6. \A i \in 1..Len(g) : i \in 1..Len(f)
  BY <1>3, <1>5
<1>7. \A i, j \in 1..Len(g) : g[i] = g[j] => i = j
  BY <1>2, <1>4, <1>6
<1>8. g \in SlotLists
  BY <1>3, <1>4, <1>5, <1>7, SlotListsAre
<1>9. g[1] = v
  BY <1>2, <1>4, <1>5
<1>10. \A i \in 1..Len(g) : g[i] \in {v} \cup {s[j] : j \in 1..Len(s)}
  BY <1>2, <1>4, <1>6
<1> QED BY <1>5, <1>8, <1>9, <1>10 DEF f, g

\* switch_to: the candidate is current, nothing is retained that was not before.
LEMMA SwitchToIs ==
    ASSUME NEW p \in SlotPointers, NEW v \in Versions
    PROVE  /\ SwitchTo(p, v) \in SlotPointers
           /\ SwitchTo(p, v).current = v
           /\ p.current # v /\ p.current # None =>
                 /\ SwitchTo(p, v).previous = p.current
                 /\ p.current \in Good(SwitchTo(p, v))
                 /\ Good(SwitchTo(p, v)) \subseteq {p.current} \cup Good(p)
<1>1. CASE p.current = v
  BY <1>1 DEF SwitchTo
<1>2. CASE p.current # v
  <2>0. p.good \in SlotLists /\ p.current \in Versions \cup {None} /\ Keep - 1 \in 1..Keep
        /\ p.good \in Seq(Versions)
    BY BoundsAssumption, GoodIs DEF SlotPointers
  <2>1. CASE p.current = None
    <3> DEFINE g == Take(p.good, Keep - 1)
    <3>1. /\ g \in Seq(Versions) /\ Len(g) <= Len(p.good) /\ Len(g) \in Nat
          /\ \A i \in 1..Len(g) : g[i] = p.good[i]
      BY <2>0, TakeIs
    <3> HIDE DEF g
    <3>2. Len(p.good) \in Nat /\ Len(p.good) <= Keep /\ Keep \in Nat
      BY GoodIs, BoundsAssumption
    <3>3. \A i \in 1..Len(g) : i \in 1..Len(p.good)
      BY <3>1, <3>2
    <3>4. g \in SlotLists
      BY <3>1, <3>2, <3>3, GoodIs, SlotListsAre
    <3>5. SwitchTo(p, v) = [current |-> v, previous |-> p.current, good |-> g]
      BY <1>2, <2>1 DEF SwitchTo, g
    <3> QED BY <2>0, <2>1, <3>4, <3>5, PointersAre
  <2>2. CASE p.current # None
    <3> DEFINE g == Take(Front1(p.current, p.good), Keep - 1)
    <3>1. /\ g \in SlotLists /\ Len(g) \in 1..(Keep - 1) /\ g[1] = p.current
          /\ \A i \in 1..Len(g) :
                g[i] \in {p.current} \cup {p.good[j] : j \in 1..Len(p.good)}
      BY <2>0, <2>2, Retained
    <3> HIDE DEF g
    <3>2. SwitchTo(p, v) = [current |-> v, previous |-> p.current, good |-> g]
      BY <1>2, <2>2 DEF SwitchTo, g
    <3>3. SwitchTo(p, v) \in SlotPointers /\ Good(SwitchTo(p, v)) = {g[i] : i \in 1..Len(g)}
      BY <2>0, <3>1, <3>2, PointersAre
    <3>4. 1 \in 1..Len(g)
      BY <3>1, BoundsAssumption
    <3>5. p.current \in Good(SwitchTo(p, v))
      BY <3>1, <3>3, <3>4
    <3>6. Good(SwitchTo(p, v)) \subseteq {p.current} \cup Good(p)
      BY <3>1, <3>3, GoodIs
    <3> QED BY <3>2, <3>3, <3>5, <3>6
  <2> QED BY <2>1, <2>2
<1> QED BY <1>1, <1>2

\* mark_known_good: the candidate is current and retained.
LEMMA MarkKnownGoodIs ==
    ASSUME NEW p \in SlotPointers, NEW v \in Versions
    PROVE  /\ MarkKnownGood(p, v) \in SlotPointers
           /\ MarkKnownGood(p, v).current = v
           /\ v \in Good(MarkKnownGood(p, v))
           /\ Good(MarkKnownGood(p, v)) \subseteq {v} \cup Good(p)
<1> DEFINE g == Take(Front1(v, p.good), Keep)
<1>0. p.good \in SlotLists /\ Keep \in 1..Keep
  BY BoundsAssumption DEF SlotPointers
<1>1. /\ g \in SlotLists /\ Len(g) \in 1..Keep /\ g[1] = v
      /\ \A i \in 1..Len(g) : g[i] \in {v} \cup {p.good[j] : j \in 1..Len(p.good)}
  BY <1>0, Retained
<1>2. MarkKnownGood(p, v) =
        [current |-> v, good |-> g, previous |-> IF Len(g) > 1 THEN g[2] ELSE None]
  BY DEF MarkKnownGood
<1> HIDE DEF g
<1>3. (IF Len(g) > 1 THEN g[2] ELSE None) \in Versions \cup {None}
  <2>1. g \in Seq(Versions)
    BY <1>1, SlotListsAre
  <2>2. Len(g) > 1 => g[2] \in Versions
    BY <2>1
  <2> QED BY <2>2
<1>4. PICK d \in Versions \cup {None} :
        MarkKnownGood(p, v) = [current |-> v, previous |-> d, good |-> g]
  BY <1>2, <1>3
<1>5. MarkKnownGood(p, v) \in SlotPointers
      /\ Good(MarkKnownGood(p, v)) = {g[i] : i \in 1..Len(g)}
  BY <1>1, <1>4, PointersAre
<1>6. 1 \in 1..Len(g)
  BY <1>1, BoundsAssumption
<1>7. v \in Good(MarkKnownGood(p, v))
  BY <1>1, <1>5, <1>6
<1>8. Good(MarkKnownGood(p, v)) \subseteq {v} \cup Good(p)
  BY <1>1, <1>5, GoodIs
<1> QED BY <1>4, <1>5, <1>7, <1>8

-----------------------------------------------------------------------------
(* Plans.  What the remaining writes of an operation make of the files, one  *)
(* after the other, and what the files must be at each point in between,     *)
(* where a crash would leave them.                                           *)

\* The files as they are: pointers name a current slot, but for the first install's
\* receipt, which nothing goes back to.
Pointers == {p \in SlotPointers : p.current # None}
Actives == {x \in ActiveFiles : x.prior \in Pointers \cup {NoFile}}
Intents == {i \in IntentFiles : i.prior \in Pointers}
Receipts == {r \in ReceiptFiles : r.barrier \/ r.prior \in Pointers}

\* A file that does not exist is none of the well-formed ones.
LEMMA NoFileIs == NoFile \notin Pointers \cup Actives \cup Intents \cup Receipts
BY NoFileAssumption DEF Pointers, Actives, Intents, Receipts

\* Both moves of the pointers name a current slot.
LEMMA PointersMove ==
    ASSUME NEW p \in Pointers, NEW v \in Versions
    PROVE  SwitchTo(p, v) \in Pointers /\ MarkKnownGood(p, v) \in Pointers
<1>1. v # None
  BY BoundsAssumption DEF Versions, None
<1> QED BY <1>1, SwitchToIs, MarkKnownGoodIs DEF Pointers

\* What their fields are.
LEMMA ActivesAre ==
    ASSUME NEW x \in Actives
    PROVE  x.txn \in Txns /\ x.slot \in Versions /\ x.base \in Versions
           /\ x.prior \in Pointers \cup {NoFile}
BY DEF Actives, ActiveFiles

\* An intent's fields, and the receipts written for it.
LEMMA IntentsAre ==
    ASSUME NEW i \in Intents
    PROVE  /\ i.txn \in Txns /\ i.slot \in Versions /\ i.prior \in Pointers
           /\ i.prior \in SlotPointers
           /\ ReceiptFor(i, "confirming") \in Receipts /\ ReceiptFor(i, "confirmed") \in Receipts
BY DEF Intents, IntentFiles, Receipts, ReceiptFiles, ReceiptFor

\* A receipt's fields, and the receipts that undo it.
LEMMA ReceiptsAre ==
    ASSUME NEW r \in Receipts
    PROVE  /\ r.txn \in Txns /\ r.slot \in Versions /\ (~r.barrier => r.prior \in Pointers)
           /\ r.barrier \in BOOLEAN
           /\ \A s \in {"rollback_pending", "rolled_back_pre_data"} :
                 LET q == [r EXCEPT !.state = s]
                 IN  q \in Receipts /\ q.state = s /\ q.txn = r.txn /\ q.slot = r.slot
                     /\ q.prior = r.prior /\ q.barrier = r.barrier
BY DEF Receipts, ReceiptFiles

\* The pointers and the other files, with the state of one transaction.
Images == [st : InstallStates \cup {"none"}, active : Actives \cup {NoFile},
           ptr : Pointers, intent : Intents \cup {NoFile},
           receipt : Receipts \cup {NoFile}]

Image(t) == [st |-> journal[t], active |-> active, ptr |-> ptr, intent |-> intent,
             receipt |-> receipt]

\* Well-formed writes.
Writes ==
    [file : {"journal"}, content : [txn : Txns, state : InstallStates]]
    \cup [file : {"ptr"}, content : Pointers]
    \cup [file : {"active"}, content : Actives \cup {NoFile}]
    \cup [file : {"intent"}, content : Intents \cup {NoFile}]
    \cup [file : {"receipt"}, content : Receipts \cup {NoFile}]
    \cup [file : {"stage", "discard", "try_discard"}, content : Versions]
    \cup [file : {"raise"}, content : {None}]

\* The files after the write w.
Made(w, a) ==
    [st |-> IF w.file = "journal" THEN w.content.state ELSE a.st,
     active |-> IF w.file = "active" THEN w.content ELSE a.active,
     ptr |-> IF w.file = "ptr" THEN w.content ELSE a.ptr,
     intent |-> IF w.file = "intent" THEN w.content ELSE a.intent,
     receipt |-> IF w.file = "receipt" THEN w.content ELSE a.receipt]

\* The journal accepts to after from.
Follows(from, to) ==
    IF from = "none" THEN to = "resolving" ELSE to = from \/ to \in Allowed[from]

\* The write w of an operation on t takes the files from a to b.
Edge(w, t, a, b) ==
    /\ w.file # "raise"
    /\ b = Made(w, a)
    /\ w.file = "journal" => w.content.txn = t /\ Follows(a.st, b.st)
    /\ a.st = "none" => w.file \in {"journal", "active"}

\* The writes ws take the files from a to b, or raise on the way, and all the files
\* in between are in S.
Leads(ws, E, S, a, b) ==
    \E n \in 0..Len(ws) : \E h \in [0..n -> S] :
        /\ h[0] = a
        /\ \A k \in 1..n : <<ws[k], h[k - 1], h[k]>> \in E
        /\ \/ n = Len(ws) /\ h[n] = b
           \/ n < Len(ws) /\ ws[n + 1].file = "raise"

\* No writes change nothing.
LEMMA LeadsNil == ASSUME NEW E, NEW S, NEW a \in S PROVE Leads(<<>>, E, S, a, a)
<1> DEFINE h == [k \in 0..0 |-> a]
<1>1. h \in [0..0 -> S] /\ h[0] = a /\ 0 \in 0..Len(<<>>) /\ Len(<<>>) = 0
      /\ \A k \in 1..0 : FALSE
  OBVIOUS
<1>2. \A k \in 1..0 : <<<<>>[k], h[k - 1], h[k]>> \in E
  BY <1>1
<1> HIDE DEF h
<1> QED BY <1>1, <1>2 DEF Leads

\* A check that fails leads anywhere, since nothing after it happens.
LEMMA LeadsRaise ==
    ASSUME NEW E, NEW S, NEW a \in S, NEW b PROVE Leads(<<Raise>>, E, S, a, b)
<1> DEFINE h == [k \in 0..0 |-> a]
<1>1. h \in [0..0 -> S] /\ h[0] = a /\ 0 \in 0..Len(<<Raise>>) /\ Len(<<Raise>>) = 1
      /\ <<Raise>>[1].file = "raise"
  BY DEF Raise, Put
<1>2. 0 < Len(<<Raise>>) /\ <<Raise>>[0 + 1].file = "raise" /\ \A k \in 1..0 : FALSE
  BY <1>1
<1> QED BY <1>1, <1>2 DEF Leads

\* A single write.
LEMMA LeadsOne ==
    ASSUME NEW E, NEW S, NEW a \in S, NEW b \in S, NEW w, <<w, a, b>> \in E
    PROVE  Leads(<<w>>, E, S, a, b)
<1> DEFINE h == [k \in 0..1 |-> IF k = 0 THEN a ELSE b]
<1>1. h \in [0..1 -> S] /\ h[0] = a /\ h[1] = b
  OBVIOUS
<1>2. Len(<<w>>) = 1 /\ <<w>>[1] = w /\ 1 \in 0..Len(<<w>>)
  OBVIOUS
<1> HIDE DEF h
<1>3. \A k \in 1..1 : <<<<w>>[k], h[k - 1], h[k]>> \in E
  BY <1>1, <1>2
<1> QED BY <1>1, <1>2, <1>3 DEF Leads

\* One plan after the other.
LEMMA LeadsConcat ==
    ASSUME NEW E, NEW S, NEW W, NEW u \in Seq(W), NEW v \in Seq(W), NEW a, NEW b, NEW c,
           Leads(u, E, S, a, b), Leads(v, E, S, b, c)
    PROVE  Leads(u \o v, E, S, a, c)
<1>1. PICK n \in 0..Len(u) : \E h \in [0..n -> S] :
        /\ h[0] = a
        /\ \A k \in 1..n : <<u[k], h[k - 1], h[k]>> \in E
        /\ \/ n = Len(u) /\ h[n] = b
           \/ n < Len(u) /\ u[n + 1].file = "raise"
  BY DEF Leads
<1>2. PICK h \in [0..n -> S] :
        /\ h[0] = a
        /\ \A k \in 1..n : <<u[k], h[k - 1], h[k]>> \in E
        /\ \/ n = Len(u) /\ h[n] = b
           \/ n < Len(u) /\ u[n + 1].file = "raise"
  BY <1>1
<1>3. PICK m \in 0..Len(v) : \E g \in [0..m -> S] :
        /\ g[0] = b
        /\ \A k \in 1..m : <<v[k], g[k - 1], g[k]>> \in E
        /\ \/ m = Len(v) /\ g[m] = c
           \/ m < Len(v) /\ v[m + 1].file = "raise"
  BY DEF Leads
<1>4. PICK g \in [0..m -> S] :
        /\ g[0] = b
        /\ \A k \in 1..m : <<v[k], g[k - 1], g[k]>> \in E
        /\ \/ m = Len(v) /\ g[m] = c
           \/ m < Len(v) /\ v[m + 1].file = "raise"
  BY <1>3
<1> DEFINE w == u \o v
<1>5. /\ Len(u) \in Nat /\ Len(v) \in Nat /\ n \in Nat /\ m \in Nat
      /\ Len(w) = Len(u) + Len(v)
      /\ \A k \in 1..Len(u) : w[k] = u[k]
      /\ \A k \in 1..Len(v) : w[Len(u) + k] = v[k]
  OBVIOUS
<1> HIDE DEF w
<1>6. CASE n < Len(u) /\ u[n + 1].file = "raise"
  <2>1. n \in 0..Len(w) /\ n < Len(w) /\ n + 1 \in 1..Len(u) /\ w[n + 1].file = "raise"
    BY <1>5, <1>6
  <2>2. \A k \in 1..n : w[k] = u[k]
    BY <1>5, <1>6
  <2>3. \A k \in 1..n : <<w[k], h[k - 1], h[k]>> \in E
    BY <1>2, <2>2
  <2> QED BY <1>2, <2>1, <2>3 DEF Leads, w
<1>7. CASE n = Len(u) /\ h[n] = b
  <2> DEFINE f == [k \in 0..(n + m) |-> IF k <= n THEN h[k] ELSE g[k - n]]
  <2>1. f \in [0..(n + m) -> S]
    BY <1>5
  <2>2. \A k \in 0..n : f[k] = h[k]
    BY <1>5
  <2>3. \A k \in 0..m : f[n + k] = g[k]
    BY <1>4, <1>5, <1>7
  <2>4. n + m \in 0..Len(w)
    BY <1>5, <1>7
  <2> HIDE DEF f
  <2>5. \A k \in 1..(n + m) : <<w[k], f[k - 1], f[k]>> \in E
    <3> SUFFICES ASSUME NEW k \in 1..(n + m) PROVE <<w[k], f[k - 1], f[k]>> \in E
      OBVIOUS
    <3>1. CASE k <= n
      <4>1. k \in 1..n /\ k - 1 \in 0..n /\ k \in 0..n
        BY <1>5, <3>1
      <4> QED BY <1>2, <1>5, <1>7, <2>2, <4>1
    <3>2. CASE ~(k <= n)
      <4>1. k - n \in 1..m /\ k - n - 1 \in 0..m /\ k - n \in 0..m
            /\ k = n + (k - n) /\ k - 1 = n + (k - n - 1)
        BY <1>5, <3>2
      <4>2. f[k - 1] = g[k - n - 1] /\ f[k] = g[k - n] /\ w[k] = v[k - n]
        BY <1>5, <1>7, <2>3, <4>1
      <4> QED BY <1>4, <4>1, <4>2
    <3> QED BY <3>1, <3>2
  <2>6. f[0] = a
    BY <1>2, <1>5, <2>2
  <2>7. \/ n + m = Len(w) /\ f[n + m] = c
        \/ n + m < Len(w) /\ w[n + m + 1].file = "raise"
    <3>1. CASE m = Len(v) /\ g[m] = c
      BY <1>5, <1>7, <2>3, <3>1
    <3>2. CASE m < Len(v) /\ v[m + 1].file = "raise"
      <4>1. m + 1 \in 1..Len(v) /\ n + m + 1 = Len(u) + (m + 1)
        BY <1>5, <1>7, <3>2
      <4> QED BY <1>5, <1>7, <3>2, <4>1
    <3> QED BY <1>4, <3>1, <3>2
  <2> QED BY <2>1, <2>4, <2>5, <2>6, <2>7 DEF Leads, w
<1> QED BY <1>2, <1>6, <1>7

\* The first write of a plan, and the rest.
LEMMA LeadsTail ==
    ASSUME NEW E, NEW S, NEW W, NEW ws \in Seq(W), NEW a, NEW c, Leads(ws, E, S, a, c),
           ws # <<>>, Head(ws).file # "raise"
    PROVE  \E b \in S : <<Head(ws), a, b>> \in E /\ Leads(Tail(ws), E, S, b, c)
<1>1. PICK n \in 0..Len(ws) : \E h \in [0..n -> S] :
        /\ h[0] = a
        /\ \A k \in 1..n : <<ws[k], h[k - 1], h[k]>> \in E
        /\ \/ n = Len(ws) /\ h[n] = c
           \/ n < Len(ws) /\ ws[n + 1].file = "raise"
  BY DEF Leads
<1>2. PICK h \in [0..n -> S] :
        /\ h[0] = a
        /\ \A k \in 1..n : <<ws[k], h[k - 1], h[k]>> \in E
        /\ \/ n = Len(ws) /\ h[n] = c
           \/ n < Len(ws) /\ ws[n + 1].file = "raise"
  BY <1>1
<1>3. /\ Len(ws) \in Nat /\ Len(ws) >= 1 /\ Head(ws) = ws[1] /\ n \in Nat
      /\ Tail(ws) \in Seq(W) /\ Len(Tail(ws)) = Len(ws) - 1
      /\ \A k \in 1..Len(Tail(ws)) : Tail(ws)[k] = ws[k + 1]
  OBVIOUS
<1>4. n # 0
  <2> SUFFICES ASSUME n = 0 PROVE FALSE
    OBVIOUS
  <2>1. n + 1 = 1 /\ n # Len(ws)
    BY <1>3
  <2> QED BY <1>2, <1>3, <2>1
<1> DEFINE g == [k \in 0..(n - 1) |-> h[k + 1]]
           v == Tail(ws)
<1>5. g \in [0..(n - 1) -> S] /\ \A k \in 0..(n - 1) : g[k] = h[k + 1]
  BY <1>3, <1>4
<1> HIDE DEF g, v
<1>6. \A k \in 1..(n - 1) : <<v[k], g[k - 1], g[k]>> \in E
  <2> SUFFICES ASSUME NEW k \in 1..(n - 1) PROVE <<v[k], g[k - 1], g[k]>> \in E
    OBVIOUS
  <2>1. k \in 1..Len(v) /\ k + 1 \in 1..n /\ k - 1 \in 0..(n - 1) /\ k \in 0..(n - 1)
        /\ k - 1 + 1 = k /\ k + 1 - 1 = k
    BY <1>3, <1>4 DEF v
  <2>2. v[k] = ws[k + 1] /\ g[k - 1] = h[k] /\ g[k] = h[k + 1]
    BY <1>3, <1>5, <2>1 DEF v
  <2>3. <<ws[k + 1], h[k + 1 - 1], h[k + 1]>> \in E
    BY <1>2, <2>1
  <2> QED BY <2>1, <2>2, <2>3
<1>7. <<ws[1], h[0], h[1]>> \in E /\ h[1] \in S
  <2>1. 1 \in 1..n /\ 1 \in 0..n /\ 1 - 1 = 0
    BY <1>3, <1>4
  <2>2. <<ws[1], h[1 - 1], h[1]>> \in E
    BY <1>2, <2>1
  <2> QED BY <1>2, <2>1, <2>2
<1>8. g[0] = h[1] /\ n - 1 \in 0..Len(v)
  BY <1>3, <1>4, <1>5 DEF v
<1>9. \/ n - 1 = Len(v) /\ g[n - 1] = c
      \/ n - 1 < Len(v) /\ v[n - 1 + 1].file = "raise"
  <2>1. CASE n = Len(ws) /\ h[n] = c
    BY <1>3, <1>4, <1>5, <2>1 DEF v
  <2>2. CASE n < Len(ws) /\ ws[n + 1].file = "raise"
    <3>1. n \in 1..Len(v) /\ n - 1 + 1 = n
      BY <1>3, <1>4, <2>2 DEF v
    <3>2. v[n] = ws[n + 1] /\ n - 1 < Len(v)
      BY <1>3, <1>4, <2>2, <3>1 DEF v
    <3> QED BY <2>2, <3>1, <3>2
  <2> QED BY <1>2, <2>1, <2>2
<1>10. Leads(v, E, S, h[1], c)
  BY <1>5, <1>6, <1>8, <1>9 DEF Leads
<1> QED BY <1>2, <1>3, <1>7, <1>10 DEF v

\* A plan begins in S, and may be followed in a larger set.
LEMMA LeadsStart ==
    ASSUME NEW E, NEW S, NEW ws, Len(ws) \in Nat, NEW a, NEW b, Leads(ws, E, S, a, b)
    PROVE  a \in S /\ (ws = <<>> => a = b)
<1>1. PICK n \in 0..Len(ws) : \E h \in [0..n -> S] :
        /\ h[0] = a
        /\ \/ n = Len(ws) /\ h[n] = b
           \/ n < Len(ws) /\ ws[n + 1].file = "raise"
  BY DEF Leads
<1>2. PICK h \in [0..n -> S] :
        /\ h[0] = a
        /\ \/ n = Len(ws) /\ h[n] = b
           \/ n < Len(ws) /\ ws[n + 1].file = "raise"
  BY <1>1
<1>3. 0 \in 0..n
  OBVIOUS
<1>4. ws = <<>> => n = 0 /\ Len(ws) = 0
  OBVIOUS
<1> QED BY <1>2, <1>3, <1>4

\* The writes ws, well formed, take the files from a to b through S, or raise.
Plan(ws, E, S, a, b) == ws \in Seq(Writes) /\ Leads(ws, E, S, a, b)

\* The same for plans: no writes, ...
LEMMA PlanNil == ASSUME NEW E, NEW S, NEW a \in S PROVE Plan(<<>>, E, S, a, a)
BY LeadsNil DEF Plan

\* ... a check that fails, ...
LEMMA PlanRaise ==
    ASSUME NEW E, NEW S, NEW a \in S, NEW b PROVE Plan(<<Raise>>, E, S, a, b)
<1>1. Raise \in Writes
  BY DEF Raise, Put, Writes
<1> QED BY <1>1, LeadsRaise DEF Plan

\* ... a single write, ...
LEMMA PlanOne ==
    ASSUME NEW E, NEW S, NEW a \in S, NEW b \in S, NEW w \in Writes, <<w, a, b>> \in E
    PROVE  Plan(<<w>>, E, S, a, b)
BY LeadsOne DEF Plan

\* ... one plan after the other, ...
LEMMA PlanConcat ==
    ASSUME NEW E, NEW S, NEW u, NEW v, NEW a, NEW b, NEW c,
           Plan(u, E, S, a, b), Plan(v, E, S, b, c)
    PROVE  Plan(u \o v, E, S, a, c)
<1>1. u \in Seq(Writes) /\ v \in Seq(Writes)
  BY DEF Plan
<1>2. u \o v \in Seq(Writes)
  BY <1>1
<1>3. Leads(u \o v, E, S, a, c)
  BY <1>1, LeadsConcat DEF Plan
<1> QED BY <1>2, <1>3 DEF Plan

\* ... and writes made on a condition.
LEMMA PlanIf ==
    ASSUME NEW E, NEW S, NEW c \in BOOLEAN, NEW ws, NEW a \in S, NEW b,
           c => Plan(ws, E, S, a, b), ~c => a = b
    PROVE  Plan(If(c, ws), E, S, a, b)
BY PlanNil DEF If

\* Writes written as one list are one after the other.
LEMMA PlanTwo ==
    ASSUME NEW E, NEW S, NEW a, NEW b, NEW c, NEW w, NEW x,
           Plan(<<w>>, E, S, a, b), Plan(<<x>>, E, S, b, c)
    PROVE  Plan(<<w, x>>, E, S, a, c)
<1>1. w \in Writes /\ x \in Writes
  BY DEF Plan
<1>2. <<w, x>> = <<w>> \o <<x>>
  <2> DEFINE p == <<w>>
             q == <<x>>
             r == <<w, x>>
             s == p \o q
  <2>1. /\ p \in Seq(Writes) /\ q \in Seq(Writes) /\ r \in Seq(Writes)
        /\ Len(p) = 1 /\ Len(q) = 1 /\ Len(r) = 2
        /\ p[1] = w /\ q[1] = x /\ r[1] = w /\ r[2] = x
    BY <1>1
  <2> HIDE DEF p, q, r
  <2>2. /\ s \in Seq(Writes) /\ Len(s) = Len(p) + Len(q)
        /\ \A i \in 1..(Len(p) + Len(q)) :
              s[i] = IF i <= Len(p) THEN p[i] ELSE q[i - Len(p)]
    BY <2>1, ConcatProperties
  <2> HIDE DEF s
  <2>3. Len(s) = 2 /\ 1 + 1 = 2 /\ 2 - 1 = 1 /\ 1 \in 1..2 /\ 2 \in 1..2
    BY <2>1, <2>2
  <2>4. s[1] = w /\ s[2] = x
    BY <2>1, <2>2, <2>3
  <2>5. \A i \in 1..2 : s[i] = r[i]
    BY <2>1, <2>4
  <2>6. s = r
    BY <2>1, <2>2, <2>3, <2>5, SeqEqual
  <2> QED BY <2>6 DEF p, q, r, s
<1>3. Plan(<<w>> \o <<x>>, E, S, a, c)
  BY PlanConcat
<1> QED BY <1>2, <1>3

\* Two pairs.
LEMMA PlanFour ==
    ASSUME NEW E, NEW S, NEW a, NEW b, NEW c, NEW w, NEW x, NEW y, NEW z,
           Plan(<<w, x>>, E, S, a, b), Plan(<<y, z>>, E, S, b, c)
    PROVE  Plan(<<w, x, y, z>>, E, S, a, c)
<1>1. w \in Writes /\ x \in Writes /\ y \in Writes /\ z \in Writes
  BY DEF Plan
<1>2. <<w, x, y, z>> = <<w, x>> \o <<y, z>>
  BY <1>1
<1>3. Plan(<<w, x>> \o <<y, z>>, E, S, a, c)
  BY PlanConcat
<1> QED BY <1>2, <1>3

\* The first write of a plan, and the rest.
LEMMA PlanTail ==
    ASSUME NEW E, NEW S, NEW ws, NEW a, NEW c, Plan(ws, E, S, a, c),
           ws # <<>>, Head(ws).file # "raise"
    PROVE  \E b \in S : <<Head(ws), a, b>> \in E /\ Plan(Tail(ws), E, S, b, c)
<1>1. ws \in Seq(Writes) /\ Tail(ws) \in Seq(Writes)
  BY DEF Plan
<1>2. \E b \in S : <<Head(ws), a, b>> \in E /\ Leads(Tail(ws), E, S, b, c)
  BY <1>1, LeadsTail DEF Plan
<1> QED BY <1>1, <1>2 DEF Plan

\* The writes raise on the way, so that whatever is listed after them is not made.
Stops(u, E, S, a) ==
    /\ u \in Seq(Writes)
    /\ \E n \in 0..Len(u) : /\ n < Len(u) /\ u[n + 1].file = "raise"
                            /\ \E h \in [0..n -> S] :
                                  h[0] = a /\ \A k \in 1..n : <<u[k], h[k - 1], h[k]>> \in E

\* What stops is a plan for any outcome.
LEMMA StopsPlan ==
    ASSUME NEW E, NEW S, NEW u, NEW a, NEW b, Stops(u, E, S, a) PROVE Plan(u, E, S, a, b)
<1>1. PICK n \in 0..Len(u) : /\ n < Len(u) /\ u[n + 1].file = "raise"
                             /\ \E h \in [0..n -> S] :
                                   h[0] = a /\ \A k \in 1..n : <<u[k], h[k - 1], h[k]>> \in E
  BY DEF Stops
<1>2. PICK h \in [0..n -> S] : h[0] = a /\ \A k \in 1..n : <<u[k], h[k - 1], h[k]>> \in E
  BY <1>1
<1>3. Leads(u, E, S, a, b)
  BY <1>1, <1>2 DEF Leads
<1> QED BY <1>3 DEF Plan, Stops

\* A failing check stops at once.
LEMMA StopsRaise == ASSUME NEW E, NEW S, NEW a \in S PROVE Stops(<<Raise>>, E, S, a)
<1> DEFINE h == [k \in 0..0 |-> a]
<1>1. /\ h \in [0..0 -> S] /\ h[0] = a /\ 0 \in 0..Len(<<Raise>>) /\ 0 < Len(<<Raise>>)
      /\ <<Raise>>[0 + 1].file = "raise" /\ <<Raise>> \in Seq(Writes)
  BY DEF Raise, Put, Writes
<1>2. \A k \in 1..0 : <<<<Raise>>[k], h[k - 1], h[k]>> \in E
  OBVIOUS
<1> HIDE DEF h
<1> QED BY <1>1, <1>2 DEF Stops

\* What stops still does with more writes behind it.
LEMMA StopsConcat ==
    ASSUME NEW E, NEW S, NEW u, NEW v \in Seq(Writes), NEW a, Stops(u, E, S, a)
    PROVE  Stops(u \o v, E, S, a)
<1>1. PICK n \in 0..Len(u) : /\ n < Len(u) /\ u[n + 1].file = "raise"
                             /\ \E h \in [0..n -> S] :
                                   h[0] = a /\ \A k \in 1..n : <<u[k], h[k - 1], h[k]>> \in E
  BY DEF Stops
<1>2. PICK h \in [0..n -> S] : h[0] = a /\ \A k \in 1..n : <<u[k], h[k - 1], h[k]>> \in E
  BY <1>1
<1>0. u \in Seq(Writes)
  BY DEF Stops
<1> DEFINE w == u \o v
<1>3. /\ w \in Seq(Writes) /\ Len(w) = Len(u) + Len(v) /\ Len(u) \in Nat /\ Len(v) \in Nat
      /\ n \in Nat /\ \A k \in 1..Len(u) : w[k] = u[k]
  BY <1>0
<1> HIDE DEF w
<1>4. n \in 0..Len(w) /\ n < Len(w) /\ n + 1 \in 1..Len(u)
  BY <1>1, <1>3
<1>5. w[n + 1].file = "raise"
  BY <1>1, <1>3, <1>4
<1>6. \A k \in 1..n : w[k] = u[k]
  BY <1>1, <1>3
<1>7. \A k \in 1..n : <<w[k], h[k - 1], h[k]>> \in E
  BY <1>2, <1>6
<1> QED BY <1>2, <1>3, <1>4, <1>5, <1>7 DEF Stops, w

\* A plan followed by what stops.
LEMMA PlanStops ==
    ASSUME NEW E, NEW S, NEW u, NEW v, NEW a, NEW b, Plan(u, E, S, a, b), Stops(v, E, S, b)
    PROVE  Stops(u \o v, E, S, a)
<1>0. u \in Seq(Writes) /\ v \in Seq(Writes)
  BY DEF Plan, Stops
<1>1. PICK n \in 0..Len(u) : \E h \in [0..n -> S] :
        /\ h[0] = a
        /\ \A k \in 1..n : <<u[k], h[k - 1], h[k]>> \in E
        /\ \/ n = Len(u) /\ h[n] = b
           \/ n < Len(u) /\ u[n + 1].file = "raise"
  BY DEF Plan, Leads
<1>2. PICK h \in [0..n -> S] :
        /\ h[0] = a
        /\ \A k \in 1..n : <<u[k], h[k - 1], h[k]>> \in E
        /\ \/ n = Len(u) /\ h[n] = b
           \/ n < Len(u) /\ u[n + 1].file = "raise"
  BY <1>1
<1>3. CASE n < Len(u) /\ u[n + 1].file = "raise"
  <2>1. Stops(u, E, S, a)
    BY <1>0, <1>2, <1>3 DEF Stops
  <2> QED BY <1>0, <2>1, StopsConcat
<1>4. CASE n = Len(u) /\ h[n] = b
  <2>1. PICK m \in 0..Len(v) : /\ m < Len(v) /\ v[m + 1].file = "raise"
                               /\ \E g \in [0..m -> S] :
                                    g[0] = b /\ \A k \in 1..m : <<v[k], g[k - 1], g[k]>> \in E
    BY DEF Stops
  <2>2. PICK g \in [0..m -> S] : g[0] = b /\ \A k \in 1..m : <<v[k], g[k - 1], g[k]>> \in E
    BY <2>1
  <2> DEFINE w == u \o v
             f == [k \in 0..(n + m) |-> IF k <= n THEN h[k] ELSE g[k - n]]
  <2>3. /\ Len(u) \in Nat /\ Len(v) \in Nat /\ n \in Nat /\ m \in Nat
        /\ w \in Seq(Writes) /\ Len(w) = Len(u) + Len(v)
        /\ \A k \in 1..Len(u) : w[k] = u[k]
        /\ \A k \in 1..Len(v) : w[Len(u) + k] = v[k]
    BY <1>0
  <2>4. f \in [0..(n + m) -> S]
    BY <2>3
  <2>5. \A k \in 0..n : f[k] = h[k]
    BY <2>3
  <2>6. \A k \in 0..m : f[n + k] = g[k]
    BY <1>4, <2>2, <2>3
  <2> HIDE DEF f, w
  <2>7. \A k \in 1..(n + m) : <<w[k], f[k - 1], f[k]>> \in E
    <3> SUFFICES ASSUME NEW k \in 1..(n + m) PROVE <<w[k], f[k - 1], f[k]>> \in E
      OBVIOUS
    <3>1. CASE k <= n
      <4>1. k \in 1..n /\ k - 1 \in 0..n /\ k \in 0..n
        BY <2>3, <3>1
      <4> QED BY <1>2, <1>4, <2>3, <2>5, <4>1
    <3>2. CASE ~(k <= n)
      <4>1. k - n \in 1..m /\ k - n - 1 \in 0..m /\ k - n \in 0..m
            /\ k = n + (k - n) /\ k - 1 = n + (k - n - 1) /\ k - n \in 1..Len(v)
        BY <2>3, <3>2
      <4>2. f[k - 1] = g[k - n - 1] /\ f[k] = g[k - n] /\ w[k] = v[k - n]
        BY <1>4, <2>3, <2>6, <4>1
      <4> QED BY <2>2, <4>1, <4>2
    <3> QED BY <3>1, <3>2
  <2>8. f[0] = a
    BY <1>2, <2>3, <2>5
  <2>9. n + m \in 0..Len(w) /\ n + m < Len(w) /\ w[n + m + 1].file = "raise"
    <3>1. m + 1 \in 1..Len(v)
      BY <1>4, <2>1, <2>3
    <3>2. n + m + 1 = Len(u) + (m + 1)
      BY <1>4, <2>3
    <3>3. w[Len(u) + (m + 1)] = v[m + 1]
      BY <2>3, <3>1
    <3>4. w[n + m + 1].file = "raise"
      BY <2>1, <3>2, <3>3
    <3>5. n + m \in 0..Len(w) /\ n + m < Len(w)
      BY <1>4, <2>1, <2>3
    <3> QED BY <3>4, <3>5
  <2> QED BY <2>3, <2>4, <2>7, <2>8, <2>9 DEF Stops, w
<1> QED BY <1>2, <1>3, <1>4

-----------------------------------------------------------------------------
(* What the files must be between two writes. *)

\* The writes of an operation on t, each with the files before and after it.
Edges(t) == {e \in Writes \X Images \X Images : Edge(e[1], t, e[2], e[3])}

\* What they are.
LEMMA EdgesAre ==
    ASSUME NEW t, NEW w, NEW a, NEW b
    PROVE  <<w, a, b>> \in Edges(t)
              <=> w \in Writes /\ a \in Images /\ b \in Images /\ Edge(w, t, a, b)
BY DEF Edges

\* A transaction past its drain remembers the pointers it started from.
Ready(t, a) ==
    a.st \in {"activating", "healthchecking"} /\ a.active # NoFile /\ a.active.txn = t
        => a.active.prior # NoFile

\* What an operation that goes on at pc, still under the lock, relies on.
AtPC(pc, t, a) ==
    /\ pc = "switch" => a.active # NoFile /\ a.active.txn = t /\ a.st = "activating"
    /\ pc = "abort" => a.active # NoFile /\ a.active.txn = t
                       /\ a.st \in {"activating", "healthchecking"}
    /\ pc = "converge" => a.active = NoFile \/ a.active.prior # NoFile

Nodes(t, err) == {a \in Images : Ready(t, a) /\ AtPC(err, t, a)}

\* Where nothing of the kind is relied on.
Plain(pc) == pc \notin {"switch", "abort", "converge"}

\* Where nothing is relied on, every ready image is a node.
LEMMA PlainNodes ==
    ASSUME NEW t, NEW pc, Plain(pc), NEW a \in Images, Ready(t, a) PROVE a \in Nodes(t, pc)
BY DEF Plain, Nodes, AtPC

\* The journal's transitions (_ALLOWED_TRANSITIONS).
LEMMA FollowsIs ==
    /\ Follows("none", "resolving")
    /\ Follows("resolving", "downloading") /\ Follows("resolving", "failed")
    /\ Follows("downloading", "verifying") /\ Follows("downloading", "failed")
    /\ Follows("verifying", "downloading") /\ Follows("verifying", "staging")
    /\ Follows("verifying", "failed") /\ Follows("staging", "failed")
    /\ Follows("staging", "awaiting_user")
    /\ Follows("awaiting_user", "draining") /\ Follows("awaiting_user", "failed")
    /\ Follows("draining", "activating") /\ Follows("draining", "failed")
    /\ Follows("activating", "healthchecking") /\ Follows("activating", "rollback")
    /\ Follows("activating", "failed")
    /\ Follows("healthchecking", "completed") /\ Follows("healthchecking", "rollback")
    /\ Follows("healthchecking", "failed") /\ Follows("completed", "rollback")
BY DEF Follows, Allowed

\* One write of each kind.
LEMMA JournalStep ==
    ASSUME NEW t \in Txns, NEW S, S \subseteq Images, NEW a \in S, NEW b \in S,
           NEW s \in InstallStates, Follows(a.st, s), b.st = s, b.active = a.active,
           b.ptr = a.ptr, b.intent = a.intent, b.receipt = a.receipt
    PROVE  Plan(<<JournalTo(t, s)>>, Edges(t), S, a, b)
<1> DEFINE w == JournalTo(t, s)
<1>1. w \in Writes /\ w.file = "journal" /\ w.content.txn = t /\ w.content.state = s
  BY DEF JournalTo, Put, Writes
<1> HIDE DEF w
<1>2. b = [st |-> s, active |-> a.active, ptr |-> a.ptr, intent |-> a.intent,
           receipt |-> a.receipt]
  BY DEF Images
<1>3. Edge(w, t, a, b)
  BY <1>1, <1>2 DEF Edge, Made
<1>4. <<w, a, b>> \in Edges(t)
  BY <1>1, <1>3, EdgesAre
<1> QED BY <1>1, <1>4, PlanOne DEF w

\* A write of the slot pointers.
LEMMA PtrStep ==
    ASSUME NEW t, NEW S, S \subseteq Images, NEW a \in S, NEW b \in S, a.st # "none",
           b.st = a.st, b.active = a.active, b.intent = a.intent, b.receipt = a.receipt
    PROVE  Plan(<<Point(b.ptr)>>, Edges(t), S, a, b)
<1> DEFINE w == Point(b.ptr)
<1>1. w \in Writes /\ w.file = "ptr" /\ w.content = b.ptr
  BY DEF Point, Put, Writes, Images
<1> HIDE DEF w
<1>2. b = [st |-> a.st, active |-> a.active, ptr |-> b.ptr, intent |-> a.intent,
           receipt |-> a.receipt]
  BY DEF Images
<1>3. Edge(w, t, a, b)
  BY <1>1, <1>2 DEF Edge, Made
<1>4. <<w, a, b>> \in Edges(t)
  BY <1>1, <1>3, EdgesAre
<1> QED BY <1>1, <1>4, PlanOne DEF w

\* A write of the active transaction.
LEMMA ActiveStep ==
    ASSUME NEW t, NEW S, S \subseteq Images, NEW a \in S, NEW b \in S,
           b.st = a.st, b.ptr = a.ptr, b.intent = a.intent, b.receipt = a.receipt
    PROVE  Plan(<<Put("active", b.active)>>, Edges(t), S, a, b)
<1> DEFINE w == Put("active", b.active)
<1>1. w \in Writes /\ w.file = "active" /\ w.content = b.active
  BY DEF Put, Writes, Images
<1> HIDE DEF w
<1>2. b = [st |-> a.st, active |-> b.active, ptr |-> a.ptr, intent |-> a.intent,
           receipt |-> a.receipt]
  BY DEF Images
<1>3. Edge(w, t, a, b)
  BY <1>1, <1>2 DEF Edge, Made
<1>4. <<w, a, b>> \in Edges(t)
  BY <1>1, <1>3, EdgesAre
<1> QED BY <1>1, <1>4, PlanOne DEF w

\* A write of the activation intent.
LEMMA IntentStep ==
    ASSUME NEW t, NEW S, S \subseteq Images, NEW a \in S, NEW b \in S, a.st # "none",
           b.st = a.st, b.active = a.active, b.ptr = a.ptr, b.receipt = a.receipt
    PROVE  Plan(<<Put("intent", b.intent)>>, Edges(t), S, a, b)
<1> DEFINE w == Put("intent", b.intent)
<1>1. w \in Writes /\ w.file = "intent" /\ w.content = b.intent
  BY DEF Put, Writes, Images
<1> HIDE DEF w
<1>2. b = [st |-> a.st, active |-> a.active, ptr |-> a.ptr, intent |-> b.intent,
           receipt |-> a.receipt]
  BY DEF Images
<1>3. Edge(w, t, a, b)
  BY <1>1, <1>2 DEF Edge, Made
<1>4. <<w, a, b>> \in Edges(t)
  BY <1>1, <1>3, EdgesAre
<1> QED BY <1>1, <1>4, PlanOne DEF w

\* A write of the receipt.
LEMMA ReceiptStep ==
    ASSUME NEW t, NEW S, S \subseteq Images, NEW a \in S, NEW b \in S, a.st # "none",
           b.st = a.st, b.active = a.active, b.ptr = a.ptr, b.intent = a.intent
    PROVE  Plan(<<Put("receipt", b.receipt)>>, Edges(t), S, a, b)
<1> DEFINE w == Put("receipt", b.receipt)
<1>1. w \in Writes /\ w.file = "receipt" /\ w.content = b.receipt
  BY DEF Put, Writes, Images
<1> HIDE DEF w
<1>2. b = [st |-> a.st, active |-> a.active, ptr |-> a.ptr, intent |-> a.intent,
           receipt |-> b.receipt]
  BY DEF Images
<1>3. Edge(w, t, a, b)
  BY <1>1, <1>2 DEF Edge, Made
<1>4. <<w, a, b>> \in Edges(t)
  BY <1>1, <1>3, EdgesAre
<1> QED BY <1>1, <1>4, PlanOne DEF w

\* A slot directory is made or removed: no file changes.
LEMMA SlotStep ==
    ASSUME NEW t, NEW S, S \subseteq Images, NEW a \in S, a.st # "none", NEW v \in Versions,
           NEW kind \in {"stage", "discard", "try_discard"}
    PROVE  Plan(<<Put(kind, v)>>, Edges(t), S, a, a)
<1> DEFINE w == Put(kind, v)
<1>1. w \in Writes /\ w.file = kind
  BY DEF Put, Writes
<1> HIDE DEF w
<1>2. a = [st |-> a.st, active |-> a.active, ptr |-> a.ptr, intent |-> a.intent,
           receipt |-> a.receipt]
  BY DEF Images
<1>3. Edge(w, t, a, a)
  BY <1>1, <1>2 DEF Edge, Made
<1>4. <<w, a, a>> \in Edges(t)
  BY <1>1, <1>3, EdgesAre
<1> QED BY <1>1, <1>4, PlanOne DEF w

\* Removing the intent and then the active file.
LEMMA CleanupPlan ==
    ASSUME NEW t, NEW S, S \subseteq Images, NEW a \in S, NEW m \in S, NEW b \in S,
           a.st # "none",
           m.st = a.st, m.ptr = a.ptr, m.receipt = a.receipt, m.active = a.active,
           b.st = a.st, b.ptr = a.ptr, b.receipt = a.receipt, b.active = NoFile,
           m.intent = NoFile, b.intent = NoFile
    PROVE  Plan(Cleanup, Edges(t), S, a, b)
<1>1. Plan(<<Put("intent", m.intent)>>, Edges(t), S, a, m)
  BY IntentStep
<1>2. Plan(<<Put("active", b.active)>>, Edges(t), S, m, b)
  BY ActiveStep
<1> QED BY <1>1, <1>2, PlanTwo DEF Cleanup, Remove

-----------------------------------------------------------------------------
(* The operations, each as a plan *)

\* t is the latest transaction of the journal.
Last(t) == t \in Txns /\ journal[t] # "none" /\ \A u \in Txns : u > t => journal[u] = "none"

FilesOK ==
    /\ journal \in [Txns -> InstallStates \cup {"none"}]
    /\ Last(Latest)
    /\ Image(Latest) \in Images /\ Ready(Latest, Image(Latest))

\* There is one latest transaction.
LEMMA LatestIs == ASSUME NEW t, Last(t) PROVE Latest = t
<1>1. \A u \in Txns : u \in Nat
  BY BoundsAssumption DEF Txns
<1>2. \A u \in Txns : Last(u) => u = t
  BY <1>1 DEF Last
<1> QED BY <1>2 DEF Latest, Last

\* An operation works on the latest transaction, or on the next one when that is closed.
Starts(t) ==
    t \in Txns /\ (t = Latest \/ (t = Latest + 1 /\ journal[Latest] \in TerminalStates))

Plans(ws, ok, err) ==
    \E t, b : Starts(t) /\ Plan(ws, Edges(t), Nodes(t, err), Image(t), b) /\ AtPC(ok, t, b)

\* The fields of the files.
LEMMA FilesAre ==
    ASSUME FilesOK
    PROVE  /\ Latest \in Txns /\ journal[Latest] \in InstallStates
           /\ active \in Actives \cup {NoFile} /\ intent \in Intents \cup {NoFile}
           /\ receipt \in Receipts \cup {NoFile} /\ ptr \in Pointers
           /\ Image(Latest).st = journal[Latest] /\ Image(Latest).active = active
           /\ Image(Latest).ptr = ptr /\ Image(Latest).intent = intent
           /\ Image(Latest).receipt = receipt
           /\ Starts(Latest) /\ Image(Latest).st # "none"
<1>1. Latest \in Txns /\ journal[Latest] \in InstallStates
  BY DEF FilesOK, Last
<1>2. /\ Image(Latest).st = journal[Latest] /\ Image(Latest).active = active
      /\ Image(Latest).ptr = ptr /\ Image(Latest).intent = intent
      /\ Image(Latest).receipt = receipt
  BY DEF Image
<1>3. /\ active \in Actives \cup {NoFile} /\ intent \in Intents \cup {NoFile}
      /\ receipt \in Receipts \cup {NoFile} /\ ptr \in Pointers
  BY <1>2 DEF FilesOK, Images
<1> QED BY <1>1, <1>2, <1>3 DEF FilesOK, Starts, Last

\* What is known of a node.
LEMMA NodesAre ==
    ASSUME NEW t, NEW err
    PROVE  /\ Nodes(t, err) \subseteq Images
           /\ \A a \in Nodes(t, err) :
                 /\ a.st \in InstallStates \cup {"none"} /\ a.ptr \in Pointers
                 /\ a.active \in Actives \cup {NoFile}
                 /\ a.intent \in Intents \cup {NoFile}
                 /\ a.receipt \in Receipts \cup {NoFile}
                 /\ Ready(t, a) /\ AtPC(err, t, a)
BY DEF Nodes, Images

\* ensure_pending_current: the journal is at healthchecking when it returns.
LEMMA EnsurePlan ==
    ASSUME FilesOK, NEW i \in Intents, i.txn = Latest,
           journal[Latest] \in {"activating", "healthchecking"},
           NEW err, Plain(err) \/ err = "abort",
           NEW a \in Nodes(Latest, err), a.st = journal[Latest], a.ptr = ptr, a.active = active
    PROVE  \E b \in Nodes(Latest, err) :
              /\ Plan(EnsureWrites(i), Edges(Latest), Nodes(Latest, err), a, b)
              /\ b.st = "healthchecking" /\ b.active = a.active
              /\ b.intent = a.intent /\ b.receipt = a.receipt
<1> DEFINE t == Latest
           S == Nodes(t, err)
           starting == journal[i.txn] = "activating"
           after == IF starting /\ ptr = i.prior THEN SwitchTo(ptr, i.slot) ELSE ptr
           a1 == [st |-> a.st, active |-> a.active, ptr |-> after, intent |-> a.intent,
                  receipt |-> a.receipt]
           b == [st |-> "healthchecking", active |-> a.active, ptr |-> after,
                 intent |-> a.intent, receipt |-> a.receipt]
<1>1. t \in Txns /\ ptr \in Pointers
  BY FilesAre
<1>2. /\ a.st \in InstallStates /\ a.active \in Actives \cup {NoFile}
      /\ a.intent \in Intents \cup {NoFile} /\ a.receipt \in Receipts \cup {NoFile}
      /\ Ready(t, a) /\ AtPC(err, t, a) /\ a.st \in {"activating", "healthchecking"}
      /\ a \in Images /\ S \subseteq Images /\ a \in S
  BY NodesAre DEF InstallStates
<1>3. after \in Pointers
  BY <1>1, PointersMove, IntentsAre
<1>4. starting <=> a.st = "activating"
  OBVIOUS
<1>5. after = a.ptr \/ starting
  OBVIOUS
<1> HIDE DEF after, t, starting
<1>6. /\ a1 \in Images /\ a1.st = a.st /\ a1.active = a.active /\ a1.ptr = after
      /\ a1.intent = a.intent /\ a1.receipt = a.receipt
      /\ b \in Images /\ b.st = "healthchecking" /\ b.active = a.active /\ b.ptr = after
      /\ b.intent = a.intent /\ b.receipt = a.receipt
      /\ (after = ptr => a = a1) /\ (~starting => a1 = b)
  BY <1>2, <1>3, <1>4 DEF Images, InstallStates
<1> HIDE DEF a1, b
<1>7. a1 \in S /\ b \in S
  BY <1>2, <1>6 DEF Nodes, Ready, AtPC, Plain
<1> HIDE DEF S
<1>8. Plan(If(after # ptr, <<Point(after)>>), Edges(t), S, a, a1)
  <2>1. Plan(<<Point(a1.ptr)>>, Edges(t), S, a, a1)
    BY <1>2, <1>6, <1>7, PtrStep
  <2> QED BY <1>2, <1>6, <2>1, PlanIf
<1>9. Plan(If(starting, <<JournalTo(i.txn, "healthchecking")>>), Edges(t), S, a1, b)
  <2>1. starting => Plan(<<JournalTo(t, "healthchecking")>>, Edges(t), S, a1, b)
    BY <1>1, <1>2, <1>4, <1>6, <1>7, FollowsIs, JournalStep DEF InstallStates
  <2>2. starting \in BOOLEAN /\ i.txn = t
    BY DEF starting, t
  <2> QED BY <1>6, <1>7, <2>1, <2>2, PlanIf
<1>10. Plan(If(after.current # i.slot \/ i.slot \in Good(after), <<Raise>>), Edges(t), S, b, b)
  BY <1>7, PlanRaise, PlanIf
<1>11. Plan(EnsureWrites(i), Edges(t), S, a, b)
  BY <1>8, <1>9, <1>10, PlanConcat DEF EnsureWrites, after, starting
<1> QED BY <1>6, <1>7, <1>11 DEF t, S

\* confirm, from healthchecking.
LEMMA ConfirmPlan ==
    ASSUME FilesOK, NEW i \in Intents, i.txn = Latest, NEW err, Plain(err),
           NEW a \in Nodes(Latest, err), a.st = "healthchecking"
    PROVE  \E b \in Nodes(Latest, err) :
              Plan(ConfirmWrites(i), Edges(Latest), Nodes(Latest, err), a, b)
<1> DEFINE t == Latest
           S == Nodes(t, err)
           p == MarkKnownGood(ptr, i.slot)
           r1 == ReceiptFor(i, "confirming")
           r2 == ReceiptFor(i, "confirmed")
           a1 == [st |-> "healthchecking", active |-> a.active, ptr |-> a.ptr,
                  intent |-> a.intent, receipt |-> r1]
           a2 == [st |-> "healthchecking", active |-> a.active, ptr |-> p,
                  intent |-> a.intent, receipt |-> r1]
           a3 == [st |-> "completed", active |-> a.active, ptr |-> p,
                  intent |-> a.intent, receipt |-> r1]
           a4 == [st |-> "completed", active |-> a.active, ptr |-> p,
                  intent |-> a.intent, receipt |-> r2]
           a5 == [st |-> "completed", active |-> a.active, ptr |-> p,
                  intent |-> NoFile, receipt |-> r2]
           b == [st |-> "completed", active |-> NoFile, ptr |-> p,
                 intent |-> NoFile, receipt |-> r2]
<1>1. /\ t \in Txns /\ ptr \in Pointers /\ S \subseteq Images /\ a \in S
      /\ i.slot \in Versions /\ i.prior \in Pointers /\ i.txn \in Txns
  BY FilesAre, NodesAre, IntentsAre
<1>2. /\ a.active \in Actives \cup {NoFile} /\ a.intent \in Intents \cup {NoFile}
      /\ a.ptr \in Pointers /\ Ready(t, a)
  BY NodesAre
<1>3. p \in Pointers /\ r1 \in Receipts /\ r2 \in Receipts
  BY <1>1, PointersMove, IntentsAre
<1> HIDE DEF p, r1, r2, t
<1>4. /\ a1 \in Images /\ a2 \in Images /\ a3 \in Images /\ a4 \in Images /\ a5 \in Images
      /\ b \in Images
  BY <1>2, <1>3 DEF Images, InstallStates, TerminalStates
<1>5. /\ a1.st = "healthchecking" /\ a1.active = a.active /\ a1.ptr = a.ptr
      /\ a1.intent = a.intent /\ a1.receipt = r1
      /\ a2.st = "healthchecking" /\ a2.active = a.active /\ a2.ptr = p
      /\ a2.intent = a.intent /\ a2.receipt = r1
      /\ a3.st = "completed" /\ a3.active = a.active /\ a3.ptr = p
      /\ a3.intent = a.intent /\ a3.receipt = r1
      /\ a4.st = "completed" /\ a4.active = a.active /\ a4.ptr = p
      /\ a4.intent = a.intent /\ a4.receipt = r2
      /\ a5.st = "completed" /\ a5.active = a.active /\ a5.ptr = p
      /\ a5.intent = NoFile /\ a5.receipt = r2
      /\ b.st = "completed" /\ b.active = NoFile /\ b.ptr = p
      /\ b.intent = NoFile /\ b.receipt = r2
  OBVIOUS
<1> HIDE DEF a1, a2, a3, a4, a5, b
<1>6. Ready(t, a1) /\ Ready(t, a2) /\ Ready(t, a3) /\ Ready(t, a4) /\ Ready(t, a5) /\ Ready(t, b)
  BY <1>2, <1>5 DEF Ready
<1>7. a1 \in S /\ a2 \in S /\ a3 \in S /\ a4 \in S /\ a5 \in S /\ b \in S
  BY <1>4, <1>6, PlainNodes
<1> HIDE DEF S
<1>8. Plan(<<Put("receipt", a1.receipt)>>, Edges(t), S, a, a1)
  BY <1>1, <1>5, <1>7, ReceiptStep
<1>9. Plan(<<Point(a2.ptr)>>, Edges(t), S, a1, a2)
  BY <1>1, <1>5, <1>7, PtrStep
<1>10. Plan(<<JournalTo(t, "completed")>>, Edges(t), S, a2, a3)
  BY <1>1, <1>5, <1>7, FollowsIs, JournalStep DEF InstallStates, TerminalStates
<1>11. Plan(<<Put("receipt", a4.receipt)>>, Edges(t), S, a3, a4)
  BY <1>1, <1>5, <1>7, ReceiptStep
<1>12. Plan(Cleanup, Edges(t), S, a4, b)
  BY <1>1, <1>5, <1>7, CleanupPlan
<1>13. Plan(<<Put("receipt", r1), Point(p)>>, Edges(t), S, a, a2)
  BY <1>5, <1>8, <1>9, PlanTwo
<1>14. Plan(<<JournalTo(t, "completed"), Put("receipt", r2)>>, Edges(t), S, a2, a4)
  BY <1>5, <1>10, <1>11, PlanTwo
<1>15. Plan(<<Put("receipt", r1), Point(p), JournalTo(t, "completed"), Put("receipt", r2)>>,
            Edges(t), S, a, a4)
  BY <1>13, <1>14, PlanFour
<1>16. Plan(ConfirmWrites(i), Edges(t), S, a, b)
  BY <1>12, <1>15, PlanConcat DEF ConfirmWrites, p, r1, r2, t
<1> QED BY <1>7, <1>16 DEF t, S

\* A transaction is closed, then the intent and the active file are removed.
LEMMA ClosePlan ==
    ASSUME NEW t \in Txns, NEW err, Plain(err) \/ err = "converge",
           NEW a \in Nodes(t, err), a.st \in {"activating", "healthchecking"},
           NEW s \in {"failed", "rollback"}
    PROVE  \E x, z \in Nodes(t, err) :
              /\ Plan(<<JournalTo(t, s)>>, Edges(t), Nodes(t, err), a, x)
              /\ Plan(Cleanup, Edges(t), Nodes(t, err), x, z) /\ z.st = s
<1> DEFINE S == Nodes(t, err)
           x == [st |-> s, active |-> a.active, ptr |-> a.ptr, intent |-> a.intent,
                 receipt |-> a.receipt]
           y == [st |-> s, active |-> a.active, ptr |-> a.ptr, intent |-> NoFile,
                 receipt |-> a.receipt]
           z == [st |-> s, active |-> NoFile, ptr |-> a.ptr, intent |-> NoFile,
                 receipt |-> a.receipt]
<1>1. /\ a \in S /\ S \subseteq Images /\ a.active \in Actives \cup {NoFile}
      /\ a.intent \in Intents \cup {NoFile} /\ a.receipt \in Receipts \cup {NoFile}
      /\ a.ptr \in Pointers /\ AtPC(err, t, a) /\ s \in InstallStates
  BY NodesAre DEF InstallStates, TerminalStates
<1>2. /\ x \in Images /\ x.st = s /\ x.active = a.active /\ x.ptr = a.ptr
      /\ x.intent = a.intent /\ x.receipt = a.receipt
      /\ y \in Images /\ y.st = s /\ y.active = a.active /\ y.ptr = a.ptr
      /\ y.intent = NoFile /\ y.receipt = a.receipt
      /\ z \in Images /\ z.st = s /\ z.active = NoFile /\ z.ptr = a.ptr
      /\ z.intent = NoFile /\ z.receipt = a.receipt
  BY <1>1 DEF Images
<1> HIDE DEF x, y, z
<1>3. x \in S /\ y \in S /\ z \in S
  BY <1>1, <1>2 DEF Nodes, Ready, AtPC, Plain
<1>4. Follows(a.st, s) /\ s # "none"
  BY FollowsIs
<1> HIDE DEF S
<1>5. Plan(<<JournalTo(t, s)>>, Edges(t), S, a, x)
  BY <1>1, <1>2, <1>3, <1>4, JournalStep
<1>6. Plan(Cleanup, Edges(t), S, x, z)
  BY <1>1, <1>2, <1>3, <1>4, CleanupPlan
<1> QED BY <1>2, <1>3, <1>5, <1>6 DEF S

\* fail_pre_data, for an intent of the latest transaction, before it is confirmed.
LEMMA FailPlan ==
    ASSUME FilesOK, NEW i \in Intents, i.txn = Latest,
           journal[Latest] \in {"activating", "healthchecking"},
           NEW err, Plain(err) \/ err = "converge", AtPC(err, Latest, Image(Latest))
    PROVE  \E b \in Nodes(Latest, err) :
              Plan(FailWrites(i), Edges(Latest), Nodes(Latest, err), Image(Latest), b)
<1> DEFINE t == Latest
           S == Nodes(t, err)
           a == Image(t)
           p == i.prior
           a1 == [st |-> a.st, active |-> a.active, ptr |-> p, intent |-> a.intent,
                  receipt |-> a.receipt]
           kept == \/ receipt # NoFile /\ receipt.txn = i.txn /\ receipt.slot = i.slot
                      /\ receipt.barrier
                   \/ i.slot \in Good(ptr)
<1>1. /\ t \in Txns /\ a \in Images /\ Ready(t, a) /\ S \subseteq Images
      /\ a.st \in {"activating", "healthchecking"} /\ a.active \in Actives \cup {NoFile}
      /\ a.intent \in Intents \cup {NoFile} /\ a.receipt \in Receipts \cup {NoFile}
      /\ a.ptr \in Pointers /\ AtPC(err, t, a)
      /\ i.slot \in Versions /\ p \in Pointers
  BY FilesAre, NodesAre, IntentsAre DEF FilesOK
<1>2. a \in S
  BY <1>1 DEF Nodes
<1>3. i.txn = t
  OBVIOUS
<1> HIDE DEF t, a, p
<1>4. /\ a1 \in Images /\ a1.st = a.st /\ a1.active = a.active /\ a1.ptr = p
      /\ a1.intent = a.intent /\ a1.receipt = a.receipt
  BY <1>1 DEF Images, InstallStates
<1> HIDE DEF a1
<1>5. a1 \in S
  BY <1>1, <1>4 DEF Nodes, Ready, AtPC, Plain
<1>6. CASE kept
  <2>1. PICK x \in S, z \in S : /\ Plan(<<JournalTo(t, "failed")>>, Edges(t), S, a, x)
                                /\ Plan(Cleanup, Edges(t), S, x, z)
    BY <1>1, <1>2, ClosePlan
  <2> HIDE DEF S
  <2>2. Plan(<<JournalTo(i.txn, "failed")>> \o Cleanup, Edges(t), S, a, z)
    BY <1>3, <2>1, PlanConcat
  <2>3. Plan(FailWrites(i), Edges(t), S, a, z)
    BY <1>6, <2>2 DEF FailWrites
  <2> QED BY <2>3 DEF S, t, a
<1>7. CASE ~kept
  <2>1. PICK x \in S, z \in S : /\ Plan(<<JournalTo(t, "rollback")>>, Edges(t), S, a1, x)
                                /\ Plan(Cleanup, Edges(t), S, x, z) /\ z.st = "rollback"
    BY <1>1, <1>4, <1>5, ClosePlan
  <2> HIDE DEF S
  <2>2. Plan(If(~PriorValid(p), <<Raise>>), Edges(t), S, a, a)
    BY <1>2, PlanRaise, PlanIf DEF PriorValid
  <2>3. Plan(<<Point(p)>>, Edges(t), S, a, a1)
    BY <1>1, <1>2, <1>4, <1>5, PtrStep
  <2>4. Plan(<<Point(p), JournalTo(t, "rollback")>>, Edges(t), S, a, x)
    BY <2>1, <2>3, PlanTwo
  <2>5. Plan(<<TryDiscard(i.slot)>>, Edges(t), S, z, z)
    BY <1>1, <2>1, SlotStep DEF TryDiscard
  <2>6. Plan(If(~PriorValid(p), <<Raise>>) \o <<Point(p), JournalTo(t, "rollback")>>
             \o Cleanup \o <<TryDiscard(i.slot)>>, Edges(t), S, a, z)
    BY <2>1, <2>2, <2>4, <2>5, PlanConcat
  <2>7. FailWrites(i) = If(~PriorValid(p), <<Raise>>) \o <<Point(p), JournalTo(t, "rollback")>>
                        \o Cleanup \o <<TryDiscard(i.slot)>>
    BY <1>3, <1>7 DEF FailWrites, p
  <2>8. Plan(FailWrites(i), Edges(t), S, a, z)
    BY <2>6, <2>7
  <2> QED BY <2>8 DEF S, t, a
<1> QED BY <1>6, <1>7

\* _finish_confirmed_pre_data_rollback, of a receipt of the latest transaction.
LEMMA FinishPlan ==
    ASSUME FilesOK, NEW r \in Receipts, r.txn = Latest, ~r.barrier, NEW err, Plain(err),
           NEW a \in Nodes(Latest, err), a.st = journal[Latest], a.ptr = ptr
    PROVE  \E b \in Nodes(Latest, err) :
              Plan(FinishWrites(r), Edges(Latest), Nodes(Latest, err), a, b)
<1> DEFINE t == Latest
           S == Nodes(t, err)
           back == ptr.current = r.slot
           open == journal[r.txn] = "completed"
           r1 == [r EXCEPT !.state = "rolled_back_pre_data"]
           p == IF back THEN r.prior ELSE ptr
           s == IF open THEN "rollback" ELSE a.st
           a1 == [st |-> a.st, active |-> a.active, ptr |-> p, intent |-> a.intent,
                  receipt |-> a.receipt]
           a2 == [st |-> s, active |-> a.active, ptr |-> p, intent |-> a.intent,
                  receipt |-> a.receipt]
           b == [st |-> s, active |-> a.active, ptr |-> p, intent |-> a.intent,
                 receipt |-> r1]
<1>1. /\ t \in Txns /\ a \in S /\ S \subseteq Images /\ ptr \in Pointers
      /\ a.st \in InstallStates /\ a.st # "none" /\ (open <=> a.st = "completed")
  BY FilesAre, NodesAre
<1>2. /\ a.active \in Actives \cup {NoFile} /\ a.intent \in Intents \cup {NoFile}
      /\ a.receipt \in Receipts \cup {NoFile} /\ Ready(t, a) /\ a \in Images
  BY NodesAre
<1>3. /\ p \in Pointers /\ r1 \in Receipts /\ s \in InstallStates /\ r.slot \in Versions
      /\ s # "none" /\ (~back => p = a.ptr) /\ (~open => s = a.st) /\ (back => p = r.prior)
      /\ (open => s = "rollback") /\ r.txn = t /\ back \in BOOLEAN /\ open \in BOOLEAN
      /\ (s # a.st => s = "rollback")
  BY <1>1, ReceiptsAre DEF InstallStates, TerminalStates
<1> HIDE DEF t, back, open, r1, p, s
<1>4. /\ a1 \in Images /\ a1.st = a.st /\ a1.active = a.active /\ a1.ptr = p
      /\ a1.intent = a.intent /\ a1.receipt = a.receipt
      /\ a2 \in Images /\ a2.st = s /\ a2.active = a.active /\ a2.ptr = p
      /\ a2.intent = a.intent /\ a2.receipt = a.receipt
      /\ b \in Images /\ b.st = s /\ b.active = a.active /\ b.ptr = p
      /\ b.intent = a.intent /\ b.receipt = r1
      /\ (~back => a = a1) /\ (~open => a1 = a2)
  BY <1>1, <1>2, <1>3 DEF Images
<1> HIDE DEF a1, a2, b
<1>5. Ready(t, a1) /\ Ready(t, a2) /\ Ready(t, b)
  BY <1>2, <1>3, <1>4 DEF Ready
<1>6. a1 \in S /\ a2 \in S /\ b \in S
  BY <1>4, <1>5, PlainNodes
<1> HIDE DEF S
<1>7. Plan(If(back, <<Point(r.prior)>>), Edges(t), S, a, a1)
  <2>1. Plan(<<Point(a1.ptr)>>, Edges(t), S, a, a1)
    BY <1>1, <1>4, <1>6, PtrStep
  <2> QED BY <1>1, <1>3, <1>4, <2>1, PlanIf
<1>8. Plan(If(open, <<JournalTo(r.txn, "rollback")>>), Edges(t), S, a1, a2)
  <2>1. open => Plan(<<JournalTo(t, "rollback")>>, Edges(t), S, a1, a2)
    BY <1>1, <1>3, <1>4, <1>6, FollowsIs, JournalStep
  <2> QED BY <1>3, <1>4, <1>6, <2>1, PlanIf
<1>9. Plan(<<Put("receipt", b.receipt)>>, Edges(t), S, a2, b)
  BY <1>1, <1>3, <1>4, <1>6, ReceiptStep
<1>10. Plan(<<TryDiscard(r.slot)>>, Edges(t), S, b, b)
  BY <1>1, <1>3, <1>4, <1>6, SlotStep DEF TryDiscard
<1>11. Plan(<<Put("receipt", r1), TryDiscard(r.slot)>>, Edges(t), S, a2, b)
  BY <1>4, <1>9, <1>10, PlanTwo
<1>12. Plan(FinishWrites(r), Edges(t), S, a, b)
  BY <1>7, <1>8, <1>11, PlanConcat DEF FinishWrites, back, open, r1
<1> QED BY <1>6, <1>12 DEF t, S

\* rollback_confirmed_pre_data
LEMMA RollbackPlan ==
    ASSUME FilesOK, receipt # NoFile, receipt.txn = Latest, ~receipt.barrier, NEW err,
           Plain(err)
    PROVE  \E b \in Nodes(Latest, err) :
              Plan(RollbackWrites(receipt), Edges(Latest), Nodes(Latest, err), Image(Latest), b)
<1> DEFINE t == Latest
           S == Nodes(t, err)
           a == Image(t)
           r == [receipt EXCEPT !.state = "rollback_pending"]
           a1 == [st |-> a.st, active |-> a.active, ptr |-> a.ptr, intent |-> a.intent,
                  receipt |-> r]
<1>1. /\ t \in Txns /\ a \in Images /\ Ready(t, a) /\ S \subseteq Images /\ a.st # "none"
      /\ a.st = journal[t] /\ a.ptr = ptr
      /\ r \in Receipts /\ r.txn = t /\ ~r.barrier
  BY FilesAre, NodesAre, ReceiptsAre DEF FilesOK
<1>2. a \in S
  BY <1>1, PlainNodes
<1> HIDE DEF a, r
<1>3. /\ a1 \in Images /\ a1.st = a.st /\ a1.active = a.active /\ a1.ptr = a.ptr
      /\ a1.intent = a.intent /\ a1.receipt = r
  BY <1>1 DEF Images
<1> HIDE DEF a1
<1>4. Ready(t, a1)
  BY <1>1, <1>3 DEF Ready
<1>5. a1 \in S
  BY <1>3, <1>4, PlainNodes
<1>6. Plan(<<Put("receipt", a1.receipt)>>, Edges(t), S, a, a1)
  BY <1>1, <1>2, <1>3, <1>5, ReceiptStep
<1>7. PICK b \in S : Plan(FinishWrites(r), Edges(t), S, a1, b)
  BY <1>1, <1>3, <1>5, FinishPlan
<1>8. Plan(<<Put("receipt", r)>> \o FinishWrites(r), Edges(t), S, a, b)
  BY <1>3, <1>6, <1>7, PlanConcat
<1> QED BY <1>8 DEF RollbackWrites, a, r

\* reconcile_confirmation
LEMMA ReconcilePlan ==
    ASSUME FilesOK, ~ReconcileRaises, NEW err, Plain(err)
    PROVE  \E b \in Nodes(Latest, err) :
              Plan(ReconcileWrites, Edges(Latest), Nodes(Latest, err), Image(Latest), b)
<1> DEFINE t == Latest
           S == Nodes(t, err)
           a == Image(t)
<1>1. /\ t \in Txns /\ a \in Images /\ Ready(t, a) /\ S \subseteq Images /\ a.st # "none"
      /\ a.st = journal[t] /\ a.ptr = ptr /\ a.st \in InstallStates
      /\ a.active \in Actives \cup {NoFile} /\ a.intent \in Intents \cup {NoFile}
      /\ a.receipt \in Receipts \cup {NoFile} /\ a.ptr \in Pointers
      /\ a.intent = intent /\ a.receipt = receipt
  BY FilesAre, NodesAre DEF FilesOK
<1>2. a \in S
  BY <1>1, PlainNodes
<1> HIDE DEF a
<1>3. ASSUME intent = NoFile PROVE \E b \in S : Plan(ReconcileWrites, Edges(t), S, a, b)
  <2>1. RollbackUnfinished => \E b \in S : Plan(FinishWrites(receipt), Edges(t), S, a, b)
    <3> SUFFICES ASSUME RollbackUnfinished
                 PROVE  \E b \in S : Plan(FinishWrites(receipt), Edges(t), S, a, b)
      OBVIOUS
    <3>1. receipt \in Receipts /\ receipt.txn = t /\ ~receipt.barrier
      BY <1>1, <1>3 DEF ReconcileRaises, RollbackUnfinished, FinishRaises
    <3> QED BY <1>1, <1>2, <3>1, FinishPlan
  <2>2. ReconcileWrites = If(RollbackUnfinished, FinishWrites(receipt))
    BY <1>3 DEF ReconcileWrites
  <2> HIDE DEF S
  <2>3. \E b \in S : Plan(If(RollbackUnfinished, FinishWrites(receipt)), Edges(t), S, a, b)
    BY <1>2, <2>1, PlanNil DEF If
  <2> QED BY <2>2, <2>3
\* The intent and the active file are removed, from wherever that happens.
<1>4. ASSUME NEW c \in S, c.st # "none"
      PROVE  \E b \in S : Plan(Cleanup, Edges(t), S, c, b) /\ b.st = c.st
  <2> DEFINE y == [st |-> c.st, active |-> c.active, ptr |-> c.ptr, intent |-> NoFile,
                   receipt |-> c.receipt]
             z == [st |-> c.st, active |-> NoFile, ptr |-> c.ptr, intent |-> NoFile,
                   receipt |-> c.receipt]
  <2>1. c \in Images /\ Ready(t, c)
    BY NodesAre
  <2>2. /\ y \in Images /\ y.st = c.st /\ y.active = c.active /\ y.ptr = c.ptr
        /\ y.intent = NoFile /\ y.receipt = c.receipt
        /\ z \in Images /\ z.st = c.st /\ z.active = NoFile /\ z.ptr = c.ptr
        /\ z.intent = NoFile /\ z.receipt = c.receipt
    BY <2>1 DEF Images
  <2> HIDE DEF y, z
  <2>3. Ready(t, y) /\ Ready(t, z)
    BY <2>1, <2>2 DEF Ready
  <2>4. y \in S /\ z \in S
    BY <2>2, <2>3, PlainNodes
  <2>5. Plan(Cleanup, Edges(t), S, c, z)
    BY <1>1, <1>4, <2>2, <2>4, CleanupPlan
  <2> QED BY <2>2, <2>4, <2>5
<1>5. ASSUME intent # NoFile, Undone(intent)
      PROVE  \E b \in S : Plan(ReconcileWrites, Edges(t), S, a, b)
  <2>1. PICK b \in S : Plan(Cleanup, Edges(t), S, a, b) /\ b.st = a.st
    BY <1>1, <1>2, <1>4
  <2>2. Plan(<<TryDiscard(intent.slot)>>, Edges(t), S, b, b)
    BY <1>1, <1>5, <2>1, SlotStep, IntentsAre DEF TryDiscard
  <2>3. Plan(Cleanup \o <<TryDiscard(intent.slot)>>, Edges(t), S, a, b)
    BY <2>1, <2>2, PlanConcat
  <2> QED BY <1>5, <2>3 DEF ReconcileWrites
<1>6. ASSUME intent # NoFile, ~Undone(intent), RolledForward(intent)
      PROVE  \E b \in S : Plan(ReconcileWrites, Edges(t), S, a, b)
  <2>1. PICK b \in S : Plan(Cleanup, Edges(t), S, a, b) /\ b.st = a.st
    BY <1>1, <1>2, <1>4
  <2> QED BY <1>6, <2>1 DEF ReconcileWrites
<1>7. ASSUME intent # NoFile, ~Undone(intent), ~RolledForward(intent)
      PROVE  \E b \in S : Plan(ReconcileWrites, Edges(t), S, a, b)
  <2>1. CASE ~ConfirmedInPart(intent)
    <3>1. ReconcileWrites = <<>>
      BY <1>7, <2>1 DEF ReconcileWrites, If
    <3> QED BY <1>2, <3>1, PlanNil
  <2>2. CASE ConfirmedInPart(intent)
    <3> DEFINE open == journal[intent.txn] = "healthchecking"
               r == ReceiptFor(intent, "confirmed")
               a1 == [st |-> "completed", active |-> a.active, ptr |-> a.ptr,
                      intent |-> a.intent, receipt |-> a.receipt]
               a2 == [st |-> "completed", active |-> a.active, ptr |-> a.ptr,
                      intent |-> a.intent, receipt |-> r]
    <3>1. /\ intent.txn = t /\ a.st \in {"healthchecking", "completed"}
          /\ open \in BOOLEAN /\ (open <=> a.st = "healthchecking")
      BY <1>1, <1>7, <2>2 DEF ReconcileRaises
    <3>2. r \in Receipts
      BY <1>1, <1>7, IntentsAre
    <3> HIDE DEF open, r
    <3>3. /\ a1 \in Images /\ a1.st = "completed" /\ a1.active = a.active /\ a1.ptr = a.ptr
          /\ a1.intent = a.intent /\ a1.receipt = a.receipt
          /\ a2 \in Images /\ a2.st = "completed" /\ a2.active = a.active /\ a2.ptr = a.ptr
          /\ a2.intent = a.intent /\ a2.receipt = r
          /\ (~open => a = a1)
      BY <1>1, <3>1, <3>2 DEF Images, InstallStates, TerminalStates
    <3> HIDE DEF a1, a2
    <3>4. Ready(t, a1) /\ Ready(t, a2)
      BY <3>3 DEF Ready
    <3>5. a1 \in S /\ a2 \in S
      BY <3>3, <3>4, PlainNodes
    <3>6. PICK b \in S : Plan(Cleanup, Edges(t), S, a2, b)
      BY <1>4, <3>3, <3>5
    <3> HIDE DEF S
    <3>7. Plan(If(open, <<JournalTo(intent.txn, "completed")>>), Edges(t), S, a, a1)
      <4>1. open => Plan(<<JournalTo(t, "completed")>>, Edges(t), S, a, a1)
        BY <1>1, <1>2, <3>1, <3>3, <3>5, FollowsIs, JournalStep
           DEF InstallStates, TerminalStates
      <4> QED BY <1>2, <3>1, <3>3, <4>1, PlanIf
    <3>8. Plan(<<Put("receipt", a2.receipt)>>, Edges(t), S, a1, a2)
      BY <1>1, <3>3, <3>5, ReceiptStep
    <3>9. Plan(If(open, <<JournalTo(intent.txn, "completed")>>)
               \o <<Put("receipt", r)>> \o Cleanup, Edges(t), S, a, b)
      BY <3>3, <3>6, <3>7, <3>8, PlanConcat
    <3>10. ReconcileWrites = If(open, <<JournalTo(intent.txn, "completed")>>)
                             \o <<Put("receipt", r)>> \o Cleanup
      BY <1>7, <2>2 DEF ReconcileWrites, If, open, r
    <3> QED BY <3>6, <3>9, <3>10
  <2> QED BY <2>1, <2>2
<1> QED BY <1>3, <1>5, <1>6, <1>7 DEF a

\* What an operation on the latest transaction plans.
LEMMA PlansLatest ==
    ASSUME FilesOK, NEW ws, NEW ok, NEW err, NEW b,
           Plan(ws, Edges(Latest), Nodes(Latest, err), Image(Latest), b), AtPC(ok, Latest, b)
    PROVE  Plans(ws, ok, err)
BY FilesAre DEF Plans

\* The writes of ensure_pending_current are well formed even when it raises.
LEMMA EnsureWritesAre ==
    ASSUME FilesOK, NEW i \in Intents PROVE EnsureWrites(i) \in Seq(Writes)
<1> DEFINE starting == journal[i.txn] = "activating"
           after == IF starting /\ ptr = i.prior THEN SwitchTo(ptr, i.slot) ELSE ptr
<1>1. after \in Pointers /\ i.txn \in Txns
  BY FilesAre, PointersMove, IntentsAre
<1>2. EnsureWrites(i) = If(after # ptr, <<Point(after)>>)
                        \o If(starting, <<JournalTo(i.txn, "healthchecking")>>)
                        \o If(after.current # i.slot \/ i.slot \in Good(after), <<Raise>>)
  BY DEF EnsureWrites
<1> HIDE DEF starting, after
<1>3. Point(after) \in Writes /\ JournalTo(i.txn, "healthchecking") \in Writes
      /\ Raise \in Writes
  BY <1>1 DEF Point, JournalTo, Raise, Put, Writes, InstallStates
<1>4. /\ If(after # ptr, <<Point(after)>>) \in Seq(Writes)
      /\ If(starting, <<JournalTo(i.txn, "healthchecking")>>) \in Seq(Writes)
      /\ If(after.current # i.slot \/ i.slot \in Good(after), <<Raise>>) \in Seq(Writes)
  BY <1>3 DEF If
<1>5. ASSUME NEW x \in Seq(Writes), NEW y \in Seq(Writes), NEW z \in Seq(Writes)
      PROVE  x \o y \o z \in Seq(Writes)
  OBVIOUS
<1>6. If(after # ptr, <<Point(after)>>)
      \o If(starting, <<JournalTo(i.txn, "healthchecking")>>)
      \o If(after.current # i.slot \/ i.slot \in Good(after), <<Raise>>) \in Seq(Writes)
  BY <1>4, <1>5
<1> QED BY <1>2, <1>6

\* create_intent and ensure_pending_current, under one try (Switch).
LEMMA SwitchPlan ==
    ASSUME FilesOK, AtPC("switch", Latest, Image(Latest))
    PROVE  LET i == IntentOf(active)
           IN  Plans(If(intent # NoFile /\ intent # i, <<Raise>>)
                     \o If(intent = NoFile, <<Put("intent", i)>>)
                     \o If(EnsureRaises(i), <<Raise>>)
                     \o EnsureWrites(i)
                     \o <<Put("active", active)>>, "open", "abort")
<1> DEFINE t == Latest
           S == Nodes(t, "abort")
           a == Image(t)
           i == IntentOf(active)
           a1 == [st |-> a.st, active |-> a.active, ptr |-> a.ptr,
                  intent |-> IF intent = NoFile THEN i ELSE a.intent, receipt |-> a.receipt]
           w1 == If(intent # NoFile /\ intent # i, <<Raise>>)
           w2 == If(intent = NoFile, <<Put("intent", i)>>)
           w3 == If(EnsureRaises(i), <<Raise>>)
           w4 == EnsureWrites(i)
           w5 == <<Put("active", active)>>
<1>1. /\ t \in Txns /\ a \in Images /\ Ready(t, a) /\ S \subseteq Images
      /\ a.st = "activating" /\ a.st = journal[t] /\ a.ptr = ptr /\ a.intent = intent
      /\ a.active = active /\ active \in Actives /\ active.txn = t /\ active # NoFile
      /\ active.prior \in Pointers /\ intent \in Intents \cup {NoFile}
  BY FilesAre, NodesAre DEF FilesOK, AtPC, Actives, Ready
<1>2. i \in Intents /\ i.txn = t
  BY <1>1, ActivesAre DEF IntentOf, Intents, IntentFiles, Pointers
<1>3. a \in S
  BY <1>1 DEF Nodes, AtPC
<1>4. /\ w4 \in Seq(Writes) /\ w5 \in Seq(Writes) /\ w2 \in Seq(Writes) /\ w3 \in Seq(Writes)
  <2>1. Put("active", active) \in Writes /\ Put("intent", i) \in Writes /\ Raise \in Writes
    BY <1>1, <1>2 DEF Put, Raise, Writes
  <2> QED BY <1>2, <2>1, EnsureWritesAre DEF If
<1> HIDE DEF i, a
<1>5. /\ a1 \in Images /\ a1.st = a.st /\ a1.active = a.active /\ a1.ptr = a.ptr
      /\ a1.receipt = a.receipt /\ (intent = NoFile => a1.intent = i)
      /\ (intent # NoFile => a1 = a)
  BY <1>1, <1>2 DEF Images
<1> HIDE DEF a1
<1>6. a1 \in S
  BY <1>1, <1>5 DEF Nodes, Ready, AtPC
<1>7. \E b : Plan(w1 \o w2 \o w3 \o w4 \o w5, Edges(t), S, a, b)
  <2>1. CASE intent # NoFile /\ intent # i
    <3>1. Stops(w1, Edges(t), S, a)
      BY <1>3, <2>1, StopsRaise DEF If
    <3> HIDE DEF w1, w2, w3, w4, w5, S
    <3>2. Stops(w1 \o w2 \o w3 \o w4 \o w5, Edges(t), S, a)
      BY <1>4, <3>1, StopsConcat
    <3> QED BY <3>2, StopsPlan
  <2>2. CASE ~(intent # NoFile /\ intent # i)
    <3>1. Plan(w1, Edges(t), S, a, a)
      BY <1>3, <2>2, PlanNil DEF If
    <3>2. Plan(w2, Edges(t), S, a, a1)
      <4>1. intent = NoFile => Plan(<<Put("intent", a1.intent)>>, Edges(t), S, a, a1)
        BY <1>1, <1>3, <1>5, <1>6, IntentStep
      <4> QED BY <1>3, <1>5, <4>1, PlanIf
    <3>3. CASE EnsureRaises(i)
      <4>1. Stops(w3, Edges(t), S, a1)
        BY <1>6, <3>3, StopsRaise DEF If
      <4> HIDE DEF w1, w2, w3, w4, w5, S
      <4>2. Plan(w1 \o w2, Edges(t), S, a, a1)
        BY <3>1, <3>2, PlanConcat
      <4>3. Stops(w1 \o w2 \o w3 \o w4 \o w5, Edges(t), S, a)
        BY <1>4, <4>1, <4>2, PlanStops, StopsConcat
      <4> QED BY <4>3, StopsPlan
    <3>4. CASE ~EnsureRaises(i)
      <4>1. Plan(w3, Edges(t), S, a1, a1)
        BY <1>6, <3>4, PlanNil DEF If
      <4>2. PICK b \in S : Plan(w4, Edges(t), S, a1, b) /\ b.active = a1.active
        BY <1>1, <1>2, <1>5, <1>6, EnsurePlan DEF t
      <4>3. Plan(<<Put("active", b.active)>>, Edges(t), S, b, b)
        BY <1>1, <4>2, ActiveStep
      <4>4. Plan(w5, Edges(t), S, b, b)
        BY <1>1, <1>5, <4>2, <4>3
      <4> HIDE DEF w1, w2, w3, w4, w5, S
      <4>5. Plan(w1 \o w2 \o w3 \o w4 \o w5, Edges(t), S, a, b)
        BY <3>1, <3>2, <4>1, <4>2, <4>4, PlanConcat
      <4> QED BY <4>5
    <3> QED BY <3>3, <3>4
  <2> QED BY <2>1, <2>2
<1>8. PICK b : Plan(w1 \o w2 \o w3 \o w4 \o w5, Edges(t), S, a, b)
  BY <1>7
<1>9. AtPC("open", t, b)
  BY DEF AtPC
<1>10. Plans(w1 \o w2 \o w3 \o w4 \o w5, "open", "abort")
  BY <1>8, <1>9, PlansLatest DEF a
<1> QED BY <1>10 DEF i

\* Its handler (Abort).
LEMMA AbortPlan ==
    ASSUME FilesOK, AtPC("abort", Latest, Image(Latest))
    PROVE  IF intent # NoFile /\ intent.txn = active.txn
           THEN Plans(If(FailRaises(intent), <<Raise>>) \o FailWrites(intent),
                      "open", "converge")
           ELSE Plans(If(ptr = active.prior, <<TryDiscard(active.slot)>>)
                      \o <<JournalTo(active.txn, "failed")>>, "open", "open")
<1> DEFINE t == Latest
           a == Image(t)
<1>1. /\ t \in Txns /\ a \in Images /\ Ready(t, a)
      /\ a.st \in {"activating", "healthchecking"} /\ a.st = journal[t] /\ a.ptr = ptr
      /\ a.active = active /\ active \in Actives /\ active.txn = t
      /\ active.prior # NoFile /\ intent \in Intents \cup {NoFile}
  BY FilesAre DEF FilesOK, AtPC, Ready
<1>2. Plain("open") /\ \A b : AtPC("open", t, b)
  BY DEF Plain, AtPC
<1>3. ASSUME intent # NoFile, intent.txn = active.txn
      PROVE  Plans(If(FailRaises(intent), <<Raise>>) \o FailWrites(intent), "open", "converge")
  <2> DEFINE S == Nodes(t, "converge")
  <2>1. AtPC("converge", t, a)
    BY <1>1 DEF AtPC
  <2>2. a \in S
    BY <1>1, <2>1 DEF Nodes
  <2>3. PICK b \in S : Plan(FailWrites(intent), Edges(t), S, a, b)
    BY <1>1, <1>3, <2>1, FailPlan
  <2> HIDE DEF S
  <2>4. Plan(If(FailRaises(intent), <<Raise>>), Edges(t), S, a, a)
    BY <2>2, PlanRaise, PlanIf DEF FailRaises
  <2>5. Plan(If(FailRaises(intent), <<Raise>>) \o FailWrites(intent), Edges(t), S, a, b)
    BY <2>3, <2>4, PlanConcat
  <2> QED BY <1>2, <2>5, PlansLatest DEF S
<1>4. Plans(If(ptr = active.prior, <<TryDiscard(active.slot)>>)
            \o <<JournalTo(active.txn, "failed")>>, "open", "open")
  <2> DEFINE S == Nodes(t, "open")
             b == [st |-> "failed", active |-> a.active, ptr |-> a.ptr, intent |-> a.intent,
                   receipt |-> a.receipt]
  <2>1. a \in S /\ S \subseteq Images
    BY <1>1, <1>2, PlainNodes, NodesAre
  <2> HIDE DEF a
  <2>2. /\ b \in Images /\ b.st = "failed" /\ b.active = a.active /\ b.ptr = a.ptr
        /\ b.intent = a.intent /\ b.receipt = a.receipt
    BY <1>1 DEF Images, InstallStates, TerminalStates
  <2> HIDE DEF b
  <2>3. b \in S
    BY <1>2, <2>2, PlainNodes DEF Ready
  <2> HIDE DEF S
  <2>4. Plan(<<TryDiscard(active.slot)>>, Edges(t), S, a, a)
    BY <1>1, <2>1, SlotStep, ActivesAre DEF TryDiscard
  <2>5. Plan(If(ptr = active.prior, <<TryDiscard(active.slot)>>), Edges(t), S, a, a)
    BY <2>1, <2>4, PlanIf
  <2>6. Plan(<<JournalTo(t, "failed")>>, Edges(t), S, a, b)
    BY <1>1, <2>1, <2>2, <2>3, FollowsIs, JournalStep DEF InstallStates, TerminalStates
  <2>7. Plan(If(ptr = active.prior, <<TryDiscard(active.slot)>>)
             \o <<JournalTo(active.txn, "failed")>>, Edges(t), S, a, b)
    BY <1>1, <2>5, <2>6, PlanConcat
  <2> QED BY <1>2, <2>7, PlansLatest DEF S, a
<1> QED BY <1>3, <1>4

\* A step of the coordinator that closes the latest transaction after discarding slots.
LEMMA GiveUpPlan ==
    ASSUME FilesOK, journal[Latest] \in {"awaiting_user", "draining", "activating"},
           NEW c \in BOOLEAN, NEW v \in Versions
    PROVE  Plans(If(c, <<Discard(v)>>) \o <<JournalTo(Latest, "failed")>>, "open", "open")
<1> DEFINE t == Latest
           a == Image(t)
           S == Nodes(t, "open")
           b == [st |-> "failed", active |-> a.active, ptr |-> a.ptr, intent |-> a.intent,
                 receipt |-> a.receipt]
<1>1. /\ t \in Txns /\ a \in Images /\ Ready(t, a)
      /\ a.st \in {"awaiting_user", "draining", "activating"}
  BY FilesAre DEF FilesOK
<1>2. Plain("open") /\ \A x : AtPC("open", t, x)
  BY DEF Plain, AtPC
<1>3. a \in S /\ S \subseteq Images
  BY <1>1, <1>2, PlainNodes, NodesAre
<1> HIDE DEF a
<1>4. /\ b \in Images /\ b.st = "failed" /\ b.active = a.active /\ b.ptr = a.ptr
      /\ b.intent = a.intent /\ b.receipt = a.receipt
  BY <1>1 DEF Images, InstallStates, TerminalStates
<1> HIDE DEF b
<1>5. b \in S
  BY <1>2, <1>4, PlainNodes DEF Ready
<1> HIDE DEF S
<1>6. Plan(<<Discard(v)>>, Edges(t), S, a, a)
  BY <1>1, <1>3, SlotStep DEF Discard
<1>7. Plan(If(c, <<Discard(v)>>), Edges(t), S, a, a)
  BY <1>3, <1>6, PlanIf
<1>8. Plan(<<JournalTo(t, "failed")>>, Edges(t), S, a, b)
  BY <1>1, <1>3, <1>4, <1>5, FollowsIs, JournalStep DEF InstallStates, TerminalStates
<1>9. Plan(If(c, <<Discard(v)>>) \o <<JournalTo(t, "failed")>>, Edges(t), S, a, b)
  BY <1>7, <1>8, PlanConcat
<1> QED BY <1>2, <1>9, PlansLatest DEF S, a

\* activate, up to the switch (Activate).
LEMMA DrainPlan ==
    ASSUME FilesOK, active # NoFile, active.txn = Latest,
           journal[Latest] \in {"awaiting_user", "draining", "activating"}
    PROVE  LET t == Latest
               reversible == journal[t] # "activating"
               drain == If(journal[t] = "awaiting_user", <<JournalTo(t, "draining")>>)
           IN  /\ reversible => Plans(drain \o <<Discard(active.slot), JournalTo(t, "failed")>>,
                                      "open", "open")
               /\ Plans(If(reversible,
                           drain \o If(active.prior = NoFile,
                                       <<Put("active", [active EXCEPT !.prior = ptr])>>)
                           \o <<JournalTo(t, "activating")>>), "switch", "open")
<1> DEFINE t == Latest
           a == Image(t)
           S == Nodes(t, "open")
           reversible == journal[t] # "activating"
           drain == If(journal[t] = "awaiting_user", <<JournalTo(t, "draining")>>)
           x == IF active.prior = NoFile THEN [active EXCEPT !.prior = ptr] ELSE active
           a1 == [st |-> "draining", active |-> a.active, ptr |-> a.ptr, intent |-> a.intent,
                  receipt |-> a.receipt]
           a2 == [st |-> "draining", active |-> x, ptr |-> a.ptr, intent |-> a.intent,
                  receipt |-> a.receipt]
           a3 == [st |-> "activating", active |-> x, ptr |-> a.ptr, intent |-> a.intent,
                  receipt |-> a.receipt]
           b == [st |-> "failed", active |-> a.active, ptr |-> a.ptr, intent |-> a.intent,
                 receipt |-> a.receipt]
<1>1. /\ t \in Txns /\ a \in Images /\ Ready(t, a) /\ a.st = journal[t] /\ a.active = active
      /\ a.st \in {"awaiting_user", "draining", "activating"}
      /\ active \in Actives /\ ptr \in Pointers
  BY FilesAre DEF FilesOK
<1>2. Plain("open") /\ \A y : AtPC("open", t, y)
  BY DEF Plain, AtPC
<1>3. a \in S /\ S \subseteq Images
  BY <1>1, <1>2, PlainNodes, NodesAre
<1>4. /\ x \in Actives /\ x.txn = t /\ x.prior # NoFile /\ x # NoFile
      /\ (active.prior # NoFile => x = active)
      /\ (active.prior = NoFile => x = [active EXCEPT !.prior = ptr])
      /\ active.slot \in Versions
  BY <1>1, NoFileIs DEF Actives, ActiveFiles, Pointers
<1> HIDE DEF a, x
<1>5. /\ a1 \in Images /\ a1.st = "draining" /\ a1.active = a.active /\ a1.ptr = a.ptr
      /\ a1.intent = a.intent /\ a1.receipt = a.receipt
      /\ a2 \in Images /\ a2.st = "draining" /\ a2.active = x /\ a2.ptr = a.ptr
      /\ a2.intent = a.intent /\ a2.receipt = a.receipt
      /\ a3 \in Images /\ a3.st = "activating" /\ a3.active = x /\ a3.ptr = a.ptr
      /\ a3.intent = a.intent /\ a3.receipt = a.receipt
      /\ b \in Images /\ b.st = "failed" /\ b.active = a.active /\ b.ptr = a.ptr
      /\ b.intent = a.intent /\ b.receipt = a.receipt
      /\ (a.st = "draining" => a = a1) /\ (active.prior # NoFile => a1 = a2)
  BY <1>1, <1>4 DEF Images, InstallStates, TerminalStates
<1> HIDE DEF a1, a2, a3, b
<1>6. Ready(t, a1) /\ Ready(t, a2) /\ Ready(t, a3) /\ Ready(t, b)
  BY <1>4, <1>5 DEF Ready
<1>7. a1 \in S /\ a2 \in S /\ a3 \in S /\ b \in S
  BY <1>2, <1>5, <1>6, PlainNodes
<1> HIDE DEF S
<1>8. ASSUME reversible PROVE Plan(drain, Edges(t), S, a, a1)
  <2>1. a.st = "awaiting_user" => Plan(<<JournalTo(t, "draining")>>, Edges(t), S, a, a1)
    BY <1>1, <1>3, <1>5, <1>7, FollowsIs, JournalStep DEF InstallStates
  <2>2. a.st # "awaiting_user" => a = a1
    BY <1>1, <1>5, <1>8
  <2> QED BY <1>1, <1>3, <2>1, <2>2, PlanIf
<1>9. ASSUME reversible
      PROVE  Plans(drain \o <<Discard(active.slot), JournalTo(t, "failed")>>, "open", "open")
  <2>1. Plan(<<Discard(active.slot)>>, Edges(t), S, a1, a1)
    BY <1>3, <1>4, <1>5, <1>7, SlotStep DEF Discard
  <2>2. Plan(<<JournalTo(t, "failed")>>, Edges(t), S, a1, b)
    BY <1>1, <1>3, <1>5, <1>7, FollowsIs, JournalStep DEF InstallStates, TerminalStates
  <2>3. Plan(<<Discard(active.slot), JournalTo(t, "failed")>>, Edges(t), S, a1, b)
    BY <2>1, <2>2, PlanTwo
  <2>4. Plan(drain, Edges(t), S, a, a1)
    BY <1>8, <1>9
  <2> HIDE DEF drain
  <2>5. Plan(drain \o <<Discard(active.slot), JournalTo(t, "failed")>>, Edges(t), S, a, b)
    BY <2>3, <2>4, PlanConcat
  <2> QED BY <1>2, <2>5, PlansLatest DEF S, a
<1>10. AtPC("switch", t, a3)
  BY <1>4, <1>5 DEF AtPC
<1>11. Plans(If(reversible,
                drain \o If(active.prior = NoFile,
                            <<Put("active", [active EXCEPT !.prior = ptr])>>)
                \o <<JournalTo(t, "activating")>>), "switch", "open")
  <2> DEFINE noted == If(active.prior = NoFile,
                         <<Put("active", [active EXCEPT !.prior = ptr])>>)
  <2>1. CASE reversible
    <3>1. Plan(drain, Edges(t), S, a, a1)
      BY <1>8, <2>1
    <3>2. Plan(<<Put("active", a2.active)>>, Edges(t), S, a1, a2)
      BY <1>3, <1>5, <1>7, ActiveStep
    <3>3. Plan(noted, Edges(t), S, a1, a2)
      BY <1>4, <1>5, <1>7, <3>2, PlanIf
    <3>4. Plan(<<JournalTo(t, "activating")>>, Edges(t), S, a2, a3)
      BY <1>1, <1>3, <1>5, <1>7, FollowsIs, JournalStep DEF InstallStates
    <3> HIDE DEF drain, noted
    <3>5. Plan(drain \o noted \o <<JournalTo(t, "activating")>>, Edges(t), S, a, a3)
      BY <3>1, <3>3, <3>4, PlanConcat
    <3>6. Plans(drain \o noted \o <<JournalTo(t, "activating")>>, "switch", "open")
      BY <1>10, <3>5, PlansLatest DEF S, a
    <3> QED BY <2>1, <3>6 DEF If, noted
  <2>2. CASE ~reversible
    <3>1. Plan(<<>>, Edges(t), S, a, a)
      BY <1>3, PlanNil
    <3>2. AtPC("switch", t, a)
      BY <1>1, <2>2 DEF AtPC
    <3>3. Plans(<<>>, "switch", "open")
      BY <3>1, <3>2, PlansLatest DEF S, a
    <3> QED BY <2>2, <3>3 DEF If
  <2> QED BY <2>1, <2>2
<1> QED BY <1>9, <1>11

\* The handler of the handler (Converge).
LEMMA ConvergePlan ==
    ASSUME FilesOK, AtPC("converge", Latest, Image(Latest))
    PROVE  LET gone == active = NoFile
               undo == ~gone /\ ptr.current = active.slot /\ active.slot \notin Good(ptr)
           IN  Plans(If(undo, <<Point(active.prior)>>)
                     \o If(journal[Latest] \notin TerminalStates,
                           <<JournalTo(Latest, "failed")>>), "open", "open")
<1> DEFINE t == Latest
           a == Image(t)
           S == Nodes(t, "open")
           undo == active # NoFile /\ ptr.current = active.slot /\ active.slot \notin Good(ptr)
           p == IF undo THEN active.prior ELSE a.ptr
           open == journal[t] \notin TerminalStates
           a1 == [st |-> a.st, active |-> a.active, ptr |-> p, intent |-> a.intent,
                  receipt |-> a.receipt]
           b == [st |-> IF open THEN "failed" ELSE a.st, active |-> a.active, ptr |-> p,
                 intent |-> a.intent, receipt |-> a.receipt]
<1>1. /\ t \in Txns /\ a \in Images /\ Ready(t, a) /\ a.st = journal[t] /\ a.active = active
      /\ a.st \in InstallStates /\ a.st # "none" /\ a.ptr \in Pointers
      /\ active \in Actives \cup {NoFile}
  BY FilesAre DEF FilesOK
<1>2. Plain("open") /\ \A y : AtPC("open", t, y)
  BY DEF Plain, AtPC
<1>3. a \in S /\ S \subseteq Images
  BY <1>1, <1>2, PlainNodes, NodesAre
<1>4. p \in Pointers /\ (undo => p = active.prior) /\ (~undo => p = a.ptr)
      /\ undo \in BOOLEAN /\ open \in BOOLEAN
  BY <1>1 DEF AtPC, Actives
<1>5. open => Follows(a.st, "failed")
  BY <1>1, FollowsIs DEF InstallStates, TerminalStates, PreparationStates, Preparation
<1> HIDE DEF a, p, undo, open
<1>6. /\ a1 \in Images /\ a1.st = a.st /\ a1.active = a.active /\ a1.ptr = p
      /\ a1.intent = a.intent /\ a1.receipt = a.receipt
      /\ b \in Images /\ b.active = a.active /\ b.ptr = p
      /\ b.intent = a.intent /\ b.receipt = a.receipt
      /\ (open => b.st = "failed") /\ (~open => a1 = b) /\ (~undo => a = a1)
  BY <1>1, <1>4 DEF Images, InstallStates, TerminalStates
<1> HIDE DEF a1, b
<1>7. Ready(t, a1) /\ Ready(t, b)
  BY <1>1, <1>4, <1>6 DEF Ready
<1>8. a1 \in S /\ b \in S
  BY <1>2, <1>6, <1>7, PlainNodes
<1> HIDE DEF S
<1>9. Plan(If(undo, <<Point(active.prior)>>), Edges(t), S, a, a1)
  <2>1. Plan(<<Point(a1.ptr)>>, Edges(t), S, a, a1)
    BY <1>1, <1>3, <1>6, <1>8, PtrStep
  <2> QED BY <1>3, <1>4, <1>6, <2>1, PlanIf
<1>10. Plan(If(open, <<JournalTo(t, "failed")>>), Edges(t), S, a1, b)
  <2>1. open => Plan(<<JournalTo(t, "failed")>>, Edges(t), S, a1, b)
    BY <1>1, <1>3, <1>5, <1>6, <1>8, JournalStep DEF InstallStates, TerminalStates
  <2> QED BY <1>4, <1>6, <1>8, <2>1, PlanIf
<1>11. Plan(If(undo, <<Point(active.prior)>>) \o If(open, <<JournalTo(t, "failed")>>), Edges(t), S, a, b)
  BY <1>9, <1>10, PlanConcat
<1>12. Plans(If(undo, <<Point(active.prior)>>) \o If(open, <<JournalTo(t, "failed")>>),
             "open", "open")
  BY <1>2, <1>11, PlansLatest DEF S, a
<1> QED BY <1>12 DEF undo, open

-----------------------------------------------------------------------------
(* Preparations: runs of journal writes *)

\* The states a preparation goes through, and those it ends in.
Early == PreparationStates \cup {"awaiting_user", "failed"}

Chains(from, ss) == \A k \in 1..Len(ss) : Follows(IF k = 1 THEN from ELSE ss[k - 1], ss[k])
Reached(from, ss) == IF Len(ss) = 0 THEN from ELSE ss[Len(ss)]

\* Two chains of journal states, one after the other.
LEMMA ChainsConcat ==
    ASSUME NEW from, NEW W, NEW u \in Seq(W), NEW v \in Seq(W),
           Chains(from, u), Chains(Reached(from, u), v)
    PROVE  Chains(from, u \o v) /\ Reached(from, u \o v) = Reached(Reached(from, u), v)
<1> DEFINE w == u \o v
<1>1. /\ Len(u) \in Nat /\ Len(v) \in Nat /\ Len(w) = Len(u) + Len(v)
      /\ \A k \in 1..Len(u) : w[k] = u[k]
      /\ \A k \in 1..Len(v) : w[Len(u) + k] = v[k]
  <2>1. Len(u) \in Nat /\ Len(v) \in Nat /\ Len(w) = Len(u) + Len(v)
    BY ConcatProperties
  <2>2. \A k \in 1..Len(u) : w[k] = u[k]
    BY <2>1, ConcatProperties
  <2>3. \A k \in 1..Len(v) : w[Len(u) + k] = v[k]
    BY <2>1, ConcatProperties
  <2> QED BY <2>1, <2>2, <2>3
<1> HIDE DEF w
<1>2. ASSUME NEW k \in 1..Len(w) PROVE Follows(IF k = 1 THEN from ELSE w[k - 1], w[k])
  <2>1. CASE k <= Len(u)
    <3>1. k \in 1..Len(u) /\ (k # 1 => k - 1 \in 1..Len(u))
      BY <1>1, <2>1
    <3>2. Follows(IF k = 1 THEN from ELSE u[k - 1], u[k])
      BY <3>1 DEF Chains
    <3> QED BY <1>1, <3>1, <3>2
  <2>2. CASE k = Len(u) + 1
    <3>1. 1 \in 1..Len(v) /\ w[k] = v[1]
      BY <1>1, <2>2
    <3>2. Follows(Reached(from, u), v[1])
      BY <3>1 DEF Chains
    <3>3. (IF k = 1 THEN from ELSE w[k - 1]) = Reached(from, u)
      <4>1. CASE Len(u) = 0
        BY <2>2, <4>1 DEF Reached
      <4>2. CASE Len(u) # 0
        <5>1. Len(u) \in 1..Len(u) /\ k # 1 /\ k - 1 = Len(u)
          BY <1>1, <2>2, <4>2
        <5> QED BY <1>1, <4>2, <5>1 DEF Reached
      <4> QED BY <4>1, <4>2
    <3> QED BY <3>1, <3>2, <3>3
  <2>3. CASE k > Len(u) + 1
    <3> DEFINE j == k - Len(u)
    <3>1. j \in 1..Len(v) /\ j - 1 \in 1..Len(v) /\ j # 1 /\ k # 1
          /\ k = Len(u) + j /\ k - 1 = Len(u) + (j - 1)
      BY <1>1, <2>3
    <3> HIDE DEF j
    <3>2. w[k] = v[j] /\ w[k - 1] = v[j - 1]
      BY <1>1, <3>1
    <3>3. Follows(IF j = 1 THEN Reached(from, u) ELSE v[j - 1], v[j])
      BY <3>1 DEF Chains
    <3> QED BY <3>1, <3>2, <3>3
  <2> QED BY <1>1, <2>1, <2>2, <2>3
<1>3. Chains(from, w)
  BY <1>2 DEF Chains
<1>4. Reached(from, w) = Reached(Reached(from, u), v)
  <2>1. CASE Len(v) = 0
    <3>1. Len(w) = Len(u) /\ (Len(u) # 0 => Len(u) \in 1..Len(u))
      BY <1>1, <2>1
    <3> QED BY <1>1, <2>1, <3>1 DEF Reached
  <2>2. CASE Len(v) # 0
    <3>1. Len(v) \in 1..Len(v) /\ Len(w) # 0
      BY <1>1, <2>2
    <3>2. w[Len(w)] = v[Len(v)]
      BY <1>1, <3>1
    <3> QED BY <2>2, <3>1, <3>2 DEF Reached
  <2> QED BY <2>1, <2>2
<1> QED BY <1>3, <1>4 DEF w

\* The preparation states, in their order.
LEMMA PositionIs ==
    /\ Preparation \in Seq(PreparationStates) /\ Len(Preparation) = 4
    /\ PreparationStates = {"resolving", "downloading", "verifying", "staging"}
    /\ Preparation[1] = "resolving" /\ Preparation[2] = "downloading"
    /\ Preparation[3] = "verifying" /\ Preparation[4] = "staging"
    /\ Position("resolving") = 1 /\ Position("downloading") = 2
    /\ Position("verifying") = 3 /\ Position("staging") = 4
<1>1. /\ DOMAIN Preparation = 1..4 /\ Len(Preparation) = 4
      /\ Preparation[1] = "resolving" /\ Preparation[2] = "downloading"
      /\ Preparation[3] = "verifying" /\ Preparation[4] = "staging"
  BY DEF Preparation
<1>2. PreparationStates = {"resolving", "downloading", "verifying", "staging"}
  BY <1>1 DEF PreparationStates
<1>3. Preparation \in Seq(PreparationStates)
  BY <1>2 DEF Preparation
<1>4. \A i \in DOMAIN Preparation : i = 1 \/ i = 2 \/ i = 3 \/ i = 4
  BY <1>1
<1>5. 1 \in DOMAIN Preparation /\ 2 \in DOMAIN Preparation /\ 3 \in DOMAIN Preparation
      /\ 4 \in DOMAIN Preparation
  BY <1>1
<1>6. Position("resolving") = 1
  BY <1>1, <1>4, <1>5 DEF Position
<1>7. Position("downloading") = 2
  BY <1>1, <1>4, <1>5 DEF Position
<1>8. Position("verifying") = 3
  BY <1>1, <1>4, <1>5 DEF Position
<1>9. Position("staging") = 4
  BY <1>1, <1>4, <1>5 DEF Position
<1> QED BY <1>1, <1>2, <1>3, <1>6, <1>7, <1>8, <1>9

\* The preparation states between two of them are a chain.
LEMMA BetweenIs ==
    ASSUME NEW from \in PreparationStates, NEW until \in PreparationStates,
           Position(from) <= Position(until)
    PROVE  /\ Between(from, until) \in Seq(Early)
           /\ Chains(from, Between(from, until)) /\ Reached(from, Between(from, until)) = until
<1> DEFINE m == Position(from)
           n == Position(until)
           s == Between(from, until)
           q == Preparation
<1>1. /\ m \in 1..4 /\ n \in 1..4 /\ m <= n /\ q[m] = from /\ q[n] = until
  BY PositionIs
<1>2. s = SubSeq(q, m + 1, n)
  BY DEF Between
<1> HIDE DEF m, n, s
<1>3. /\ s \in Seq(PreparationStates) /\ Len(s) = n - m
      /\ \A k \in 1..(n - m) : s[k] = q[m + k]
  <2>0. q \in Seq(PreparationStates) /\ Len(q) = 4
    BY PositionIs
  <2> HIDE DEF q
  <2>1. \A i \in (m + 1)..n : i \in 1..Len(q)
    BY <1>1, <2>0
  <2>a. m + 1 \in Int /\ n \in Int
    BY <1>1
  <2>b. \A i \in 1..Len(q) : q[i] \in PreparationStates
    BY <2>0
  <2>2. m + 1 \in Int /\ n \in Int /\ \A i \in (m + 1)..n : q[i] \in PreparationStates
    BY <2>a, <2>b, <2>1
  <2>3. s \in Seq(PreparationStates) /\ Len(s) = n - m
    <3>1. SubSeq(q, m + 1, n) \in Seq(PreparationStates)
          /\ Len(SubSeq(q, m + 1, n)) = IF m + 1 <= n THEN n - (m + 1) + 1 ELSE 0
      BY <1>1, <2>0, <2>1, <2>2, SubSeqProperties
    <3> QED BY <1>1, <1>2, <3>1
  <2>4. \A k \in 1..(n - m) : s[k] = q[m + 1 + k - 1] /\ m + 1 + k - 1 = m + k
    BY <1>1, <1>2, <2>0, <2>1, SubSeqProperties
  <2> QED BY <2>3, <2>4
<1>4. \A k \in 1..3 : Follows(q[k], q[k + 1])
  <2>1. \A k \in 1..3 : k = 1 \/ k = 2 \/ k = 3
    OBVIOUS
  <2>2. 1 + 1 = 2 /\ 2 + 1 = 3 /\ 3 + 1 = 4
    OBVIOUS
  <2>3. Follows(q[1], q[2]) /\ Follows(q[2], q[3]) /\ Follows(q[3], q[4])
    BY PositionIs, FollowsIs
  <2> QED BY <2>1, <2>2, <2>3
<1>5. ASSUME NEW k \in 1..Len(s) PROVE Follows(IF k = 1 THEN from ELSE s[k - 1], s[k])
  <2>1. k \in 1..(n - m) /\ m + k - 1 \in 1..3 /\ m + k - 1 + 1 = m + k
        /\ (k # 1 => k - 1 \in 1..(n - m) /\ m + (k - 1) = m + k - 1)
        /\ (k = 1 => m + k - 1 = m)
    BY <1>1, <1>3
  <2>2. s[k] = q[m + k] /\ (k # 1 => s[k - 1] = q[m + k - 1])
    BY <1>3, <2>1
  <2>3. Follows(q[m + k - 1], q[m + k])
    BY <1>4, <2>1
  <2> QED BY <1>1, <2>1, <2>2, <2>3
<1>6. Reached(from, s) = until
  <2>1. CASE n = m
    BY <1>1, <1>3, <2>1 DEF Reached
  <2>2. CASE n # m
    <3>1. n - m \in 1..(n - m) /\ m + (n - m) = n
      BY <1>1, <2>2
    <3> QED BY <1>1, <1>3, <3>1 DEF Reached
  <2> QED BY <2>1, <2>2
<1>7. s \in Seq(Early)
  BY <1>3 DEF Early
<1> QED BY <1>5, <1>6, <1>7 DEF Chains, s

\* An image with another state of its transaction.
With(a, s) == [a EXCEPT !.st = s]

\* Its fields.
LEMMA WithIs ==
    ASSUME NEW a \in Images, NEW s \in InstallStates \cup {"none"}
    PROVE  /\ With(a, s) \in Images /\ With(a, s).st = s /\ With(a, s).active = a.active
           /\ With(a, s).ptr = a.ptr /\ With(a, s).intent = a.intent
           /\ With(a, s).receipt = a.receipt /\ With(a, a.st) = a
BY DEF Images, With

\* What the writes of a preparation rely on, whatever is asked of the images between them.
Prepares(E, S, t, v, a) ==
    /\ \A s \in Early : With(a, s) \in S
    /\ \A q, s \in Early : Follows(q, s) => <<JournalTo(t, s), With(a, q), With(a, s)>> \in E
    /\ \A w \in {Stage(v), TryDiscard(v)} : <<w, With(a, "staging"), With(a, "staging")>> \in E

\* The states of a preparation.
LEMMA EarlyIs ==
    /\ Early = {"resolving", "downloading", "verifying", "staging", "awaiting_user", "failed"}
    /\ Early \subseteq InstallStates /\ PreparationStates \subseteq Early
<1>1. Early = {"resolving", "downloading", "verifying", "staging", "awaiting_user", "failed"}
  BY PositionIs DEF Early
<1> QED BY <1>1 DEF Early, InstallStates, TerminalStates

\* Journal writes one after the other.
LEMMA JournaledPlan ==
    ASSUME NEW E, NEW S, NEW t \in Txns, NEW v, NEW a \in Images, a.st \in Early,
           Prepares(E, S, t, v, a), NEW ss \in Seq(Early), Chains(a.st, ss)
    PROVE  /\ Plan(Journaled(t, ss), E, S, a, With(a, Reached(a.st, ss)))
           /\ Reached(a.st, ss) \in Early
<1> DEFINE n == Len(ss)
           at(k) == IF k = 0 THEN a.st ELSE ss[k]
           h == [k \in 0..n |-> With(a, at(k))]
           ws == Journaled(t, ss)
<1>1. n \in Nat /\ \A k \in 1..n : ss[k] \in Early
  OBVIOUS
<1>2. \A k \in 0..n : at(k) \in Early
  BY <1>1
<1>3. h \in [0..n -> S]
  BY <1>2 DEF Prepares
<1>4. h[0] = a
  BY <1>1, WithIs, EarlyIs
<1>5. Reached(a.st, ss) = at(n)
  BY <1>1 DEF Reached
<1>6. /\ ws \in Seq(Writes) /\ Len(ws) = n
      /\ \A k \in 1..n : ws[k] = JournalTo(t, ss[k])
  <2>1. \A k \in 1..n : JournalTo(t, ss[k]) \in Writes
    BY <1>1, EarlyIs DEF JournalTo, Put, Writes
  <2>2. DOMAIN ss = 1..n
    OBVIOUS
  <2> QED BY <1>1, <2>1, <2>2 DEF Journaled
<1>7. ASSUME NEW k \in 1..n PROVE <<ws[k], h[k - 1], h[k]>> \in E
  <2>1. k - 1 \in 0..n /\ k \in 0..n /\ k # 0
    BY <1>1
  <2>2. Follows(at(k - 1), at(k))
    <3>1. at(k - 1) = (IF k = 1 THEN a.st ELSE ss[k - 1]) /\ at(k) = ss[k]
      BY <1>1
    <3> QED BY <3>1 DEF Chains
  <2>3. at(k - 1) \in Early /\ at(k) \in Early
    BY <1>2, <2>1
  <2>4. ws[k] = JournalTo(t, at(k)) /\ h[k - 1] = With(a, at(k - 1)) /\ h[k] = With(a, at(k))
    BY <1>6, <2>1
  <2> HIDE DEF at, h, ws
  <2> QED BY <2>2, <2>3, <2>4 DEF Prepares
<1>8. h[n] = With(a, Reached(a.st, ss)) /\ n \in 0..n
  BY <1>1, <1>5
<1>9. Reached(a.st, ss) \in Early
  BY <1>2, <1>5, <1>8
<1> HIDE DEF at, h, n, ws
<1>10. Leads(ws, E, S, a, With(a, Reached(a.st, ss)))
  BY <1>3, <1>4, <1>6, <1>7, <1>8 DEF Leads
<1> QED BY <1>6, <1>9, <1>10 DEF Plan, ws

\* _prepare_locked, from a journaled state on.
LEMMA PreparePlan ==
    ASSUME NEW E, NEW S, NEW t \in Txns, NEW v \in Versions, NEW a \in Images,
           a.st \in PreparationStates, Prepares(E, S, t, v, a),
           NEW outcome \in Outcomes, Possible(a.st, outcome)
    PROVE  \E s \in Early : Plan(PrepareWrites(t, v, a.st, outcome), E, S, a, With(a, s))
<1> DEFINE from == a.st
           staged == <<Stage(v), JournalTo(t, "awaiting_user")>>
<1>0. from \in Early
  BY EarlyIs
<1>1. ASSUME NEW q \in Early, NEW s \in Early, Follows(q, s)
      PROVE  Plan(<<JournalTo(t, s)>>, E, S, With(a, q), With(a, s))
  <2>1. JournalTo(t, s) \in Writes
    BY EarlyIs DEF JournalTo, Put, Writes
  <2>2. /\ With(a, q) \in S /\ With(a, s) \in S
        /\ <<JournalTo(t, s), With(a, q), With(a, s)>> \in E
    BY <1>1 DEF Prepares
  <2> QED BY <2>1, <2>2, PlanOne
<1>2. ASSUME NEW w \in {Stage(v), TryDiscard(v)}
      PROVE  Plan(<<w>>, E, S, With(a, "staging"), With(a, "staging"))
  <2>1. w \in Writes
    BY DEF Stage, TryDiscard, Put, Writes
  <2>2. /\ With(a, "staging") \in S
        /\ <<w, With(a, "staging"), With(a, "staging")>> \in E
    BY EarlyIs DEF Prepares
  <2> QED BY <2>1, <2>2, PlanOne
<1>3. Plan(staged, E, S, With(a, "staging"), With(a, "awaiting_user"))
  BY <1>1, <1>2, EarlyIs, FollowsIs, PlanTwo
<1>4. CASE outcome = "ready"
  <2> DEFINE ss == Between(from, "staging")
  <2>1. ss \in Seq(Early) /\ Chains(from, ss) /\ Reached(from, ss) = "staging"
    BY BetweenIs, PositionIs
  <2> HIDE DEF ss
  <2>2. Plan(Journaled(t, ss), E, S, a, With(a, "staging"))
    BY <1>0, <2>1, JournaledPlan
  <2> HIDE DEF staged
  <2>3. Plan(Journaled(t, ss) \o staged, E, S, a, With(a, "awaiting_user"))
    BY <1>3, <2>2, PlanConcat
  <2>4. PrepareWrites(t, v, from, outcome) = Journaled(t, ss) \o staged
    BY <1>4 DEF PrepareWrites, ss, staged
  <2> QED BY <2>3, <2>4, EarlyIs
<1>5. CASE outcome = "mirror_rejected"
  <2> DEFINE s1 == Between(from, "verifying")
             s2 == <<"downloading", "verifying", "staging">>
             ss == s1 \o s2
  <2>1. s1 \in Seq(Early) /\ Chains(from, s1) /\ Reached(from, s1) = "verifying"
    BY <1>5, BetweenIs, PositionIs DEF Possible
  <2>2. s2 \in Seq(Early) /\ Chains("verifying", s2) /\ Reached("verifying", s2) = "staging"
    <3>1. s2 \in Seq(Early) /\ Len(s2) = 3 /\ s2[1] = "downloading" /\ s2[2] = "verifying"
          /\ s2[3] = "staging"
      BY EarlyIs
    <3> HIDE DEF s2
    <3>2. ASSUME NEW k \in 1..3
          PROVE  Follows(IF k = 1 THEN "verifying" ELSE s2[k - 1], s2[k])
      <4>1. k = 1 \/ (k = 2 /\ k - 1 = 1) \/ (k = 3 /\ k - 1 = 2)
        OBVIOUS
      <4> QED BY <3>1, <4>1, FollowsIs
    <3> QED BY <3>1, <3>2 DEF Chains, Reached
  <2> HIDE DEF s1, s2
  <2>3. ss \in Seq(Early) /\ Chains(from, ss) /\ Reached(from, ss) = "staging"
    <3>1. ss \in Seq(Early)
      BY <2>1, <2>2
    <3> QED BY <2>1, <2>2, <3>1, ChainsConcat
  <2> HIDE DEF ss
  <2>4. Plan(Journaled(t, ss), E, S, a, With(a, "staging"))
    BY <1>0, <2>3, JournaledPlan
  <2> HIDE DEF staged
  <2>5. Plan(Journaled(t, ss) \o staged, E, S, a, With(a, "awaiting_user"))
    BY <1>3, <2>4, PlanConcat
  <2>6. PrepareWrites(t, v, from, outcome) = Journaled(t, ss) \o staged
    BY <1>5 DEF PrepareWrites, ss, s1, s2, staged
  <2> QED BY <2>5, <2>6, EarlyIs
<1>6. CASE outcome = "exhausted"
  <2> DEFINE s1 == IF from = "verifying" THEN <<"downloading">> ELSE Between(from, "downloading")
             s2 == <<"failed">>
             ss == s1 \o s2
  <2>1. s1 \in Seq(Early) /\ Chains(from, s1) /\ Reached(from, s1) = "downloading"
    <3>1. CASE from = "verifying"
      <4>1. s1 \in Seq(Early) /\ Len(s1) = 1 /\ s1[1] = "downloading"
        BY <3>1, EarlyIs
      <4> HIDE DEF s1
      <4>2. \A k \in 1..1 : Follows(IF k = 1 THEN "verifying" ELSE s1[k - 1], s1[k])
        BY <4>1, FollowsIs
      <4> QED BY <3>1, <4>1, <4>2 DEF Chains, Reached
    <3>2. CASE from # "verifying"
      BY <1>6, <3>2, BetweenIs, PositionIs DEF Possible
    <3> QED BY <3>1, <3>2
  <2>2. s2 \in Seq(Early) /\ Chains("downloading", s2)
    <3>1. s2 \in Seq(Early) /\ Len(s2) = 1 /\ s2[1] = "failed"
      BY EarlyIs
    <3> HIDE DEF s2
    <3>2. \A k \in 1..1 : Follows(IF k = 1 THEN "downloading" ELSE s2[k - 1], s2[k])
      BY <3>1, FollowsIs
    <3> QED BY <3>1, <3>2 DEF Chains
  <2> HIDE DEF s1, s2
  <2>3. ss \in Seq(Early) /\ Chains(from, ss)
    <3>1. ss \in Seq(Early)
      BY <2>1, <2>2
    <3> QED BY <2>1, <2>2, <3>1, ChainsConcat
  <2> HIDE DEF ss
  <2>4. Plan(Journaled(t, ss), E, S, a, With(a, Reached(from, ss)))
        /\ Reached(from, ss) \in Early
    BY <1>0, <2>3, JournaledPlan
  <2>5. PrepareWrites(t, v, from, outcome) = Journaled(t, ss)
    BY <1>6 DEF PrepareWrites, ss, s1, s2
  <2> QED BY <2>4, <2>5
<1>7. CASE outcome = "unstaged"
  <2> DEFINE ss == Between(from, "staging")
             end == <<TryDiscard(v), JournalTo(t, "failed")>>
  <2>1. ss \in Seq(Early) /\ Chains(from, ss) /\ Reached(from, ss) = "staging"
    BY BetweenIs, PositionIs
  <2> HIDE DEF ss
  <2>2. Plan(Journaled(t, ss), E, S, a, With(a, "staging"))
    BY <1>0, <2>1, JournaledPlan
  <2>3. Plan(end, E, S, With(a, "staging"), With(a, "failed"))
    BY <1>1, <1>2, EarlyIs, FollowsIs, PlanTwo
  <2> HIDE DEF end
  <2>4. Plan(Journaled(t, ss) \o end, E, S, a, With(a, "failed"))
    BY <2>2, <2>3, PlanConcat
  <2>5. PrepareWrites(t, v, from, outcome) = Journaled(t, ss) \o end
    BY <1>7 DEF PrepareWrites, ss, end
  <2> QED BY <2>4, <2>5, EarlyIs
<1>8. CASE outcome = "last_rejected"
  <2> DEFINE s1 == Between(from, "verifying")
             s2 == <<"failed">>
             ss == s1 \o s2
  <2>1. s1 \in Seq(Early) /\ Chains(from, s1) /\ Reached(from, s1) = "verifying"
    BY <1>8, BetweenIs, PositionIs DEF Possible
  <2>2. s2 \in Seq(Early) /\ Chains("verifying", s2)
    <3>1. s2 \in Seq(Early) /\ Len(s2) = 1 /\ s2[1] = "failed"
      BY EarlyIs
    <3> HIDE DEF s2
    <3>2. \A k \in 1..1 : Follows(IF k = 1 THEN "verifying" ELSE s2[k - 1], s2[k])
      BY <3>1, FollowsIs
    <3> QED BY <3>1, <3>2 DEF Chains
  <2> HIDE DEF s1, s2
  <2>3. ss \in Seq(Early) /\ Chains(from, ss)
    <3>1. ss \in Seq(Early)
      BY <2>1, <2>2
    <3> QED BY <2>1, <2>2, <3>1, ChainsConcat
  <2> HIDE DEF ss
  <2>4. Plan(Journaled(t, ss), E, S, a, With(a, Reached(from, ss)))
        /\ Reached(from, ss) \in Early
    BY <1>0, <2>3, JournaledPlan
  <2>5. PrepareWrites(t, v, from, outcome) = Journaled(t, ss)
    BY <1>8 DEF PrepareWrites, ss, s1, s2
  <2> QED BY <2>4, <2>5
<1> QED BY <1>4, <1>5, <1>6, <1>7, <1>8 DEF Outcomes

\* An image in preparation has what a preparation relies on.
LEMMA PreparesHere ==
    ASSUME NEW t \in Txns, NEW v \in Versions, NEW err, Plain(err), NEW a \in Nodes(t, err)
    PROVE  Prepares(Edges(t), Nodes(t, err), t, v, a)
<1>1. a \in Images
  BY NodesAre
<1>2. ASSUME NEW s \in Early PROVE With(a, s) \in Nodes(t, err)
  <2>1. With(a, s) \in Images /\ With(a, s).st = s
    BY <1>1, WithIs, EarlyIs
  <2>2. s \notin {"activating", "healthchecking"}
    BY EarlyIs
  <2> QED BY <2>1, <2>2, PlainNodes DEF Ready
<1>3. ASSUME NEW q \in Early, NEW s \in Early, Follows(q, s)
      PROVE  <<JournalTo(t, s), With(a, q), With(a, s)>> \in Edges(t)
  <2> DEFINE w == JournalTo(t, s)
             b == With(a, q)
             c == With(a, s)
  <2>1. w \in Writes /\ w.file = "journal" /\ w.content.txn = t /\ w.content.state = s
    BY EarlyIs DEF JournalTo, Put, Writes
  <2>2. /\ b \in Images /\ b.st = q /\ b.active = a.active /\ b.ptr = a.ptr
        /\ b.intent = a.intent /\ b.receipt = a.receipt
        /\ c \in Images /\ c.st = s /\ c.active = a.active /\ c.ptr = a.ptr
        /\ c.intent = a.intent /\ c.receipt = a.receipt /\ q # "none"
    BY <1>1, WithIs, EarlyIs
  <2> HIDE DEF w, b, c
  <2>3. c = [st |-> s, active |-> b.active, ptr |-> b.ptr, intent |-> b.intent,
             receipt |-> b.receipt]
    BY <2>2 DEF Images
  <2>4. Edge(w, t, b, c)
    BY <1>3, <2>1, <2>2, <2>3 DEF Edge, Made
  <2> QED BY <2>1, <2>2, <2>4, EdgesAre DEF w, b, c
<1>4. ASSUME NEW w \in {Stage(v), TryDiscard(v)}
      PROVE  <<w, With(a, "staging"), With(a, "staging")>> \in Edges(t)
  <2> DEFINE b == With(a, "staging")
  <2>1. w \in Writes /\ w.file \in {"stage", "try_discard"}
    BY DEF Stage, TryDiscard, Put, Writes
  <2>2. b \in Images /\ b.st = "staging"
    BY <1>1, WithIs, EarlyIs
  <2> HIDE DEF b
  <2>3. b = [st |-> b.st, active |-> b.active, ptr |-> b.ptr, intent |-> b.intent,
             receipt |-> b.receipt]
    BY <2>2 DEF Images
  <2>4. Edge(w, t, b, b)
    BY <2>1, <2>2, <2>3 DEF Edge, Made
  <2> QED BY <2>1, <2>2, <2>4, EdgesAre DEF b
<1> QED BY <1>2, <1>3, <1>4 DEF Prepares

\* prepare_update begins the next transaction.
LEMMA BeginPlan ==
    ASSUME FilesOK, journal[Latest] \in TerminalStates, Latest < MaxTxn,
           ptr.current \in Versions, NEW v \in Versions, NEW outcome \in Outcomes
    PROVE  Plans(<<Put("active", [txn |-> Latest + 1, slot |-> v, base |-> ptr.current,
                                  prior |-> NoFile]),
                   JournalTo(Latest + 1, "resolving")>>
                 \o PrepareWrites(Latest + 1, v, "resolving", outcome), "open", "drop")
<1> DEFINE t == Latest + 1
           a == Image(t)
           S == Nodes(t, "drop")
           x == [txn |-> Latest + 1, slot |-> v, base |-> ptr.current, prior |-> NoFile]
           a1 == [st |-> "none", active |-> x, ptr |-> a.ptr, intent |-> a.intent,
                  receipt |-> a.receipt]
           a2 == [st |-> "resolving", active |-> x, ptr |-> a.ptr, intent |-> a.intent,
                  receipt |-> a.receipt]
<1>1. /\ t \in Txns /\ Starts(t) /\ journal[t] = "none"
      /\ active \in Actives \cup {NoFile} /\ intent \in Intents \cup {NoFile}
      /\ receipt \in Receipts \cup {NoFile} /\ ptr \in Pointers
  <2>1. Latest \in Txns /\ Latest \in Nat /\ t \in Txns /\ t > Latest
    BY FilesAre, BoundsAssumption DEF Txns
  <2> QED BY <2>1, FilesAre DEF Starts, FilesOK, Last
<1>2. x \in Actives
  BY <1>1 DEF Actives, ActiveFiles
<1>3. /\ a \in Images /\ a.st = "none" /\ a.active = active /\ a.ptr = ptr
      /\ a.intent = intent /\ a.receipt = receipt
  BY <1>1 DEF Image, Images
<1>4. Plain("drop") /\ \A b : AtPC("open", t, b)
  BY DEF Plain, AtPC
<1> HIDE DEF a, x, t
<1>5. /\ a1 \in Images /\ a1.st = "none" /\ a1.active = x /\ a1.ptr = a.ptr
      /\ a1.intent = a.intent /\ a1.receipt = a.receipt
      /\ a2 \in Images /\ a2.st = "resolving" /\ a2.active = x /\ a2.ptr = a.ptr
      /\ a2.intent = a.intent /\ a2.receipt = a.receipt
  BY <1>2, <1>3, PositionIs DEF Images, InstallStates
<1> HIDE DEF a1, a2
<1>6. Ready(t, a) /\ Ready(t, a1) /\ Ready(t, a2)
  BY <1>3, <1>5 DEF Ready
<1>7. a \in S /\ a1 \in S /\ a2 \in S /\ S \subseteq Images
  BY <1>3, <1>4, <1>5, <1>6, PlainNodes, NodesAre
<1>8. PICK b : Plan(PrepareWrites(t, v, "resolving", outcome), Edges(t), S, a2, b)
  <2>1. Possible(a2.st, outcome) /\ a2.st \in PreparationStates
    BY <1>5, PositionIs DEF Possible
  <2>2. Prepares(Edges(t), S, t, v, a2)
    BY <1>1, <1>4, <1>7, PreparesHere
  <2> HIDE DEF S
  <2> QED BY <1>1, <1>5, <2>1, <2>2, PreparePlan
<1> HIDE DEF S
<1>9. Plan(<<Put("active", a1.active)>>, Edges(t), S, a, a1)
  BY <1>3, <1>5, <1>7, ActiveStep
<1>10. Plan(<<JournalTo(t, "resolving")>>, Edges(t), S, a1, a2)
  BY <1>1, <1>5, <1>7, FollowsIs, PositionIs, JournalStep DEF InstallStates
<1>11. Plan(<<Put("active", x), JournalTo(t, "resolving")>>, Edges(t), S, a, a2)
  BY <1>5, <1>9, <1>10, PlanTwo
<1>12. Plan(<<Put("active", x), JournalTo(t, "resolving")>>
            \o PrepareWrites(t, v, "resolving", outcome), Edges(t), S, a, b)
  BY <1>8, <1>11, PlanConcat
<1>13. Plans(<<Put("active", x), JournalTo(t, "resolving")>>
            \o PrepareWrites(t, v, "resolving", outcome), "open", "drop")
  BY <1>1, <1>4, <1>12 DEF Plans, S, a
<1> QED BY <1>13 DEF t, x

\* A transaction that was never journaled is dropped.
LEMMA DropPlan ==
    ASSUME FilesOK, NEW c \in BOOLEAN
    PROVE  Plans(If(c, <<Remove("active")>>), "open", "open")
<1> DEFINE t == Latest
           a == Image(t)
           S == Nodes(t, "open")
           b == [st |-> a.st, active |-> NoFile, ptr |-> a.ptr, intent |-> a.intent,
                 receipt |-> a.receipt]
<1>1. t \in Txns /\ a \in Images /\ Ready(t, a)
  BY FilesAre DEF FilesOK
<1>2. Plain("open") /\ \A y : AtPC("open", t, y)
  BY DEF Plain, AtPC
<1>3. a \in S /\ S \subseteq Images
  BY <1>1, <1>2, PlainNodes, NodesAre
<1> HIDE DEF a
<1>4. /\ b \in Images /\ b.st = a.st /\ b.active = NoFile /\ b.ptr = a.ptr
      /\ b.intent = a.intent /\ b.receipt = a.receipt
  BY <1>1 DEF Images
<1> HIDE DEF b
<1>5. b \in S
  BY <1>2, <1>4, PlainNodes DEF Ready
<1> HIDE DEF S
<1>6. Plan(<<Put("active", b.active)>>, Edges(t), S, a, b)
  BY <1>3, <1>4, <1>5, ActiveStep
<1>7. c => Plan(If(c, <<Remove("active")>>), Edges(t), S, a, b)
  BY <1>4, <1>6 DEF If, Remove
<1>8. ~c => Plan(If(c, <<Remove("active")>>), Edges(t), S, a, a)
  BY <1>3, PlanNil DEF If
<1> QED BY <1>2, <1>7, <1>8, PlansLatest DEF S, a

-----------------------------------------------------------------------------
(* The invariant *)

BootPcs == {"down", "select", "ensure", "launch", "launchFailed", "busy", "watch", "probe",
            "confirm", "unhealthy", "confirmed", "unconfirmed", "reconfirm", "unlaunched",
            "exited"}
RtPcs == {"", "probe", "start", "barrier", "open", "busy", "drop", "switch", "abort",
          "converge"}

Jobs == [by : {"nobody", "boot"} \cup Runtimes, writes : Seq(Writes),
         ok : {"", "ensure", "launch", "confirmed", "unconfirmed", "select", "open", "switch"},
         err : {"", "launchFailed", "reconfirm", "unconfirmed", "unlaunched", "down", "select",
                "open", "drop", "abort", "converge"}]
Boots == [pc : BootPcs, avoid : Versions \cup {None}, exit : ExitCodes \cup {""}]
Rts == [kind : {"none", "probe", "full"}, slot : Versions \cup {None}, pc : RtPcs,
        saw : Receipts \cup {NoFile}]

ProcsOK ==
    /\ job \in Jobs /\ boot \in Boots /\ rt \in [Runtimes -> Rts]
    /\ slots \subseteq Versions /\ mishaps \in 0..MaxMishaps /\ opened \subseteq Txns

\* Who holds the lock, and what its operation may go on with.
BootHolds == {"busy", "ensure", "launch"}
RtHolds == {"busy", "drop", "switch", "abort", "converge"}

LockOK ==
    /\ job.by = "nobody" => job = Idle
    /\ job.by = "boot" <=> boot.pc \in BootHolds
    /\ \A r \in Runtimes : job.by = r <=> rt[r].pc \in RtHolds
    /\ \A r \in Runtimes : rt[r].pc \in RtHolds => rt[r].kind = "full"
    /\ rt["child"].kind = "full" => boot.pc = "watch"
    /\ job.ok = "" => job.writes = <<>>
    /\ boot.pc \in {"ensure", "launch"} => job.ok = ""
    /\ boot.pc = "busy" =>
          /\ job.ok \in {"ensure", "launch", "confirmed", "unconfirmed", "select"}
          /\ job.err \in {"launchFailed", "reconfirm", "unconfirmed", "unlaunched", "down",
                          "select"}
    /\ \A r \in Runtimes :
          /\ rt[r].pc \in RtHolds \ {"busy"} => job.ok = ""
          /\ rt[r].pc = "busy" => /\ job.ok \in {"open", "switch"}
                                  /\ job.err \in {"open", "drop", "abort", "converge"}

\* The writes that an operation has still to make are a plan.
PlanOK == job.ok # "" => Plans(job.writes, job.ok, job.err)

HoldOK == \A r \in Runtimes : AtPC(rt[r].pc, Latest, Image(Latest))

Inv == FilesOK /\ ProcsOK /\ LockOK /\ PlanOK /\ HoldOK

\* Nothing is relied on there.
LEMMA PlainAt == ASSUME NEW pc, Plain(pc), NEW t, NEW a PROVE AtPC(pc, t, a)
BY DEF Plain, AtPC

\* While an operation has writes to make, nobody is between two operations.
LEMMA BusyAlone ==
    ASSUME ProcsOK, LockOK, job.ok # "" PROVE \A r \in Runtimes : Plain(rt[r].pc)
BY DEF ProcsOK, LockOK, RtHolds, Plain

\* What does not change with the files.
LEMMA FilesSame ==
    ASSUME FilesOK, UNCHANGED files
    PROVE  /\ FilesOK' /\ Latest' = Latest /\ (\A t : Image(t)' = Image(t))
           /\ \A t : Starts(t)' <=> Starts(t)
<1>1. journal' = journal /\ active' = active /\ ptr' = ptr /\ intent' = intent
      /\ receipt' = receipt
  BY DEF files
<1>2. Latest' = Latest
  BY <1>1 DEF Latest
<1>3. \A t : Image(t)' = Image(t)
  BY <1>1 DEF Image
<1>4. \A t : Starts(t)' <=> Starts(t)
  BY <1>1, <1>2 DEF Starts
<1>5. FilesOK'
  BY <1>1, <1>2, <1>3 DEF FilesOK, Last, Image
<1> QED BY <1>2, <1>3, <1>4, <1>5

\* A new job with a plan for the files as they are.
LEMMA PlansSame ==
    ASSUME FilesOK, UNCHANGED files, NEW ws, NEW ok, NEW err, Plans(ws, ok, err),
           job'.writes = ws, job'.ok = ok, job'.err = err
    PROVE  PlanOK'
<1>1. PICK t, b : Starts(t) /\ Plan(ws, Edges(t), Nodes(t, err), Image(t), b) /\ AtPC(ok, t, b)
  BY DEF Plans
<1>2. Starts(t)' /\ Image(t)' = Image(t)
  BY <1>1, FilesSame
<1>3. /\ Starts(t)' /\ Plan(job'.writes, Edges(t), Nodes(t, job'.err), Image(t)', b)
      /\ AtPC(job'.ok, t, b)
  BY <1>1, <1>2
<1> QED BY <1>3 DEF PlanOK, Plans

\* The files do not change, and the job neither or it has nothing to write.
LEMMA KeepPlan ==
    ASSUME Inv, UNCHANGED files, ProcsOK', LockOK',
           \/ UNCHANGED job
           \/ job'.ok = ""
           \/ job'.writes = job.writes /\ job'.ok = job.ok /\ job'.err = job.err,
           \A r \in Runtimes : rt'[r].pc = rt[r].pc \/ Plain(rt'[r].pc)
                               \/ \E q \in Runtimes : rt'[r].pc = rt[q].pc
    PROVE  Inv'
<1>1. FilesOK' /\ Latest' = Latest /\ Image(Latest)' = Image(Latest)
  BY FilesSame DEF Inv
<1>2. PlanOK'
  <2>1. CASE job'.ok = ""
    BY <2>1 DEF PlanOK
  <2>2. CASE job'.ok # ""
    <3>1. job'.writes = job.writes /\ job'.ok = job.ok /\ job'.err = job.err
      BY <2>2
    <3>2. Plans(job.writes, job.ok, job.err)
      BY <2>2, <3>1 DEF Inv, PlanOK
    <3> QED BY <3>1, <3>2, PlansSame DEF Inv
  <2> QED BY <2>1, <2>2
<1>3. \A r \in Runtimes : AtPC(rt'[r].pc, Latest, Image(Latest))
  BY PlainAt DEF Inv, HoldOK
<1>4. HoldOK'
  BY <1>1, <1>3 DEF HoldOK
<1> QED BY <1>1, <1>2, <1>4 DEF Inv

\* A Runtime moves to another point.
LEMMA RtMoves ==
    ASSUME NEW f \in [Runtimes -> Rts], NEW r \in Runtimes, NEW pc \in RtPcs, NEW g,
           g = [f EXCEPT ![r].pc = pc]
    PROVE  /\ g \in [Runtimes -> Rts] /\ g[r].pc = pc /\ g[r].kind = f[r].kind
           /\ g[r].slot = f[r].slot /\ g[r].saw = f[r].saw
           /\ \A q \in Runtimes : q # r => g[q] = f[q]
<1>1. f[r] \in Rts /\ [f[r] EXCEPT !.pc = pc] \in Rts
      /\ [f[r] EXCEPT !.pc = pc].pc = pc /\ [f[r] EXCEPT !.pc = pc].kind = f[r].kind
      /\ [f[r] EXCEPT !.pc = pc].slot = f[r].slot /\ [f[r] EXCEPT !.pc = pc].saw = f[r].saw
  BY DEF Rts
<1> DEFINE e == [f[r] EXCEPT !.pc = pc]
<1>2. g = [f EXCEPT ![r] = e]
  OBVIOUS
<1> HIDE DEF e
<1>3. g \in [Runtimes -> Rts] /\ g[r] = e /\ \A q \in Runtimes : q # r => g[q] = f[q]
  BY <1>1, <1>2 DEF e
<1> QED BY <1>1, <1>3 DEF e

\* The free lock.
LEMMA IdleIs ==
    /\ Idle \in Jobs /\ Idle.by = "nobody" /\ Idle.writes = <<>> /\ Idle.ok = ""
    /\ Idle.err = ""
<1>1. <<>> \in Seq(Writes)
  OBVIOUS
<1> QED BY <1>1 DEF Idle, Jobs

\* Bootstrap starts an operation.
LEMMA BootRunsInv ==
    ASSUME Inv, boot.pc \notin {"busy", "watch"}, job = Idle \/ job.by = "boot",
           NEW ws, NEW ok, NEW err, Plans(ws, ok, err),
           ok \in {"ensure", "launch", "confirmed", "unconfirmed", "select"},
           err \in {"launchFailed", "reconfirm", "unconfirmed", "unlaunched", "down", "select"},
           job' = Work("boot", ws, ok, err), boot' \in Boots, boot'.pc = "busy",
           UNCHANGED <<files, rt, mishaps, opened>>
    PROVE  Inv'
<1>1. /\ job'.by = "boot" /\ job'.writes = ws /\ job'.ok = ok /\ job'.err = err
      /\ ws \in Seq(Writes)
  BY DEF Work, Plans, Plan
<1>2. job' \in Jobs
  BY <1>1 DEF Work, Jobs
<1>3. ProcsOK'
  BY <1>2 DEF Inv, ProcsOK, files
<1>4. LockOK'
  <2>1. job.by \in {"nobody", "boot"} /\ "nobody" \notin Runtimes /\ "boot" \notin Runtimes
    BY IdleIs DEF Runtimes
  <2>2. (\A r \in Runtimes : rt[r].pc \notin RtHolds) /\ rt["child"].kind # "full"
    BY <2>1 DEF Inv, LockOK
  <2>3. (\A r \in Runtimes : rt[r].pc # "busy") /\ rt' = rt
    BY <2>2 DEF RtHolds
  <2> QED BY <1>1, <2>1, <2>2, <2>3 DEF LockOK, BootHolds
<1>5. PlanOK'
  BY <1>1, PlansSame DEF Inv
<1>6. HoldOK'
  BY FilesSame DEF Inv, HoldOK
<1>7. FilesOK'
  BY FilesSame DEF Inv
<1> QED BY <1>3, <1>4, <1>5, <1>6, <1>7 DEF Inv

\* Bootstrap goes elsewhere, without the lock.
LEMMA BootGoesInv ==
    ASSUME Inv, job = Idle \/ job.by = "boot", boot.pc # "watch",
           job' = Idle, boot' \in Boots, boot'.pc \notin BootHolds,
           UNCHANGED <<files, rt, mishaps, opened>>
    PROVE  Inv'
<1>1. job'.by = "nobody" /\ job'.writes = <<>> /\ job'.ok = "" /\ job'.err = ""
  BY DEF Idle
<1>2. job' \in Jobs
  BY IdleIs
<1>3. ProcsOK'
  BY <1>2 DEF Inv, ProcsOK, files
<1>4. LockOK'
  BY <1>1 DEF Inv, ProcsOK, LockOK, Idle, BootHolds, Runtimes
<1> QED BY <1>1, <1>3, <1>4, KeepPlan DEF Inv

\* A Runtime starts an operation.
LEMMA RuntimeRunsInv ==
    ASSUME Inv, NEW r \in Runtimes, rt[r].kind = "full",
           \/ job = Idle
           \/ rt[r].pc \in {"drop", "switch", "abort", "converge"},
           NEW ws, NEW ok \in {"open", "switch"},
           NEW err \in {"open", "drop", "abort", "converge"}, Plans(ws, ok, err),
           RuntimeRuns(r, ws, ok, err)
    PROVE  Inv'
<1>1. /\ job'.by = r /\ job'.writes = ws /\ job'.ok = ok /\ job'.err = err
      /\ ws \in Seq(Writes) /\ rt' = [rt EXCEPT ![r].pc = "busy"]
      /\ UNCHANGED <<files, boot, mishaps, opened>>
  BY DEF RuntimeRuns, Work, Plans, Plan
<1>2. job' \in Jobs
  BY <1>1 DEF RuntimeRuns, Work, Jobs
<1>3. /\ rt' \in [Runtimes -> Rts] /\ rt'[r].pc = "busy" /\ rt'[r].kind = "full"
      /\ \A q \in Runtimes : q # r => rt'[q] = rt[q]
  <2>1. rt \in [Runtimes -> Rts] /\ "busy" \in RtPcs
    BY DEF Inv, ProcsOK, RtPcs
  <2> DEFINE g == rt'
  <2>2. g = [rt EXCEPT ![r].pc = "busy"]
    BY <1>1
  <2> HIDE DEF g
  <2>3. /\ g \in [Runtimes -> Rts] /\ g[r].pc = "busy" /\ g[r].kind = rt[r].kind
        /\ \A q \in Runtimes : q # r => g[q] = rt[q]
    BY <2>1, <2>2, RtMoves
  <2> QED BY <2>3 DEF g
<1>4. ProcsOK'
  BY <1>1, <1>2, <1>3 DEF Inv, ProcsOK, files
<1>5. /\ \A q \in Runtimes : q # r => rt[q].pc \notin RtHolds
      /\ boot.pc \notin BootHolds
  <2>1. job.by \in {"nobody", r}
    <3>1. CASE job = Idle
      BY <3>1, IdleIs
    <3>2. CASE rt[r].pc \in {"drop", "switch", "abort", "converge"}
      BY <3>2 DEF Inv, LockOK, RtHolds
    <3> QED BY <3>1, <3>2
  <2>2. r # "boot" /\ "nobody" \notin Runtimes
    BY DEF Runtimes
  <2> QED BY <2>1, <2>2 DEF Inv, LockOK
<1>6. LockOK'
  BY <1>1, <1>3, <1>5 DEF Inv, ProcsOK, LockOK, RtHolds, BootHolds, Runtimes
<1>7. PlanOK'
  BY <1>1, PlansSame DEF Inv
<1>8. FilesOK' /\ Latest' = Latest /\ Image(Latest)' = Image(Latest)
  BY <1>1, FilesSame DEF Inv
<1>9. \A q \in Runtimes : AtPC(rt'[q].pc, Latest, Image(Latest))
  <2>1. AtPC("busy", Latest, Image(Latest))
    BY DEF AtPC
  <2> QED BY <1>3, <2>1 DEF Inv, HoldOK
<1>10. HoldOK'
  BY <1>8, <1>9 DEF HoldOK
<1> QED BY <1>4, <1>6, <1>7, <1>8, <1>10 DEF Inv

-----------------------------------------------------------------------------
(* The steps *)

\* The latest transaction after a step.
LEMMA LatestNext == ASSUME NEW t, Last(t)' PROVE Latest' = t
<1>1. \A u \in Txns : u \in Nat
  BY BoundsAssumption DEF Txns
<1>2. t \in Txns /\ journal'[t] # "none" /\ \A u \in Txns : u > t => journal'[u] = "none"
  BY DEF Last
<1>3. \A u \in Txns : journal'[u] # "none" /\ (\A x \in Txns : x > u => journal'[x] = "none")
        => u = t
  BY <1>1, <1>2
<1> QED BY <1>2, <1>3 DEF Latest

\* The next transaction is not in the journal yet.
LEMMA StartsAre ==
    ASSUME FilesOK, NEW t, Starts(t)
    PROVE  /\ t \in Txns /\ t \in Nat /\ Latest \in Nat /\ t >= Latest
           /\ t # Latest => Image(t).st = "none" /\ journal[Latest] \in TerminalStates
                            /\ t > Latest
<1>1. Latest \in Txns /\ t \in Txns /\ \A u \in Txns : u \in Nat
  BY FilesAre, BoundsAssumption DEF Txns, Starts
<1>2. t # Latest => t = Latest + 1 /\ journal[Latest] \in TerminalStates
  BY DEF Starts
<1>3. t # Latest => journal[t] = "none"
  BY <1>1, <1>2 DEF FilesOK, Last
<1> QED BY <1>1, <1>2, <1>3 DEF Image

\* What a single durable write does to the files: the transaction it works on moves to
\* its next state, and may become the latest.
LEMMA WriteMoves ==
    ASSUME FilesOK, NEW w \in Writes, NEW t, Starts(t), NEW c \in Images,
           Edge(w, t, Image(t), c), Apply(w)
    PROVE  /\ Image(t)' = c /\ Starts(t)' /\ t \in Txns /\ c.st = journal'[t]
           /\ c.active = active' /\ c.ptr = ptr' /\ c.intent = intent' /\ c.receipt = receipt'
           /\ journal' \in [Txns -> InstallStates \cup {"none"}]
           /\ \A u \in Txns : u # t => journal'[u] = journal[u]
           /\ IF w.file = "journal" \/ t = Latest
              THEN Latest' = t /\ Last(t)'
              ELSE /\ Latest' = Latest /\ w.file = "active" /\ journal' = journal
                   /\ journal[Latest] \in TerminalStates
<1> DEFINE a == Image(t)
<1>1. /\ t \in Txns /\ t \in Nat /\ Latest \in Nat /\ t >= Latest
      /\ (t # Latest => a.st = "none" /\ journal[Latest] \in TerminalStates /\ t > Latest)
  BY StartsAre
<1>2. /\ a.st = journal[t] /\ a.active = active /\ a.ptr = ptr /\ a.intent = intent
      /\ a.receipt = receipt
  BY DEF Image
<1>3. c = Made(w, a) /\ w.file # "raise"
      /\ (w.file = "journal" => w.content.txn = t)
      /\ (a.st = "none" => w.file \in {"journal", "active"})
  BY DEF Edge
<1>4. /\ c.st = (IF w.file = "journal" THEN w.content.state ELSE journal[t])
      /\ c.active = active' /\ c.ptr = ptr' /\ c.intent = intent' /\ c.receipt = receipt'
      /\ c = [st |-> c.st, active |-> c.active, ptr |-> c.ptr, intent |-> c.intent,
              receipt |-> c.receipt]
  BY <1>2, <1>3 DEF Made, Apply
<1>5. journal \in [Txns -> InstallStates \cup {"none"}]
  BY DEF FilesOK
<1>6. journal'[t] = c.st /\ journal' \in [Txns -> InstallStates \cup {"none"}]
      /\ \A u \in Txns : u # t => journal'[u] = journal[u]
  <2>1. CASE w.file = "journal"
    <3>1. journal' = [journal EXCEPT ![t] = c.st] /\ c.st \in InstallStates \cup {"none"}
      BY <1>3, <1>4, <2>1 DEF Apply, Images
    <3> QED BY <1>1, <1>5, <3>1
  <2>2. CASE w.file # "journal"
    <3>1. journal' = journal /\ c.st = journal[t]
      BY <1>4, <2>2 DEF Apply
    <3> QED BY <1>5, <3>1
  <2> QED BY <2>1, <2>2
<1>7. Image(t)' = c
  BY <1>4, <1>6 DEF Image
<1>8. CASE w.file = "journal" \/ t = Latest
  <2>1. c.st # "none"
    <3>1. "none" \notin InstallStates
      BY PositionIs DEF InstallStates, TerminalStates
    <3>2. CASE w.file = "journal"
      <4>1. c.st = w.content.state /\ w.content.state \in InstallStates
        BY <1>4, <3>2 DEF Writes
      <4> QED BY <3>1, <4>1
    <3>3. CASE w.file # "journal"
      BY <1>4, <1>8, <3>3 DEF FilesOK, Last
    <3> QED BY <3>2, <3>3
  <2>2. Last(t)'
    <3>1. \A u \in Txns : u > t => u # t /\ u > Latest
      BY <1>1, BoundsAssumption DEF Txns
    <3>2. \A u \in Txns : u > t => journal'[u] = "none"
      BY <1>6, <3>1 DEF FilesOK, Last
    <3> QED BY <1>1, <1>6, <2>1, <3>2 DEF Last
  <2>3. Latest' = t
    BY <2>2, LatestNext
  <2>4. Starts(t)'
    BY <1>1, <2>3 DEF Starts
  <2> QED BY <1>1, <1>4, <1>6, <1>7, <1>8, <2>2, <2>3, <2>4
<1>9. CASE w.file # "journal" /\ t # Latest
  <2>1. w.file = "active" /\ journal' = journal
    BY <1>1, <1>3, <1>9 DEF Apply
  <2>2. Latest' = Latest
    BY <2>1 DEF Latest
  <2>3. Starts(t)'
    BY <1>9, <2>1, <2>2 DEF Starts
  <2> QED BY <1>1, <1>4, <1>6, <1>7, <1>9, <2>1, <2>2, <2>3
<1> QED BY <1>8, <1>9

\* They stay well formed.
LEMMA WriteFiles ==
    ASSUME FilesOK, slots \subseteq Versions, NEW w \in Writes, NEW t, Starts(t), NEW err,
           NEW c \in Nodes(t, err), Edge(w, t, Image(t), c), Apply(w)
    PROVE  FilesOK' /\ Image(t)' = c /\ Starts(t)' /\ slots' \subseteq Versions
<1>1. c \in Images /\ Ready(t, c)
  BY NodesAre
<1>2. /\ Image(t)' = c /\ Starts(t)' /\ t \in Txns
      /\ c.active = active' /\ c.ptr = ptr' /\ c.intent = intent' /\ c.receipt = receipt'
      /\ journal' \in [Txns -> InstallStates \cup {"none"}]
      /\ IF w.file = "journal" \/ t = Latest
         THEN Latest' = t /\ Last(t)'
         ELSE /\ Latest' = Latest /\ w.file = "active" /\ journal' = journal
              /\ journal[Latest] \in TerminalStates
  BY <1>1, WriteMoves
<1>3. slots' \subseteq Versions
  BY DEF Apply, Writes
<1>4. CASE w.file = "journal" \/ t = Latest
  <2>1. Latest' = t /\ Last(t)' /\ Image(Latest)' = c
    BY <1>2, <1>4 DEF Image
  <2>2. FilesOK'
    BY <1>1, <1>2, <2>1 DEF FilesOK
  <2> QED BY <1>2, <1>3, <2>2
<1>5. CASE w.file # "journal" /\ t # Latest
  <2>1. w.file = "active" /\ journal' = journal /\ Latest' = Latest
        /\ journal[Latest] \in TerminalStates
    BY <1>2, <1>5
  <2>2. ptr' = ptr /\ intent' = intent /\ receipt' = receipt
        /\ active' \in Actives \cup {NoFile}
    <3>1. c.active \in Actives \cup {NoFile}
      BY <1>1 DEF Images
    <3> QED BY <1>2, <2>1, <3>1 DEF Apply
  <2>3. Image(Latest)' = [st |-> journal[Latest], active |-> active', ptr |-> ptr,
                          intent |-> intent, receipt |-> receipt]
    BY <2>1, <2>2 DEF Image
  <2>4. Image(Latest)' \in Images /\ Image(Latest)'.st = journal[Latest]
    <3>1. /\ journal[Latest] \in InstallStates /\ ptr \in Pointers
          /\ intent \in Intents \cup {NoFile} /\ receipt \in Receipts \cup {NoFile}
      BY FilesAre
    <3> QED BY <2>2, <2>3, <3>1 DEF Images
  <2>5. Ready(Latest, Image(Latest)')
    BY <2>1, <2>4 DEF Ready, TerminalStates
  <2>6. FilesOK'
    BY <2>1, <2>4, <2>5 DEF FilesOK, Last
  <2> QED BY <1>2, <1>3, <2>6
<1> QED BY <1>4, <1>5

\* A write is made: the files move to the next node of the plan.
LEMMA WriteInv == ASSUME Inv, Write PROVE Inv'
<1> DEFINE ws == job.writes
           w == Head(ws)
<1>1. FilesOK /\ ProcsOK /\ LockOK /\ PlanOK /\ HoldOK /\ job \in Jobs /\ ws # <<>>
      /\ Accepted(w) /\ Apply(w)
  BY DEF Inv, ProcsOK, Write
<1>2. job.ok # ""
  BY <1>1 DEF LockOK
<1>3. PICK t, b : Starts(t) /\ Plan(ws, Edges(t), Nodes(t, job.err), Image(t), b) /\ AtPC(job.ok, t, b)
  BY <1>1, <1>2 DEF PlanOK, Plans
<1>4. w \in Writes /\ Tail(ws) \in Seq(Writes)
  <2>1. ws \in Seq(Writes) /\ ws # <<>>
    BY <1>1 DEF Jobs
  <2> HIDE DEF ws
  <2> QED BY <2>1
<1>5. w.file # "raise"
  BY <1>1, <1>4 DEF Accepted, Writes
<1> HIDE DEF w
<1>6. PICK c \in Nodes(t, job.err) :
        Edge(w, t, Image(t), c) /\ Plan(Tail(ws), Edges(t), Nodes(t, job.err), c, b)
  BY <1>1, <1>3, <1>5, PlanTail, EdgesAre DEF w
<1>7. FilesOK' /\ Image(t)' = c /\ Starts(t)' /\ slots' \subseteq Versions
  BY <1>1, <1>3, <1>4, <1>6, WriteFiles DEF ProcsOK
<1>8. /\ job' \in Jobs /\ job'.by = job.by /\ job'.writes = Tail(ws) /\ job'.ok = job.ok
      /\ job'.err = job.err /\ UNCHANGED <<boot, rt, mishaps, opened>>
  BY <1>1, <1>4 DEF Write, Jobs
<1>9. ProcsOK'
  BY <1>1, <1>7, <1>8 DEF ProcsOK
<1>10. LockOK'
  <2>1. job.by # "nobody"
    BY <1>1, <1>2, IdleIs DEF LockOK
  <2> QED BY <1>1, <1>2, <1>8, <2>1 DEF LockOK
<1>11. PlanOK'
  BY <1>3, <1>6, <1>7, <1>8 DEF PlanOK, Plans
<1>12. HoldOK'
  <2>1. \A r \in Runtimes : Plain(rt'[r].pc)
    BY <1>1, <1>2, <1>8, BusyAlone
  <2> QED BY <2>1, PlainAt DEF HoldOK
<1> QED BY <1>7, <1>9, <1>10, <1>11, <1>12 DEF Inv

\* The holder goes on at pc, or gives the lock back.
LEMMA ResumeInv ==
    ASSUME Inv, job.ok # "", NEW pc \in {job.ok, job.err}, Resume(pc),
           AtPC(pc, Latest, Image(Latest)),
           UNCHANGED <<files, opened>>, mishaps' \in 0..MaxMishaps
    PROVE  Inv'
<1>1. FilesOK /\ ProcsOK /\ LockOK /\ PlanOK /\ HoldOK
  BY DEF Inv
<1>2. CASE job.by = "boot"
  <2>1. boot' = [boot EXCEPT !.pc = pc] /\ rt' = rt
    BY <1>2 DEF Resume
  <2>2. boot.pc = "busy" /\ pc \in {"ensure", "launch", "confirmed", "unconfirmed", "select",
                                    "launchFailed", "reconfirm", "unlaunched", "down"}
    BY <1>1, <1>2 DEF LockOK, BootHolds
  <2>3. boot' \in Boots /\ boot'.pc = pc
    BY <1>1, <2>1, <2>2 DEF ProcsOK, Boots, BootPcs
  <2>4. /\ job' \in Jobs /\ job'.ok = "" /\ job'.writes = <<>>
        /\ job'.by = (IF pc \in {"ensure", "launch"} THEN "boot" ELSE "nobody")
        /\ (pc \notin {"ensure", "launch"} => job' = Idle)
    <3>1. pc \in Holding <=> pc \in {"ensure", "launch"}
      BY <2>2 DEF Holding
    <3>2. job' = IF pc \in {"ensure", "launch"} THEN [Idle EXCEPT !.by = "boot"] ELSE Idle
      BY <1>2, <3>1 DEF Resume
    <3>3. /\ [Idle EXCEPT !.by = "boot"] \in Jobs /\ [Idle EXCEPT !.by = "boot"].by = "boot"
          /\ [Idle EXCEPT !.by = "boot"].ok = "" /\ [Idle EXCEPT !.by = "boot"].writes = <<>>
      BY IdleIs DEF Jobs
    <3> QED BY <3>2, <3>3, IdleIs
  <2>5. ProcsOK'
    BY <1>1, <2>1, <2>3, <2>4 DEF ProcsOK, files
  <2>6. LockOK'
    <3>1. /\ "nobody" \notin Runtimes /\ "boot" \notin Runtimes
          /\ pc # "busy" /\ (pc \in BootHolds <=> pc \in {"ensure", "launch"})
      BY <2>2 DEF Runtimes, BootHolds
    <3>2. (\A r \in Runtimes : rt[r].pc \notin RtHolds) /\ rt["child"].kind # "full"
      BY <1>1, <1>2, <2>2, <3>1 DEF LockOK
    <3>3. \A r \in Runtimes : rt[r].pc # "busy"
      BY <3>2 DEF RtHolds
    <3> QED BY <2>1, <2>3, <2>4, <3>1, <3>2, <3>3 DEF LockOK
  <2> QED BY <2>1, <2>4, <2>5, <2>6, KeepPlan
<1>3. CASE job.by # "boot"
  <2>0. job.by # "nobody"
    BY <1>1, IdleIs DEF LockOK
  <2>1. PICK r \in Runtimes : job.by = r
    BY <1>1, <1>3, <2>0 DEF ProcsOK, Jobs
  <2>2. boot' = boot /\ rt' = [rt EXCEPT ![r].pc = pc]
    BY <1>3, <2>1 DEF Resume
  <2>3. /\ rt[r].pc = "busy" /\ pc \in {"open", "switch", "drop", "abort", "converge"}
        /\ rt[r].kind = "full"
    BY <1>1, <2>1 DEF LockOK, RtHolds
  <2>4. /\ rt' \in [Runtimes -> Rts] /\ rt'[r].pc = pc /\ rt'[r].kind = "full"
        /\ \A q \in Runtimes : q # r => rt'[q] = rt[q]
    <3> DEFINE g == rt'
               to == pc
    <3>1. rt \in [Runtimes -> Rts] /\ to \in RtPcs
      BY <1>1, <2>3 DEF ProcsOK, RtPcs
    <3>2. g = [rt EXCEPT ![r].pc = to]
      BY <2>2
    <3> HIDE DEF g, to
    <3>3. /\ g \in [Runtimes -> Rts] /\ g[r].pc = to /\ g[r].kind = rt[r].kind
          /\ \A q \in Runtimes : q # r => g[q] = rt[q]
      BY ONLY <3>1, <3>2, r \in Runtimes, RtMoves
    <3> QED BY <2>3, <3>3 DEF g, to
  <2>5. /\ job' \in Jobs /\ job'.ok = "" /\ job'.writes = <<>>
        /\ job'.by = (IF pc # "open" THEN r ELSE "nobody") /\ (pc = "open" => job' = Idle)
    <3>1. pc \in Holding <=> pc # "open"
      BY <2>3 DEF Holding
    <3>2. job' = IF pc # "open" THEN [Idle EXCEPT !.by = r] ELSE Idle
      BY <2>1, <3>1 DEF Resume
    <3>3. /\ [Idle EXCEPT !.by = r] \in Jobs /\ [Idle EXCEPT !.by = r].by = r
          /\ [Idle EXCEPT !.by = r].ok = "" /\ [Idle EXCEPT !.by = r].writes = <<>>
      BY IdleIs DEF Jobs
    <3> QED BY <3>2, <3>3, IdleIs
  <2>6. ProcsOK'
    BY <1>1, <2>2, <2>4, <2>5 DEF ProcsOK, files
  <2>7. LockOK'
    <3>1. /\ "nobody" \notin Runtimes /\ "boot" \notin Runtimes
          /\ pc # "busy" /\ (pc \in RtHolds <=> pc # "open")
      BY <2>3 DEF Runtimes, RtHolds
    <3>2. (\A q \in Runtimes : q # r => rt[q].pc \notin RtHolds) /\ boot.pc \notin BootHolds
      BY <1>1, <1>3, <2>1 DEF LockOK
    <3>3. (\A q \in Runtimes : q # r => rt[q].pc # "busy")
          /\ boot.pc \notin {"busy", "ensure", "launch"}
      BY <3>2 DEF RtHolds, BootHolds
    <3>4. rt'["child"].kind = "full" => rt["child"].kind = "full"
      BY <2>3, <2>4 DEF Runtimes
    <3>5. \A q \in Runtimes : /\ job'.by = q <=> rt'[q].pc \in RtHolds
                              /\ rt'[q].pc \in RtHolds => rt'[q].kind = "full"
                              /\ rt'[q].pc # "busy"
      <4> SUFFICES ASSUME NEW q \in Runtimes
                   PROVE  /\ job'.by = q <=> rt'[q].pc \in RtHolds
                          /\ rt'[q].pc \in RtHolds => rt'[q].kind = "full"
                          /\ rt'[q].pc # "busy"
        OBVIOUS
      <4>1. CASE q = r
        BY <2>4, <2>5, <3>1, <4>1
      <4>2. CASE q # r
        BY <2>4, <2>5, <3>1, <3>2, <3>3, <4>2
      <4> QED BY <4>1, <4>2
    <3>6. boot'.pc = boot.pc /\ job'.by # "boot" /\ job'.by \in {r, "nobody"}
      BY <2>2, <2>5, <3>1
    <3>7. rt["child"].kind = "full" => boot.pc = "watch"
      BY <1>1 DEF LockOK
    <3> QED BY <2>5, <3>1, <3>2, <3>3, <3>4, <3>5, <3>6, <3>7 DEF LockOK
  <2>8. FilesOK' /\ Latest' = Latest /\ Image(Latest)' = Image(Latest)
    BY <1>1, FilesSame
  <2>9. PlanOK'
    BY <2>5 DEF PlanOK
  <2>10. \A q \in Runtimes : AtPC(rt'[q].pc, Latest, Image(Latest))
    BY <1>1, <2>4 DEF HoldOK
  <2>11. HoldOK'
    BY <2>8, <2>10 DEF HoldOK
  <2> QED BY <2>6, <2>7, <2>8, <2>9, <2>11 DEF Inv
<1> QED BY <1>2, <1>3

\* What is relied on after an operation is about the latest transaction.
LEMMA AtLatest ==
    ASSUME FilesOK, NEW t, Starts(t), NEW pc, AtPC(pc, t, Image(t))
    PROVE  AtPC(pc, Latest, Image(Latest))
<1>1. CASE t = Latest
  BY <1>1
<1>2. CASE t # Latest
  <2>1. Image(t).st = "none" /\ Image(t).active = active /\ Image(Latest).active = active
    BY <1>2, StartsAre DEF Image
  <2> QED BY <2>1 DEF AtPC
<1> QED BY <1>1, <1>2

\* Every write is made: the files are where the plan ends.
LEMMA DoneInv == ASSUME Inv, Done PROVE Inv'
<1>1. PICK t, b : Starts(t) /\ Plan(job.writes, Edges(t), Nodes(t, job.err), Image(t), b)
                  /\ AtPC(job.ok, t, b)
  BY DEF Inv, Done, PlanOK, Plans
<1>2. Image(t) = b
  <2>1. job.writes = <<>> /\ Len(job.writes) \in Nat
    BY DEF Done
  <2> QED BY <1>1, <2>1, LeadsStart DEF Plan
<1>3. AtPC(job.ok, Latest, Image(Latest))
  BY <1>1, <1>2, AtLatest DEF Inv
<1>4. mishaps' \in 0..MaxMishaps /\ Resume(job.ok) /\ job.ok # "" /\ UNCHANGED <<files, opened>>
  BY DEF Inv, ProcsOK, Done
<1> QED BY <1>3, <1>4, ResumeInv

\* The next write raises: the files are a node, which is all the handler relies on.
LEMMA ExceptInv == ASSUME Inv, Except PROVE Inv'
<1>0. job.ok # "" /\ job.writes \in Seq(Writes)
  BY DEF Inv, ProcsOK, LockOK, Except, Jobs
<1>1. PICK t, b : Starts(t) /\ Plan(job.writes, Edges(t), Nodes(t, job.err), Image(t), b)
  BY <1>0 DEF Inv, PlanOK, Plans
<1>2. Image(t) \in Nodes(t, job.err)
  <2> DEFINE ws == job.writes
  <2>1. ws \in Seq(Writes)
    BY <1>0
  <2> HIDE DEF ws
  <2>2. Len(ws) \in Nat
    BY <2>1
  <2>3. Len(job.writes) \in Nat
    BY <2>2 DEF ws
  <2> QED BY <1>1, <2>3, LeadsStart DEF Plan
<1>3. AtPC(job.err, Latest, Image(Latest))
  BY <1>1, <1>2, NodesAre, AtLatest DEF Inv
<1>4. mishaps' \in 0..MaxMishaps
  BY BoundsAssumption DEF Inv, ProcsOK, Except
<1>5. Resume(job.err) /\ UNCHANGED <<files, opened>>
  BY DEF Except
<1> QED BY <1>0, <1>3, <1>4, <1>5, ResumeInv

\* A Runtime that crosses its barrier rewrites the receipt without the lock: the plan
\* of whoever holds it stands, with the new receipt until it writes one itself.
LEMMA PlanRebase ==
    ASSUME NEW t, NEW err, NEW ws, NEW a, NEW b, Plan(ws, Edges(t), Nodes(t, err), a, b),
           NEW c \in Images, c.st = a.st, c.active = a.active, c.ptr = a.ptr,
           c.intent = a.intent
    PROVE  \E d : /\ Plan(ws, Edges(t), Nodes(t, err), c, d)
                  /\ \A pc : AtPC(pc, t, b) => AtPC(pc, t, d)
<1> DEFINE S == Nodes(t, err)
           seen(k) == \E j \in 1..k : ws[j].file = "receipt"
<1>1. ws \in Seq(Writes) /\ Leads(ws, Edges(t), S, a, b)
  BY DEF Plan
<1>2. PICK n \in 0..Len(ws) : \E h \in [0..n -> S] :
        /\ h[0] = a
        /\ \A k \in 1..n : <<ws[k], h[k - 1], h[k]>> \in Edges(t)
        /\ \/ n = Len(ws) /\ h[n] = b
           \/ n < Len(ws) /\ ws[n + 1].file = "raise"
  BY <1>1 DEF Leads
<1>3. PICK h \in [0..n -> S] :
        /\ h[0] = a
        /\ \A k \in 1..n : <<ws[k], h[k - 1], h[k]>> \in Edges(t)
        /\ \/ n = Len(ws) /\ h[n] = b
           \/ n < Len(ws) /\ ws[n + 1].file = "raise"
  BY <1>2
<1>4. n \in Nat /\ Len(ws) \in Nat
  BY <1>1, <1>2
<1> DEFINE g == [k \in 0..n |->
                   [st |-> h[k].st, active |-> h[k].active, ptr |-> h[k].ptr,
                    intent |-> h[k].intent,
                    receipt |-> IF seen(k) THEN h[k].receipt ELSE c.receipt]]
<1>5. \A k \in 0..n : /\ g[k].st = h[k].st /\ g[k].active = h[k].active
                      /\ g[k].ptr = h[k].ptr /\ g[k].intent = h[k].intent
                      /\ g[k].receipt = (IF seen(k) THEN h[k].receipt ELSE c.receipt)
                      /\ g[k] = [st |-> g[k].st, active |-> g[k].active, ptr |-> g[k].ptr,
                                 intent |-> g[k].intent, receipt |-> g[k].receipt]
  OBVIOUS
<1>6. g = [k \in 0..n |-> g[k]]
  OBVIOUS
<1>7. ~seen(0)
  BY <1>4
<1>8. \A k \in 1..n : seen(k) <=> seen(k - 1) \/ ws[k].file = "receipt"
  BY <1>4
<1> HIDE DEF seen, g
<1>9. \A k \in 0..n : g[k] \in S
  <2> SUFFICES ASSUME NEW k \in 0..n PROVE g[k] \in S
    OBVIOUS
  <2>1. h[k] \in Images /\ Ready(t, h[k]) /\ AtPC(err, t, h[k])
    BY NodesAre
  <2>2. g[k] \in Images
    <3> DEFINE x == g[k]
    <3>1. /\ h[k].st \in InstallStates \cup {"none"} /\ h[k].ptr \in Pointers
          /\ h[k].active \in Actives \cup {NoFile} /\ h[k].intent \in Intents \cup {NoFile}
          /\ h[k].receipt \in Receipts \cup {NoFile} /\ c.receipt \in Receipts \cup {NoFile}
      BY <2>1 DEF Images
    <3>2. /\ x.st \in InstallStates \cup {"none"} /\ x.ptr \in Pointers
          /\ x.active \in Actives \cup {NoFile} /\ x.intent \in Intents \cup {NoFile}
          /\ x.receipt \in Receipts \cup {NoFile}
          /\ x = [st |-> x.st, active |-> x.active, ptr |-> x.ptr, intent |-> x.intent,
                  receipt |-> x.receipt]
      BY <1>5, <3>1
    <3> HIDE DEF x
    <3>3. x \in Images
      BY <3>2 DEF Images
    <3> QED BY <3>3 DEF x
  <2>3. Ready(t, g[k])
    BY <1>5, <2>1 DEF Ready
  <2>4. AtPC(err, t, g[k])
    BY <1>5, <2>1 DEF AtPC
  <2> QED BY <2>2, <2>3, <2>4 DEF Nodes
<1>10. g \in [0..n -> S]
  BY <1>6, <1>9
<1>11. g[0] = c
  <2>1. 0 \in 0..n
    BY <1>4
  <2>2. c = [st |-> c.st, active |-> c.active, ptr |-> c.ptr, intent |-> c.intent,
             receipt |-> c.receipt]
    BY DEF Images
  <2>3. g[0].st = c.st /\ g[0].active = c.active /\ g[0].ptr = c.ptr
        /\ g[0].intent = c.intent /\ g[0].receipt = c.receipt
    BY <1>3, <1>5, <1>7, <2>1
  <2> QED BY <1>5, <2>1, <2>2, <2>3
<1>12. \A k \in 1..n : <<ws[k], g[k - 1], g[k]>> \in Edges(t)
  <2> SUFFICES ASSUME NEW k \in 1..n PROVE <<ws[k], g[k - 1], g[k]>> \in Edges(t)
    OBVIOUS
  <2> DEFINE w == ws[k]
             x == h[k - 1]
             y == h[k]
             u == g[k - 1]
             v == g[k]
  <2>1. k - 1 \in 0..n /\ k \in 0..n
    BY <1>4
  <2>2. Edge(w, t, x, y) /\ w \in Writes
    BY <1>3, EdgesAre
  <2>3. /\ u.st = x.st /\ u.active = x.active /\ u.ptr = x.ptr /\ u.intent = x.intent
        /\ u.receipt = (IF seen(k - 1) THEN x.receipt ELSE c.receipt)
        /\ v.st = y.st /\ v.active = y.active /\ v.ptr = y.ptr /\ v.intent = y.intent
        /\ v.receipt = (IF seen(k) THEN y.receipt ELSE c.receipt)
        /\ v = [st |-> v.st, active |-> v.active, ptr |-> v.ptr, intent |-> v.intent,
                receipt |-> v.receipt]
    BY <1>5, <2>1
  <2>4. seen(k) <=> seen(k - 1) \/ w.file = "receipt"
    BY <1>8
  <2> HIDE DEF w, x, y, u, v
  <2>5. v = Made(w, u)
    BY <2>2, <2>3, <2>4 DEF Edge, Made
  <2>6. Edge(w, t, u, v)
    BY <2>2, <2>3, <2>5 DEF Edge
  <2>7. u \in Images /\ v \in Images
    BY <1>9, <2>1, NodesAre DEF u, v
  <2> QED BY <2>2, <2>6, <2>7, EdgesAre DEF w, u, v
<1>13. CASE n = Len(ws) /\ h[n] = b
  <2>1. Leads(ws, Edges(t), S, c, g[n])
    BY <1>2, <1>10, <1>11, <1>12, <1>13 DEF Leads
  <2>2. g[n].st = b.st /\ g[n].active = b.active
    BY <1>4, <1>5, <1>13
  <2>3. \A pc : AtPC(pc, t, b) => AtPC(pc, t, g[n])
    BY <2>2 DEF AtPC
  <2> QED BY <1>1, <2>1, <2>3 DEF Plan
<1>14. CASE n < Len(ws) /\ ws[n + 1].file = "raise"
  <2>1. Leads(ws, Edges(t), S, c, b)
    BY <1>2, <1>10, <1>11, <1>12, <1>14 DEF Leads
  <2> QED BY <1>1, <2>1 DEF Plan
<1> QED BY <1>3, <1>13, <1>14

\* A Runtime is replaced.
LEMMA RtReplaced ==
    ASSUME NEW f \in [Runtimes -> Rts], NEW r \in Runtimes, NEW e \in Rts, NEW g,
           g = [f EXCEPT ![r] = e]
    PROVE  /\ g \in [Runtimes -> Rts] /\ g[r] = e
           /\ \A q \in Runtimes : q # r => g[q] = f[q]
OBVIOUS

\* No Runtime.
LEMMA NoRuntimeIs ==
    NoRuntime \in Rts /\ NoRuntime.pc = "" /\ NoRuntime.kind = "none"
BY DEF NoRuntime, Rts, RtPcs

\* Bootstrap at another point.
LEMMA BootsAre ==
    ASSUME NEW b \in Boots, NEW pc \in BootPcs
    PROVE  /\ [b EXCEPT !.pc = pc] \in Boots /\ [b EXCEPT !.pc = pc].pc = pc
           /\ [b EXCEPT !.pc = pc, !.avoid = None] \in Boots
           /\ [b EXCEPT !.pc = pc, !.avoid = None].pc = pc
BY DEF Boots

\* Where BootGoes leaves it.
LEMMA BootGoesTo ==
    ASSUME boot \in Boots, NEW pc \in BootPcs, BootGoes(pc)
    PROVE  boot' \in Boots /\ boot'.pc = pc
BY BootsAre DEF BootGoes

\* Bootstrap, which watches no Runtime, goes elsewhere and may stop its probe.
LEMMA BootMovesInv ==
    ASSUME Inv, boot.pc \notin BootHolds \cup {"watch"}, boot' \in Boots,
           boot'.pc \notin BootHolds,
           rt' = rt \/ rt' = [rt EXCEPT !["child"] = NoRuntime],
           UNCHANGED <<files, job, mishaps, opened>>
    PROVE  Inv'
<1>1. ProcsOK /\ LockOK
  BY DEF Inv
<1>2. rt["child"].kind # "full" /\ "child" \in Runtimes
  BY <1>1 DEF LockOK, Runtimes
<1>3. /\ rt' \in [Runtimes -> Rts] /\ rt'["child"].kind # "full"
      /\ \A q \in Runtimes : rt'[q] = rt[q] \/ (rt'[q].pc = "" /\ q = "child")
  <2>1. CASE rt' = rt
    BY <1>1, <1>2, <2>1 DEF ProcsOK
  <2>2. CASE rt' = [rt EXCEPT !["child"] = NoRuntime]
    <3> DEFINE g == rt'
    <3>1. g = [rt EXCEPT !["child"] = NoRuntime] /\ rt \in [Runtimes -> Rts]
      BY <1>1, <2>2 DEF ProcsOK
    <3> HIDE DEF g
    <3>2. /\ g \in [Runtimes -> Rts] /\ g["child"] = NoRuntime
          /\ \A q \in Runtimes : q # "child" => g[q] = rt[q]
      BY ONLY <1>2, <3>1, NoRuntimeIs, RtReplaced
    <3>3. g["child"].kind # "full" /\ g["child"].pc = ""
      BY <3>2, NoRuntimeIs
    <3> QED BY <3>2, <3>3 DEF g
  <2> QED BY <2>1, <2>2
<1>4. ProcsOK'
  BY <1>1, <1>3 DEF ProcsOK, files
<1>5. rt["child"].pc \notin RtHolds /\ "" \notin RtHolds /\ "busy" \in RtHolds
  BY <1>1, <1>2 DEF LockOK, RtHolds
<1>6. \A q \in Runtimes : (rt'[q] = rt[q]) \/ (rt'[q].pc \notin RtHolds /\ rt[q].pc \notin RtHolds)
  BY <1>3, <1>5
<1>7. boot.pc \notin {"ensure", "launch", "busy"} /\ boot'.pc \notin {"ensure", "launch", "busy"}
      /\ job' = job
  BY DEF BootHolds
<1>8. LockOK'
  BY <1>1, <1>3, <1>5, <1>6, <1>7 DEF LockOK
<1>9. \A q \in Runtimes : rt'[q].pc = rt[q].pc \/ Plain(rt'[q].pc)
  BY <1>3 DEF Plain
<1> QED BY <1>4, <1>8, <1>9, KeepPlan DEF Inv

\* BootstrapSupervisor.run, step by step.
LEMMA BootStartInv == ASSUME Inv, BootStart PROVE Inv'
<1>1. boot' \in Boots /\ boot'.pc = "select" /\ boot.pc = "down" /\ rt' = rt
      /\ UNCHANGED <<files, job, mishaps, opened>>
  BY DEF BootStart, Boots, BootPcs
<1> QED BY <1>1, BootMovesInv DEF BootHolds

\* _select_and_start reconciles first, ...
LEMMA SelectInv == ASSUME Inv, Select PROVE Inv'
<1>1. /\ boot.pc = "select" /\ job = Idle /\ UNCHANGED <<files, rt, mishaps, opened>>
      /\ boot \in Boots /\ FilesOK
  BY DEF Select, Inv, ProcsOK
<1>2. CASE ReconcileRaises
  <2>1. boot' = [boot EXCEPT !.pc = "launchFailed"] /\ job' = job
    BY <1>2 DEF Select, BootGoes
  <2>2. boot' \in Boots /\ boot'.pc = "launchFailed"
    BY <1>1, <2>1, BootsAre DEF BootPcs
  <2> QED BY <1>1, <2>1, <2>2, BootMovesInv DEF BootHolds
<1>3. CASE ~ReconcileRaises
  <2>1. /\ job' = Work("boot", ReconcileWrites, "ensure", "launchFailed")
        /\ boot' = [boot EXCEPT !.pc = "busy"]
    BY <1>3 DEF Select, BootRuns
  <2>2. boot' \in Boots /\ boot'.pc = "busy"
    BY <1>1, <2>1, BootsAre DEF BootPcs
  <2>3. Plain("launchFailed") /\ Plain("ensure")
    BY DEF Plain
  <2>4. Plans(ReconcileWrites, "ensure", "launchFailed")
    BY <1>1, <1>3, <2>3, ReconcilePlan, PlainAt, PlansLatest
  <2> QED BY <1>1, <2>1, <2>2, <2>4, BootRunsInv
<1> QED BY <1>2, <1>3

\* ... finishes a pending switch, ...
LEMMA EnsureInv == ASSUME Inv, Ensure PROVE Inv'
<1> DEFINE fails == IF intent = NoFile THEN ~CurrentTrusted ELSE EnsureRaises(intent)
           ws == IF intent = NoFile THEN <<>> ELSE EnsureWrites(intent)
<1>1. /\ boot.pc = "ensure" /\ UNCHANGED <<files, rt, mishaps, opened>>
      /\ boot \in Boots /\ FilesOK
  BY DEF Ensure, Inv, ProcsOK
<1>2. job.by = "boot"
  BY <1>1 DEF Inv, LockOK, BootHolds
<1>3. CASE fails
  <2>1. boot' = [boot EXCEPT !.pc = "launchFailed"] /\ job' = Idle
    BY <1>3 DEF Ensure, BootGoes
  <2>2. boot' \in Boots /\ boot'.pc = "launchFailed"
    BY <1>1, <2>1, BootsAre DEF BootPcs
  <2> QED BY <1>1, <1>2, <2>1, <2>2, BootGoesInv DEF BootHolds
<1>4. CASE ~fails
  <2>1. job' = Work("boot", ws, "launch", "launchFailed")
        /\ boot' = [boot EXCEPT !.pc = "busy"]
    BY <1>4 DEF Ensure, BootRuns
  <2>2. boot' \in Boots /\ boot'.pc = "busy"
    BY <1>1, <2>1, BootsAre DEF BootPcs
  <2>3. Plain("launchFailed") /\ Plain("launch")
    BY DEF Plain
  <2>4. Image(Latest) \in Nodes(Latest, "launchFailed")
    BY <1>1, <2>3, PlainNodes DEF FilesOK
  <2>5. \E b : Plan(ws, Edges(Latest), Nodes(Latest, "launchFailed"), Image(Latest), b)
    <3>1. CASE intent = NoFile
      <4>1. ws = <<>>
        BY <3>1
      <4> QED BY <2>4, <4>1, PlanNil
    <3>2. CASE intent # NoFile
      <4>1. ~EnsureRaises(intent) /\ intent \in Intents /\ ws = EnsureWrites(intent)
        BY <1>1, <1>4, <3>2, FilesAre
      <4>2. intent.txn = Latest /\ journal[Latest] \in {"activating", "healthchecking"}
        BY <4>1 DEF EnsureRaises
      <4>3. Image(Latest).st = journal[Latest] /\ Image(Latest).ptr = ptr
            /\ Image(Latest).active = active
        BY <1>1, FilesAre
      <4> QED BY <1>1, <2>3, <2>4, <4>1, <4>2, <4>3, EnsurePlan
    <3> QED BY <3>1, <3>2
  <2> HIDE DEF ws
  <2>6. Plans(ws, "launch", "launchFailed")
    BY <1>1, <2>3, <2>5, PlainAt, PlansLatest
  <2> QED BY <1>1, <1>2, <2>1, <2>2, <2>6, BootRunsInv
<1> QED BY <1>3, <1>4

\* ... and starts the Runtime.
LEMMA LaunchInv == ASSUME Inv, Launch PROVE Inv'
<1>1. /\ boot.pc = "launch" /\ job' = Idle /\ UNCHANGED <<files, mishaps, opened>>
      /\ boot \in Boots /\ FilesOK /\ ProcsOK /\ LockOK
  BY DEF Launch, Inv, ProcsOK
<1>2. job.by = "boot" /\ "child" \in Runtimes /\ "boot" \notin Runtimes /\ "nobody" \notin Runtimes
  BY <1>1 DEF LockOK, BootHolds, Runtimes
<1>3. CASE rt' = rt /\ (BootGoes("down") \/ BootGoes("launchFailed"))
  <2>1. boot' \in Boots /\ boot'.pc \in {"down", "launchFailed"}
    <3>1. "down" \in BootPcs /\ "launchFailed" \in BootPcs
      BY DEF BootPcs
    <3> QED BY <1>1, <1>3, <3>1, BootGoesTo
  <2> QED BY <1>1, <1>2, <1>3, <2>1, BootGoesInv DEF BootHolds
<1>4. CASE /\ BootGoes(IF intent = NoFile THEN "watch" ELSE "probe")
           /\ rt' = [rt EXCEPT !["child"] =
                [kind |-> IF intent = NoFile THEN "full" ELSE "probe", slot |-> ptr.current,
                 pc |-> IF intent = NoFile THEN "start" ELSE "probe", saw |-> NoFile]]
  <2> DEFINE e == [kind |-> IF intent = NoFile THEN "full" ELSE "probe", slot |-> ptr.current,
                   pc |-> IF intent = NoFile THEN "start" ELSE "probe", saw |-> NoFile]
             g == rt'
  <2>1. boot' \in Boots /\ boot'.pc = (IF intent = NoFile THEN "watch" ELSE "probe")
    <3> DEFINE pc == IF intent = NoFile THEN "watch" ELSE "probe"
    <3>1. pc \in BootPcs /\ BootGoes(pc)
      BY <1>4 DEF BootPcs
    <3> HIDE DEF pc
    <3>2. boot' \in Boots /\ boot'.pc = pc
      BY <1>1, <3>1, BootGoesTo
    <3> QED BY <3>2 DEF pc
  <2>2. ptr.current \in Versions \cup {None}
    BY <1>1, FilesAre, GoodIs DEF Pointers
  <2>3. e \in Rts /\ e.pc \in {"start", "probe"} /\ (e.kind = "full" => boot'.pc = "watch")
    BY <2>1, <2>2 DEF Rts, RtPcs
  <2>4. g = [rt EXCEPT !["child"] = e] /\ rt \in [Runtimes -> Rts]
    BY <1>1, <1>4 DEF ProcsOK
  <2> HIDE DEF e, g
  <2>5. /\ g \in [Runtimes -> Rts] /\ g["child"] = e
        /\ \A q \in Runtimes : q # "child" => g[q] = rt[q]
    BY <1>2, <2>3, <2>4, RtReplaced
  <2>6. ProcsOK'
    BY <1>1, <2>1, <2>5, IdleIs DEF ProcsOK, files, g
  <2>7. \A q \in Runtimes : g[q].pc \notin RtHolds /\ g[q].pc # "busy"
    <3>1. \A q \in Runtimes : rt[q].pc \notin RtHolds
      BY <1>1, <1>2 DEF LockOK
    <3> QED BY <2>3, <2>5, <3>1 DEF RtHolds
  <2>8. LockOK'
    <3>1. boot'.pc \notin BootHolds /\ boot'.pc \notin {"busy", "ensure", "launch"}
      BY <2>1 DEF BootHolds
    <3>2. /\ job' = Idle /\ job'.by = "nobody" /\ job'.ok = "" /\ job'.writes = <<>>
          /\ (g["child"].kind = "full" => boot'.pc = "watch")
      BY <1>1, <2>3, <2>5, IdleIs
    <3>3. \A q \in Runtimes : job'.by # q
      BY <1>2, <3>2
    <3> QED BY <2>7, <3>1, <3>2, <3>3 DEF LockOK, g
  <2>9. \A q \in Runtimes : rt'[q].pc = rt[q].pc \/ Plain(rt'[q].pc)
    BY <2>3, <2>5 DEF Plain, g
  <2> QED BY <1>1, <2>6, <2>8, <2>9, IdleIs, KeepPlan DEF Inv
<1> QED BY <1>3, <1>4 DEF Launch

\* The probe answers, or it does not.
LEMMA ProbeAnswersInv ==
    ASSUME Inv, NEW healthy \in BOOLEAN, ProbeAnswers(healthy) PROVE Inv'
<1>1. /\ boot.pc = "probe" /\ UNCHANGED <<files, job, mishaps, opened>> /\ boot \in Boots
      /\ (rt' = rt \/ rt' = [rt EXCEPT !["child"] = NoRuntime])
  BY DEF ProbeAnswers, Inv, ProcsOK
<1>2. boot' \in Boots /\ boot'.pc \in {"confirm", "unhealthy"}
  <2> DEFINE pc == IF healthy THEN "confirm" ELSE "unhealthy"
  <2>1. pc \in BootPcs /\ BootGoes(pc) /\ pc \in {"confirm", "unhealthy"}
    BY DEF BootPcs, ProbeAnswers
  <2> HIDE DEF pc
  <2> QED BY <1>1, <2>1, BootGoesTo
<1> QED BY <1>1, <1>2, BootMovesInv DEF BootHolds

\* confirm makes the writes of ensure_pending_current and then its own.
LEMMA ConfirmInv ==
    ASSUME Inv, NEW companionReady \in BOOLEAN, Confirm(companionReady) PROVE Inv'
<1>1. /\ boot.pc = "confirm" /\ job = Idle /\ UNCHANGED <<files, rt, mishaps, opened>>
      /\ boot \in Boots /\ FilesOK
  BY DEF Confirm, Inv, ProcsOK
<1>2. CASE ~companionReady \/ intent = NoFile \/ EnsureRaises(intent)
  <2>1. boot' = [boot EXCEPT !.pc = "reconfirm"] /\ job' = job
    BY <1>2 DEF Confirm, BootGoes
  <2>2. boot' \in Boots /\ boot'.pc = "reconfirm"
    BY <1>1, <2>1, BootsAre DEF BootPcs
  <2> QED BY <1>1, <2>1, <2>2, BootMovesInv DEF BootHolds
<1>3. CASE ~(~companionReady \/ intent = NoFile \/ EnsureRaises(intent))
  <2> DEFINE ws == EnsureWrites(intent) \o ConfirmWrites(intent)
             S == Nodes(Latest, "reconfirm")
             a == Image(Latest)
  <2>1. job' = Work("boot", ws, "confirmed", "reconfirm")
        /\ boot' = [boot EXCEPT !.pc = "busy"]
    BY <1>3 DEF Confirm, BootRuns
  <2>2. boot' \in Boots /\ boot'.pc = "busy"
    BY <1>1, <2>1, BootsAre DEF BootPcs
  <2>3. Plain("reconfirm") /\ Plain("confirmed")
    BY DEF Plain
  <2>4. /\ a \in S /\ a.st = journal[Latest] /\ a.ptr = ptr /\ a.active = active
        /\ intent \in Intents
    BY <1>1, <1>3, <2>3, PlainNodes, FilesAre DEF FilesOK
  <2>5. intent.txn = Latest /\ journal[Latest] \in {"activating", "healthchecking"}
    BY <1>3 DEF EnsureRaises
  <2> HIDE DEF a
  <2>6. PICK b \in S : Plan(EnsureWrites(intent), Edges(Latest), S, a, b) /\ b.st = "healthchecking"
    BY <1>1, <2>3, <2>4, <2>5, EnsurePlan
  <2>7. PICK c \in S : Plan(ConfirmWrites(intent), Edges(Latest), S, b, c)
    BY <1>1, <2>3, <2>4, <2>5, <2>6, ConfirmPlan
  <2> HIDE DEF S
  <2>8. Plan(ws, Edges(Latest), S, a, c)
    BY <2>6, <2>7, PlanConcat
  <2> HIDE DEF ws
  <2>9. Plans(ws, "confirmed", "reconfirm")
    BY <1>1, <2>3, <2>8, PlainAt, PlansLatest DEF S, a
  <2> QED BY <1>1, <2>1, <2>2, <2>9, BootRunsInv
<1> QED BY <1>2, <1>3

\* The exception handler around confirm.
LEMMA ReconfirmInv == ASSUME Inv, Reconfirm PROVE Inv'
<1>1. /\ boot.pc = "reconfirm" /\ job = Idle /\ UNCHANGED <<files, rt, mishaps, opened>>
      /\ boot \in Boots /\ FilesOK
  BY DEF Reconfirm, Inv, ProcsOK
<1>2. CASE ReconcileRaises
  <2>1. boot' = [boot EXCEPT !.pc = "unconfirmed"] /\ job' = job
    BY <1>2 DEF Reconfirm, BootGoes
  <2>2. boot' \in Boots /\ boot'.pc = "unconfirmed"
    BY <1>1, <2>1, BootsAre DEF BootPcs
  <2> QED BY <1>1, <2>1, <2>2, BootMovesInv DEF BootHolds
<1>3. CASE ~ReconcileRaises
  <2> DEFINE ok == IF intent # NoFile /\ ConfirmedInPart(intent)
                   THEN "confirmed" ELSE "unconfirmed"
  <2>1. /\ job' = Work("boot", ReconcileWrites, ok, "unconfirmed")
        /\ boot' = [boot EXCEPT !.pc = "busy"]
    BY <1>3 DEF Reconfirm, BootRuns
  <2>2. boot' \in Boots /\ boot'.pc = "busy"
    BY <1>1, <2>1, BootsAre DEF BootPcs
  <2>3. Plain("unconfirmed") /\ Plain(ok) /\ ok \in {"confirmed", "unconfirmed"}
    BY DEF Plain
  <2> HIDE DEF ok
  <2>4. Plans(ReconcileWrites, ok, "unconfirmed")
    BY <1>1, <1>3, <2>3, ReconcilePlan, PlainAt, PlansLatest
  <2> QED BY <1>1, <2>1, <2>2, <2>3, <2>4, BootRunsInv
<1> QED BY <1>2, <1>3

\* The probe is stopped.
LEMMA StopCandidateInv == ASSUME Inv, StopCandidate PROVE Inv'
<1>1. /\ boot.pc \in {"confirmed", "unconfirmed"} /\ UNCHANGED <<files, job, mishaps, opened>>
      /\ boot \in Boots /\ rt' = [rt EXCEPT !["child"] = NoRuntime]
  BY DEF StopCandidate, Inv, ProcsOK
<1>2. boot' \in Boots /\ boot'.pc \in {"select", "unhealthy"}
  <2>1. "select" \in BootPcs /\ "unhealthy" \in BootPcs
    BY DEF BootPcs
  <2>2. CASE boot.pc = "confirmed"
    <3>1. boot' = [boot EXCEPT !.pc = "select", !.avoid = None]
      BY <2>2 DEF StopCandidate
    <3> QED BY <1>1, <2>1, <3>1, BootsAre
  <2>3. CASE boot.pc # "confirmed"
    <3>1. boot' = [boot EXCEPT !.pc = "unhealthy"]
      BY <2>3 DEF StopCandidate
    <3> QED BY <1>1, <2>1, <3>1, BootsAre
  <2> QED BY <2>2, <2>3
<1> QED BY <1>1, <1>2, BootMovesInv DEF BootHolds

\* _rollback_pending_activation
LEMMA FailPendingInv == ASSUME Inv, FailPending PROVE Inv'
<1> DEFINE otherwise == IF boot.pc = "launchFailed" THEN "unlaunched" ELSE "down"
<1>1. /\ boot.pc \in {"launchFailed", "unhealthy"} /\ job = Idle
      /\ UNCHANGED <<files, rt, mishaps, opened>> /\ boot \in Boots /\ FilesOK
  BY DEF FailPending, Inv, ProcsOK
<1>2. otherwise \in {"unlaunched", "down"}
  OBVIOUS
<1>3. CASE intent = NoFile \/ FailRaises(intent)
  <2>1. BootGoes(otherwise) /\ job' = job /\ otherwise \in BootPcs
    BY <1>3 DEF FailPending, BootPcs
  <2> HIDE DEF otherwise
  <2>2. boot' \in Boots /\ boot'.pc = otherwise
    BY <1>1, <2>1, BootGoesTo
  <2> QED BY <1>1, <1>2, <2>1, <2>2, BootMovesInv DEF BootHolds
<1>4. CASE ~(intent = NoFile \/ FailRaises(intent))
  <2>1. /\ job' = Work("boot", FailWrites(intent), "select", otherwise)
        /\ boot' = [boot EXCEPT !.pc = "busy", !.avoid = None]
    BY <1>4 DEF FailPending
  <2> HIDE DEF otherwise
  <2>2. boot' \in Boots /\ boot'.pc = "busy"
    BY <1>1, <2>1, BootsAre DEF BootPcs
  <2>3. Plain(otherwise) /\ Plain("select")
    BY <1>2 DEF Plain
  <2>4. /\ intent \in Intents /\ intent.txn = Latest
        /\ journal[Latest] \in {"activating", "healthchecking"}
    BY <1>1, <1>4, FilesAre DEF FailRaises
  <2>5. Plans(FailWrites(intent), "select", otherwise)
    BY <1>1, <2>3, <2>4, FailPlan, PlainAt, PlansLatest
  <2> QED BY <1>1, <1>2, <2>1, <2>2, <2>5, BootRunsInv
<1> QED BY <1>3, <1>4

\* _rollback_confirmed_activation
LEMMA RollbackConfirmedInv == ASSUME Inv, RollbackConfirmed PROVE Inv'
<1> DEFINE onward == boot.pc = "exited" /\ boot.exit \in {"restart", "reload"}
           otherwise == IF onward THEN "select" ELSE "down"
<1>1. /\ boot.pc \in {"unlaunched", "exited"} /\ job = Idle
      /\ UNCHANGED <<files, rt, mishaps, opened>> /\ boot \in Boots /\ FilesOK
  BY DEF RollbackConfirmed, Inv, ProcsOK
<1>2. otherwise \in {"select", "down"}
  OBVIOUS
<1>3. CASE ~RollbackOffered \/ RollbackRaises(receipt)
  <2>1. BootGoes(otherwise) /\ job' = job /\ otherwise \in BootPcs
    BY <1>3 DEF RollbackConfirmed, BootPcs
  <2> HIDE DEF otherwise
  <2>2. boot' \in Boots /\ boot'.pc = otherwise
    BY <1>1, <2>1, BootGoesTo
  <2> QED BY <1>1, <1>2, <2>1, <2>2, BootMovesInv DEF BootHolds
<1>4. CASE ~(~RollbackOffered \/ RollbackRaises(receipt))
  <2>1. /\ job' = Work("boot", RollbackWrites(receipt), "select", otherwise)
        /\ boot' = [boot EXCEPT !.pc = "busy", !.avoid = None]
    BY <1>4 DEF RollbackConfirmed
  <2> HIDE DEF otherwise
  <2>2. boot' \in Boots /\ boot'.pc = "busy"
    BY <1>1, <2>1, BootsAre DEF BootPcs
  <2>3. Plain(otherwise) /\ Plain("select")
    BY <1>2 DEF Plain
  <2>4. receipt # NoFile /\ receipt.txn = Latest /\ ~receipt.barrier
    BY <1>4 DEF RollbackOffered, RollbackRaises
  <2>5. Plans(RollbackWrites(receipt), "select", otherwise)
    BY <1>1, <2>3, <2>4, RollbackPlan, PlainAt, PlansLatest
  <2> QED BY <1>1, <1>2, <2>1, <2>2, <2>5, BootRunsInv
<1> QED BY <1>3, <1>4

\* A full Runtime: its exit, its barrier, and what the coordinator inside it does.
LEMMA ExitsInv ==
    ASSUME Inv, NEW r \in Runtimes, NEW code \in ExitCodes, Exits(r, code) PROVE Inv'
<1>1. /\ rt[r].kind = "full" /\ job' = (IF job.by = r THEN Idle ELSE job)
      /\ UNCHANGED <<files, mishaps, opened>> /\ rt \in [Runtimes -> Rts] /\ boot \in Boots
      /\ ProcsOK /\ LockOK
  BY DEF Exits, Inv, ProcsOK
<1> DEFINE g == rt'
<1>2. g = [rt EXCEPT ![r] = NoRuntime]
  BY DEF Exits
<1> HIDE DEF g
<1>3. /\ g \in [Runtimes -> Rts] /\ g[r] = NoRuntime
      /\ \A q \in Runtimes : q # r => g[q] = rt[q]
  BY <1>1, <1>2, NoRuntimeIs, RtReplaced
<1>4. g[r].pc = "" /\ g[r].kind = "none" /\ "" \notin RtHolds /\ "busy" \in RtHolds
      /\ "nobody" \notin Runtimes /\ "boot" \notin Runtimes
  BY <1>3, NoRuntimeIs DEF RtHolds, Runtimes
<1>5. boot' \in Boots /\ (boot'.pc = boot.pc \/ (r = "child" /\ boot'.pc \in {"down", "exited"}))
  <2>1. CASE r = "child"
    <3>1. rt[r].slot \in Versions \cup {None}
      BY <1>1 DEF Rts
    <3>2. boot' = [pc |-> IF code = "signal" THEN "down" ELSE "exited", exit |-> code,
                   avoid |-> IF code = "restart" THEN rt[r].slot ELSE None]
      BY <2>1 DEF Exits
    <3> QED BY <2>1, <3>1, <3>2 DEF Boots, BootPcs
  <2>2. CASE r # "child"
    BY <1>1, <2>2 DEF Exits
  <2> QED BY <2>1, <2>2
<1>6. job' \in Jobs
  BY <1>1, IdleIs DEF ProcsOK
<1>7. ProcsOK'
  BY <1>1, <1>3, <1>5, <1>6 DEF ProcsOK, files, g
<1>8. LockOK'
  <2>1. r = "child" => boot.pc = "watch"
    BY <1>1 DEF LockOK
  <2>2. boot'.pc \in BootHolds => boot'.pc = boot.pc
    BY <1>5 DEF BootHolds
  <2>3. boot.pc \in BootHolds => boot'.pc = boot.pc
    BY <1>5, <2>1 DEF BootHolds
  <2>4. g["child"].kind = "full" => r # "child" /\ rt["child"].kind = "full"
    BY <1>3, <1>4 DEF Runtimes
  <2>5. CASE job.by = r
    <3>1. job' = Idle /\ boot.pc \notin BootHolds
      BY <1>1, <1>4, <2>5 DEF LockOK
    <3>2. \A q \in Runtimes : g[q].pc \notin RtHolds
      BY <1>1, <1>3, <1>4, <2>5 DEF LockOK
    <3>3. boot'.pc \notin BootHolds /\ \A q \in Runtimes : g[q].pc # "busy"
      BY <1>4, <2>2, <3>1, <3>2
    <3>4. g["child"].kind = "full" => boot'.pc = "watch"
      BY <1>1, <1>5, <2>4 DEF LockOK
    <3> QED BY <1>4, <3>1, <3>2, <3>3, <3>4, IdleIs DEF LockOK, g, BootHolds
  <2>6. CASE job.by # r
    <3>1. job' = job /\ rt[r].pc \notin RtHolds
      BY <1>1, <2>6 DEF LockOK
    <3>2. \A q \in Runtimes : g[q] = rt[q] \/ (g[q].pc \notin RtHolds /\ rt[q].pc \notin RtHolds)
      BY <1>3, <1>4, <3>1
    <3>3. g["child"].kind = "full" => boot'.pc = "watch"
      BY <1>1, <1>5, <2>4 DEF LockOK
    <3>4. \A q \in Runtimes : g[q].pc \in RtHolds => g[q] = rt[q]
      BY <3>2
    <3>5. \A q \in Runtimes : job.by = q <=> g[q].pc \in RtHolds
      BY <1>1, <3>2 DEF LockOK
    <3>6. job.by = "boot" <=> boot'.pc \in BootHolds
      BY <1>1, <2>2, <2>3 DEF LockOK
    <3>7. boot'.pc \in {"ensure", "launch", "busy"} => boot'.pc = boot.pc
      BY <2>2 DEF BootHolds
    <3>8. \A q \in Runtimes : g[q].pc \in RtHolds => g[q].kind = "full"
      BY <1>1, <3>4 DEF LockOK
    <3>9. \A q \in Runtimes :
             /\ g[q].pc \in RtHolds \ {"busy"} => job.ok = ""
             /\ g[q].pc = "busy" => /\ job.ok \in {"open", "switch"}
                                    /\ job.err \in {"open", "drop", "abort", "converge"}
      <4>1. \A q \in Runtimes :
               /\ rt[q].pc \in RtHolds \ {"busy"} => job.ok = ""
               /\ rt[q].pc = "busy" => /\ job.ok \in {"open", "switch"}
                                       /\ job.err \in {"open", "drop", "abort", "converge"}
        BY <1>1 DEF LockOK
      <4> QED BY <1>4, <3>4, <4>1
    <3>10. /\ boot'.pc \in {"ensure", "launch"} => job.ok = ""
           /\ boot'.pc = "busy" =>
                 /\ job.ok \in {"ensure", "launch", "confirmed", "unconfirmed", "select"}
                 /\ job.err \in {"launchFailed", "reconfirm", "unconfirmed", "unlaunched",
                                 "down", "select"}
           /\ job.ok = "" => job.writes = <<>>
           /\ job.by = "nobody" => job = Idle
      BY <1>1, <3>7 DEF LockOK
    <3> HIDE DEF g
    <3> QED BY <3>1, <3>3, <3>5, <3>6, <3>8, <3>9, <3>10 DEF LockOK, g
  <2> QED BY <2>5, <2>6
<1>9. \A q \in Runtimes : rt'[q].pc = rt[q].pc \/ Plain(rt'[q].pc)
  BY <1>3, <1>4 DEF Plain, g
<1> QED BY <1>1, <1>7, <1>8, <1>9, IdleIs, KeepPlan DEF Inv

\* A startup check fails.
LEMMA RefusedInv == ASSUME Inv, NEW r \in Runtimes, Refused(r) PROVE Inv'
BY ExitsInv DEF Refused, ExitCodes

\* A Runtime moves from one point outside the lock to another.
LEMMA RtStepsLock ==
    ASSUME LockOK, NEW r \in Runtimes, rt[r].pc \notin RtHolds, rt'[r].pc \notin RtHolds,
           rt'[r].kind = rt[r].kind, \A q \in Runtimes : q # r => rt'[q] = rt[q],
           job' = job, boot' = boot
    PROVE  LockOK'
<1>1. \A q \in Runtimes : /\ rt'[q].kind = rt[q].kind
                          /\ rt'[q].pc \in RtHolds <=> rt[q].pc \in RtHolds
                          /\ rt'[q].pc \in RtHolds => rt'[q].pc = rt[q].pc
  <2> SUFFICES ASSUME NEW q \in Runtimes
               PROVE  /\ rt'[q].kind = rt[q].kind
                      /\ rt'[q].pc \in RtHolds <=> rt[q].pc \in RtHolds
                      /\ rt'[q].pc \in RtHolds => rt'[q].pc = rt[q].pc
    OBVIOUS
  <2>1. CASE q = r
    BY <2>1
  <2>2. CASE q # r
    BY <2>2
  <2> QED BY <2>1, <2>2
<1>2. "child" \in Runtimes /\ "busy" \in RtHolds
  BY DEF Runtimes, RtHolds
<1>3. \A q \in Runtimes :
         /\ job.by = q <=> rt'[q].pc \in RtHolds
         /\ rt'[q].pc \in RtHolds => rt'[q].kind = "full"
         /\ rt'[q].pc \in RtHolds \ {"busy"} => job.ok = ""
         /\ rt'[q].pc = "busy" => /\ job.ok \in {"open", "switch"}
                                  /\ job.err \in {"open", "drop", "abort", "converge"}
  <2>1. \A q \in Runtimes : job.by = q <=> rt'[q].pc \in RtHolds
    BY <1>1 DEF LockOK
  <2>2. \A q \in Runtimes : rt'[q].pc \in RtHolds => rt'[q].kind = "full"
    BY <1>1 DEF LockOK
  <2>3. \A q \in Runtimes : rt'[q].pc \in RtHolds \ {"busy"} => job.ok = ""
    BY <1>1 DEF LockOK
  <2>4. \A q \in Runtimes : rt'[q].pc = "busy" => rt[q].pc = "busy"
    BY <1>1, <1>2
  <2>5. \A q \in Runtimes : rt[q].pc = "busy" =>
           job.ok \in {"open", "switch"} /\ job.err \in {"open", "drop", "abort", "converge"}
    BY DEF LockOK
  <2> QED BY <2>1, <2>2, <2>3, <2>4, <2>5
<1>4. rt'["child"].kind = "full" => boot.pc = "watch"
  BY <1>1, <1>2 DEF LockOK
<1> QED BY <1>3, <1>4 DEF LockOK

\* mark_data_barrier_crossed reads the receipt.
LEMMA ReadBarrierInv == ASSUME Inv, NEW r \in Runtimes, ReadBarrier(r) PROVE Inv'
<1>1. /\ rt[r].pc = "start" /\ rt' = [rt EXCEPT ![r].pc = "barrier", ![r].saw = receipt]
      /\ UNCHANGED <<files, job, boot, mishaps, opened>> /\ rt \in [Runtimes -> Rts]
      /\ receipt \in Receipts \cup {NoFile} /\ ProcsOK /\ LockOK
  BY FilesAre DEF ReadBarrier, Inv, ProcsOK
<1> DEFINE e == [rt[r] EXCEPT !.pc = "barrier", !.saw = receipt]
           g == rt'
<1>2. e \in Rts /\ e.pc = "barrier" /\ e.kind = rt[r].kind
  <2>1. rt[r] \in Rts
    BY <1>1
  <2> QED BY <1>1, <2>1 DEF Rts, RtPcs
<1>3. g = [rt EXCEPT ![r] = e]
  BY <1>1
<1> HIDE DEF e, g
<1>4. /\ g \in [Runtimes -> Rts] /\ g[r] = e
      /\ \A q \in Runtimes : q # r => g[q] = rt[q]
  BY <1>1, <1>2, <1>3, RtReplaced
<1>5. ProcsOK'
  BY <1>1, <1>4 DEF ProcsOK, files, g
<1>6. LockOK'
  <2>1. rt[r].pc \notin RtHolds /\ rt'[r].pc \notin RtHolds /\ rt'[r].kind = rt[r].kind
        /\ \A q \in Runtimes : q # r => rt'[q] = rt[q]
    BY <1>1, <1>2, <1>4 DEF RtHolds, g
  <2> QED BY <1>1, <2>1, RtStepsLock
<1>7. \A q \in Runtimes : rt'[q].pc = rt[q].pc \/ Plain(rt'[q].pc)
  BY <1>2, <1>4 DEF Plain, g
<1> QED BY <1>1, <1>5, <1>6, <1>7, KeepPlan

\* mark_data_barrier_crossed writes it, whoever holds the lock.
LEMMA CrossBarrierInv == ASSUME Inv, NEW r \in Runtimes, CrossBarrier(r) PROVE Inv'
<1> DEFINE saw == rt[r].saw
           first == saw # NoFile /\ saw.state = "confirmed" /\ ~saw.barrier
<1>1. /\ rt[r].pc = "barrier" /\ rt' = [rt EXCEPT ![r].pc = "open", ![r].saw = NoFile]
      /\ UNCHANGED <<journal, active, ptr, intent, job, boot, mishaps>>
      /\ rt \in [Runtimes -> Rts] /\ FilesOK /\ ProcsOK /\ LockOK /\ PlanOK /\ HoldOK
      /\ receipt' = (IF first THEN [saw EXCEPT !.barrier = TRUE] ELSE receipt)
      /\ slots' \in (IF first THEN Pruned \cup {slots} ELSE {slots})
      /\ opened' = (IF saw # NoFile /\ saw.state = "confirmed"
                    THEN opened \cup {saw.txn} ELSE opened)
  BY DEF CrossBarrier, Inv, ProcsOK
<1>2. saw \in Receipts \cup {NoFile} /\ rt[r] \in Rts
  BY <1>1 DEF Rts
<1>3. receipt' \in Receipts \cup {NoFile}
  <2>1. saw \in Receipts => [saw EXCEPT !.barrier = TRUE] \in Receipts
    BY DEF Receipts, ReceiptFiles
  <2>2. receipt \in Receipts \cup {NoFile}
    BY <1>1, FilesAre
  <2> QED BY <1>1, <1>2, <2>1, <2>2
<1>4. slots' \subseteq Versions
  <2>1. slots \subseteq Versions
    BY <1>1 DEF ProcsOK
  <2>2. \A s \in Pruned : s \subseteq slots
    BY DEF Pruned
  <2> QED BY <1>1, <2>1, <2>2
<1>5. opened' \subseteq Txns
  <2>1. opened \subseteq Txns
    BY <1>1 DEF ProcsOK
  <2>2. saw # NoFile => saw.txn \in Txns
    BY <1>2, ReceiptsAre
  <2> QED BY <1>1, <2>1, <2>2
<1> DEFINE e == [rt[r] EXCEPT !.pc = "open", !.saw = NoFile]
           g == rt'
<1>6. e \in Rts /\ e.pc = "open" /\ e.kind = rt[r].kind
  BY <1>2 DEF Rts, RtPcs
<1>7. g = [rt EXCEPT ![r] = e]
  BY <1>1
<1> HIDE DEF e, g, saw, first
<1>8. /\ g \in [Runtimes -> Rts] /\ g[r] = e
      /\ \A q \in Runtimes : q # r => g[q] = rt[q]
  BY <1>1, <1>6, <1>7, RtReplaced
<1>9. ProcsOK'
  BY <1>1, <1>4, <1>5, <1>8 DEF ProcsOK, g
<1>10. LockOK'
  <2>1. rt[r].pc \notin RtHolds /\ rt'[r].pc \notin RtHolds /\ rt'[r].kind = rt[r].kind
        /\ \A q \in Runtimes : q # r => rt'[q] = rt[q]
    BY <1>1, <1>6, <1>8 DEF RtHolds, g
  <2> QED BY <1>1, <2>1, RtStepsLock
<1>11. Latest' = Latest
  BY <1>1 DEF Latest
<1>12. \A t \in Txns : LET c == Image(t)'
                       IN  c \in Images /\ c.st = Image(t).st /\ c.active = Image(t).active
                           /\ c.ptr = Image(t).ptr /\ c.intent = Image(t).intent
  <2>1. \A t \in Txns : journal[t] \in InstallStates \cup {"none"}
    BY <1>1 DEF FilesOK
  <2>2. active \in Actives \cup {NoFile} /\ ptr \in Pointers /\ intent \in Intents \cup {NoFile}
    BY <1>1, FilesAre
  <2>3. \A t \in Txns : Image(t)' = [st |-> journal[t], active |-> active, ptr |-> ptr,
                                     intent |-> intent, receipt |-> receipt']
    BY <1>1 DEF Image
  <2> QED BY <1>3, <2>1, <2>2, <2>3 DEF Image, Images
<1>13. Latest \in Txns
  BY <1>1, FilesAre
<1>14. /\ Image(Latest)' \in Images /\ Image(Latest)'.st = Image(Latest).st
       /\ Image(Latest)'.active = Image(Latest).active
  BY <1>11, <1>12, <1>13 DEF Image
<1>15. FilesOK'
  <2>1. Ready(Latest, Image(Latest)')
    BY <1>1, <1>14 DEF FilesOK, Ready
  <2> QED BY <1>1, <1>11, <1>14, <2>1 DEF FilesOK, Last
<1>16. PlanOK'
  <2> SUFFICES ASSUME job.ok # "" PROVE Plans(job.writes, job.ok, job.err)'
    BY <1>1 DEF PlanOK
  <2>1. PICK t, b : Starts(t) /\ Plan(job.writes, Edges(t), Nodes(t, job.err), Image(t), b)
                    /\ AtPC(job.ok, t, b)
    BY <1>1 DEF PlanOK, Plans
  <2> DEFINE c == Image(t)'
  <2>2. t \in Txns /\ Starts(t)'
    BY <1>1, <1>11, <2>1 DEF Starts
  <2>3. /\ c \in Images /\ c.st = Image(t).st /\ c.active = Image(t).active
        /\ c.ptr = Image(t).ptr /\ c.intent = Image(t).intent
    BY <1>12, <2>2
  <2> HIDE DEF c
  <2>4. PICK d : Plan(job.writes, Edges(t), Nodes(t, job.err), c, d)
                 /\ \A pc : AtPC(pc, t, b) => AtPC(pc, t, d)
    BY <2>1, <2>3, PlanRebase
  <2>5. /\ Starts(t)' /\ Plan(job'.writes, Edges(t), Nodes(t, job'.err), Image(t)', d)
        /\ AtPC(job'.ok, t, d)
    BY <1>1, <2>1, <2>2, <2>4 DEF c
  <2> QED BY <2>5 DEF Plans
<1>17. \A q \in Runtimes : AtPC(rt'[q].pc, Latest, Image(Latest)')
  <2>1. \A pc : AtPC(pc, Latest, Image(Latest)) => AtPC(pc, Latest, Image(Latest)')
    BY <1>14 DEF AtPC
  <2>2. AtPC("open", Latest, Image(Latest)')
    BY DEF AtPC
  <2> QED BY <1>1, <1>6, <1>8, <2>1, <2>2 DEF HoldOK, g
<1>18. HoldOK'
  BY <1>11, <1>17 DEF HoldOK
<1> QED BY <1>9, <1>10, <1>15, <1>16, <1>18 DEF Inv

\* What a serving Runtime, or one between two parts of its operation, finds.
LEMMA ServingIs ==
    ASSUME Inv, NEW r \in Runtimes
    PROVE  /\ FilesOK /\ ptr.current \in Versions
           /\ active # NoFile => active \in Actives /\ active.slot \in Versions
           /\ Serving(r) => rt[r].kind = "full" /\ job = Idle
           /\ rt[r].pc \in {"drop", "switch", "abort", "converge"} => rt[r].kind = "full"
           /\ AtPC(rt[r].pc, Latest, Image(Latest))
<1>1. FilesOK /\ LockOK /\ HoldOK
  BY DEF Inv
<1>2. ptr.current \in Versions
  BY <1>1, FilesAre, GoodIs DEF Pointers
<1>3. active # NoFile => active \in Actives /\ active.slot \in Versions
  BY <1>1, FilesAre, ActivesAre
<1>4. rt[r].pc \in {"drop", "switch", "abort", "converge"} => rt[r].kind = "full"
  BY <1>1 DEF LockOK, RtHolds
<1> QED BY <1>1, <1>2, <1>3, <1>4 DEF Serving, HoldOK

\* prepare_update
LEMMA PrepareInv ==
    ASSUME Inv, NEW r \in Runtimes, NEW v \in Versions, NEW outcome \in Outcomes,
           Prepare(r, v, outcome)
    PROVE  Inv'
<1> DEFINE ws == <<Put("active", [txn |-> Latest + 1, slot |-> v, base |-> ptr.current,
                                  prior |-> NoFile]),
                   JournalTo(Latest + 1, "resolving")>>
                 \o PrepareWrites(Latest + 1, v, "resolving", outcome)
<1>1. Serving(r) /\ journal[Latest] \in TerminalStates /\ Latest < MaxTxn
      /\ RuntimeRuns(r, ws, "open", "drop")
  BY DEF Prepare
<1>2. FilesOK /\ ptr.current \in Versions /\ rt[r].kind = "full" /\ job = Idle
  BY <1>1, ServingIs
<1>3. Plans(ws, "open", "drop")
  BY <1>1, <1>2, BeginPlan
<1> HIDE DEF ws
<1> QED BY <1>1, <1>2, <1>3, RuntimeRunsInv

\* Its handler.
LEMMA DropInv == ASSUME Inv, NEW r \in Runtimes, Drop(r) PROVE Inv'
<1> DEFINE c == active # NoFile /\ active.txn # Latest
           ws == If(c, <<Remove("active")>>)
<1>1. rt[r].pc = "drop" /\ RuntimeRuns(r, ws, "open", "open")
  BY DEF Drop
<1>2. FilesOK /\ rt[r].kind = "full"
  BY <1>1, ServingIs
<1>3. Plans(ws, "open", "open")
  <2>1. c \in BOOLEAN
    OBVIOUS
  <2> HIDE DEF c
  <2> QED BY <1>2, <2>1, DropPlan
<1> HIDE DEF ws
<1> QED BY <1>1, <1>2, <1>3, RuntimeRunsInv

\* recover, in the middle of a preparation.
LEMMA ResumePrepareInv ==
    ASSUME Inv, NEW r \in Runtimes, NEW outcome \in Outcomes, ResumePrepare(r, outcome)
    PROVE  Inv'
<1> DEFINE ws == PrepareWrites(Latest, active.slot, journal[Latest], outcome)
           a == Image(Latest)
<1>1. /\ Serving(r) /\ journal[Latest] \in PreparationStates
      /\ Possible(journal[Latest], outcome) /\ active # NoFile
      /\ RuntimeRuns(r, ws, "open", "open")
  BY DEF ResumePrepare
<1>2. FilesOK /\ active.slot \in Versions /\ rt[r].kind = "full" /\ job = Idle
  BY <1>1, ServingIs
<1>3. Plain("open")
  BY DEF Plain
<1>4. a \in Nodes(Latest, "open") /\ a.st = journal[Latest] /\ Latest \in Txns
  BY <1>2, <1>3, PlainNodes, FilesAre DEF FilesOK
<1> HIDE DEF a
<1>5. \E b : Plan(ws, Edges(Latest), Nodes(Latest, "open"), a, b)
  <2>1. Prepares(Edges(Latest), Nodes(Latest, "open"), Latest, active.slot, a) /\ a \in Images
    BY <1>2, <1>3, <1>4, PreparesHere, NodesAre
  <2> QED BY <1>1, <1>2, <1>4, <2>1, PreparePlan
<1> HIDE DEF ws
<1>6. Plans(ws, "open", "open")
  BY <1>2, <1>3, <1>5, PlainAt, PlansLatest DEF a
<1> QED BY <1>1, <1>2, <1>6, RuntimeRunsInv

\* recover, with a transaction that was never journaled.
LEMMA DiscardOrphanActiveInv ==
    ASSUME Inv, NEW r \in Runtimes, DiscardOrphanActive(r) PROVE Inv'
<1>1. Serving(r) /\ RuntimeRuns(r, <<Remove("active")>>, "open", "open")
  BY DEF DiscardOrphanActive
<1>2. FilesOK /\ rt[r].kind = "full" /\ job = Idle
  BY <1>1, ServingIs
<1>3. Plans(If(TRUE, <<Remove("active")>>), "open", "open")
  BY <1>2, DropPlan
<1>4. Plans(<<Remove("active")>>, "open", "open")
  BY <1>3 DEF If
<1> QED BY <1>1, <1>2, <1>4, RuntimeRunsInv

\* activate, up to the switch.
LEMMA ActivateInv ==
    ASSUME Inv, NEW r \in Runtimes, NEW drained \in BOOLEAN, Activate(r, drained)
    PROVE  Inv'
<1> DEFINE t == Latest
           reversible == journal[t] # "activating"
           stale == reversible /\ ptr.current # active.base
           drain == If(journal[t] = "awaiting_user", <<JournalTo(t, "draining")>>)
           w1 == If(ptr.current # active.slot, <<Discard(active.slot)>>)
                 \o <<JournalTo(t, "failed")>>
           w2 == drain \o <<Discard(active.slot), JournalTo(t, "failed")>>
           w3 == If(reversible,
                    drain \o If(active.prior = NoFile,
                                <<Put("active", [active EXCEPT !.prior = ptr])>>)
                    \o <<JournalTo(t, "activating")>>)
<1>1. /\ Serving(r) /\ active # NoFile /\ active.txn = t
      /\ journal[t] \in {"awaiting_user", "draining", "activating"}
  BY DEF Activate, Pending
<1>2. FilesOK /\ active.slot \in Versions /\ rt[r].kind = "full" /\ job = Idle
  BY <1>1, ServingIs
<1>3. \/ RuntimeRuns(r, w1, "open", "open")
      \/ reversible /\ RuntimeRuns(r, w2, "open", "open")
      \/ RuntimeRuns(r, w3, "switch", "open")
  BY DEF Activate
<1>4. Plans(w1, "open", "open")
  <2> DEFINE c == ptr.current # active.slot
  <2>1. c \in BOOLEAN
    OBVIOUS
  <2> HIDE DEF c
  <2>2. Plans(If(c, <<Discard(active.slot)>>) \o <<JournalTo(Latest, "failed")>>, "open", "open")
    BY <1>1, <1>2, <2>1, GiveUpPlan
  <2> QED BY <2>2 DEF c
<1>5. (reversible => Plans(w2, "open", "open")) /\ Plans(w3, "switch", "open")
  BY <1>1, <1>2, DrainPlan
<1> HIDE DEF w1, w2, w3
<1> QED BY <1>2, <1>3, <1>4, <1>5, RuntimeRunsInv

\* The switch, ...
LEMMA SwitchInv == ASSUME Inv, NEW r \in Runtimes, Switch(r) PROVE Inv'
<1> DEFINE i == IntentOf(active)
           ws == If(intent # NoFile /\ intent # i, <<Raise>>)
                 \o If(intent = NoFile, <<Put("intent", i)>>)
                 \o If(EnsureRaises(i), <<Raise>>)
                 \o EnsureWrites(i)
                 \o <<Put("active", active)>>
<1>1. rt[r].pc = "switch" /\ RuntimeRuns(r, ws, "open", "abort")
  BY DEF Switch
<1>2. FilesOK /\ rt[r].kind = "full" /\ AtPC("switch", Latest, Image(Latest))
  BY <1>1, ServingIs
<1>3. Plans(ws, "open", "abort")
  BY <1>2, SwitchPlan
<1> HIDE DEF ws
<1> QED BY <1>1, <1>2, <1>3, RuntimeRunsInv

\* ... its handler, ...
LEMMA AbortInv == ASSUME Inv, NEW r \in Runtimes, Abort(r) PROVE Inv'
<1> DEFINE own == intent # NoFile /\ intent.txn = active.txn
           w1 == If(FailRaises(intent), <<Raise>>) \o FailWrites(intent)
           w2 == If(ptr = active.prior, <<TryDiscard(active.slot)>>)
                 \o <<JournalTo(active.txn, "failed")>>
<1>1. /\ rt[r].pc = "abort"
      /\ own => RuntimeRuns(r, w1, "open", "converge")
      /\ ~own => RuntimeRuns(r, w2, "open", "open")
  BY DEF Abort
<1>2. FilesOK /\ rt[r].kind = "full" /\ AtPC("abort", Latest, Image(Latest))
  BY <1>1, ServingIs
<1>3. (own => Plans(w1, "open", "converge")) /\ (~own => Plans(w2, "open", "open"))
  BY <1>2, AbortPlan
<1> HIDE DEF w1, w2
<1> QED BY <1>1, <1>2, <1>3, RuntimeRunsInv

\* ... and that handler's.
LEMMA ConvergeInv == ASSUME Inv, NEW r \in Runtimes, Converge(r) PROVE Inv'
<1> DEFINE gone == active = NoFile
           undo == ~gone /\ ptr.current = active.slot /\ active.slot \notin Good(ptr)
           ws == If(undo, <<Point(active.prior)>>)
                 \o If(journal[Latest] \notin TerminalStates, <<JournalTo(Latest, "failed")>>)
<1>1. rt[r].pc = "converge" /\ RuntimeRuns(r, ws, "open", "open")
  BY DEF Converge
<1>2. FilesOK /\ rt[r].kind = "full" /\ AtPC("converge", Latest, Image(Latest))
  BY <1>1, ServingIs
<1>3. Plans(ws, "open", "open")
  BY <1>2, ConvergePlan
<1> HIDE DEF ws
<1> QED BY <1>1, <1>2, <1>3, RuntimeRunsInv

\* cancel_pending_activation
LEMMA CancelInv == ASSUME Inv, NEW r \in Runtimes, Cancel(r) PROVE Inv'
<1> DEFINE c == active.slot \notin Protected(ptr)
           ws == If(c, <<Discard(active.slot)>>) \o <<JournalTo(Latest, "failed")>>
<1>1. /\ Serving(r) /\ active # NoFile /\ RuntimeRuns(r, ws, "open", "open")
      /\ journal[Latest] \in {"awaiting_user", "draining", "activating"}
  BY DEF Cancel, Pending
<1>2. FilesOK /\ active.slot \in Versions /\ rt[r].kind = "full" /\ job = Idle
  BY <1>1, ServingIs
<1>3. Plans(ws, "open", "open")
  <2>1. c \in BOOLEAN
    OBVIOUS
  <2> HIDE DEF c
  <2> QED BY <1>1, <1>2, <2>1, GiveUpPlan
<1> HIDE DEF ws
<1> QED BY <1>1, <1>2, <1>3, RuntimeRunsInv

\* Bootstrap before it is started.
LEMMA BootDownIs == BootDown \in Boots /\ BootDown.pc = "down"
BY DEF BootDown, Boots, BootPcs

\* Crashes: the files stay as the last write left them.
LEMMA PowerLossInv == ASSUME Inv, PowerLoss PROVE Inv'
<1>1. /\ mishaps < MaxMishaps /\ mishaps' = mishaps + 1 /\ boot' = BootDown
      /\ rt' = [r \in Runtimes |-> NoRuntime] /\ job' = Idle /\ UNCHANGED <<files, opened>>
      /\ ProcsOK
  BY DEF PowerLoss, Inv
<1>2. mishaps' \in 0..MaxMishaps /\ boot' \in Boots /\ boot'.pc = "down"
  <2>1. mishaps \in 0..MaxMishaps
    BY <1>1 DEF ProcsOK
  <2>2. mishaps' \in 0..MaxMishaps
    BY <1>1, <2>1, BoundsAssumption
  <2> QED BY <1>1, <2>2, BootDownIs
<1>3. rt' \in [Runtimes -> Rts] /\ \A r \in Runtimes : rt'[r] = NoRuntime
  BY <1>1, NoRuntimeIs
<1>4. \A r \in Runtimes : rt'[r].pc = "" /\ rt'[r].kind = "none"
  BY <1>3, NoRuntimeIs
<1>5. ProcsOK'
  BY <1>1, <1>2, <1>3, IdleIs DEF ProcsOK, files
<1>6. LockOK'
  BY <1>1, <1>2, <1>4, IdleIs DEF LockOK, BootHolds, RtHolds, Runtimes
<1>7. \A r \in Runtimes : Plain(rt'[r].pc)
  BY <1>4 DEF Plain
<1> QED BY <1>1, <1>5, <1>6, <1>7, IdleIs, KeepPlan

\* Bootstrap is killed, and its Runtime may go on with the lock it holds.
LEMMA BootKilledInv == ASSUME Inv, BootKilled PROVE Inv'
<1> DEFINE survives == /\ rt["child"].kind = "full"
                       /\ \/ Orphans = "any"
                          \/ Orphans = "serving" /\ rt["child"].pc \notin {"start", "barrier"}
           e == IF survives THEN rt["child"] ELSE rt["orphan"]
           g == rt'
<1>1. /\ mishaps < MaxMishaps /\ mishaps' = mishaps + 1 /\ boot' = BootDown
      /\ UNCHANGED <<files, opened>> /\ ProcsOK /\ LockOK
      /\ (survives => rt["orphan"] = NoRuntime)
      /\ g = [rt EXCEPT !["child"] = NoRuntime, !["orphan"] = e]
      /\ job' = CASE job.by = "child" /\ survives -> [job EXCEPT !.by = "orphan"]
                  [] job.by = "orphan" -> job
                  [] OTHER -> Idle
  BY DEF BootKilled, Inv, ProcsOK
<1>2. mishaps' \in 0..MaxMishaps /\ boot' \in Boots /\ boot'.pc = "down"
  <2>1. mishaps \in 0..MaxMishaps
    BY <1>1 DEF ProcsOK
  <2>2. mishaps' \in 0..MaxMishaps
    BY <1>1, <2>1, BoundsAssumption
  <2> QED BY <1>1, <2>2, BootDownIs
<1>3. rt \in [Runtimes -> Rts] /\ job \in Jobs /\ Runtimes = {"child", "orphan"}
  BY <1>1 DEF ProcsOK, Runtimes
<1>4. e \in Rts
  BY <1>3
<1>5. (survives => e = rt["child"] /\ rt["child"].kind = "full") /\ (~survives => e = rt["orphan"])
  OBVIOUS
<1> HIDE DEF survives, e, g
<1>6. g \in [Runtimes -> Rts] /\ g["child"] = NoRuntime /\ g["orphan"] = e
  BY <1>1, <1>3, <1>4, NoRuntimeIs
<1>7. g["child"].pc = "" /\ g["child"].kind = "none" /\ "" \notin RtHolds /\ "down" \notin BootHolds
  BY <1>6, NoRuntimeIs DEF RtHolds, BootHolds
<1>8. \A q \in Runtimes : rt'[q].pc = rt[q].pc \/ Plain(rt'[q].pc)
                          \/ \E p \in Runtimes : rt'[q].pc = rt[p].pc
  BY <1>3, <1>5, <1>6, <1>7 DEF Plain, g
<1>9. CASE job.by = "child" /\ survives
  <2>1. /\ job' \in Jobs /\ job'.by = "orphan" /\ job'.writes = job.writes
        /\ job'.ok = job.ok /\ job'.err = job.err
    BY <1>1, <1>3, <1>9 DEF Jobs
  <2>2. ProcsOK'
    BY <1>1, <1>2, <1>6, <2>1 DEF ProcsOK, files, g
  <2>3. e.pc = rt["child"].pc /\ e.kind = "full" /\ rt["child"].pc \in RtHolds
    BY <1>1, <1>3, <1>5, <1>9 DEF LockOK
  <2>4. /\ rt["child"].pc \in RtHolds \ {"busy"} => job.ok = ""
        /\ rt["child"].pc = "busy" => /\ job.ok \in {"open", "switch"}
                                      /\ job.err \in {"open", "drop", "abort", "converge"}
        /\ job.ok = "" => job.writes = <<>>
    BY <1>1, <1>3 DEF LockOK
  <2>5. "busy" # "" /\ "child" # "orphan" /\ boot'.pc \notin BootHolds
        /\ boot'.pc \notin {"busy", "ensure", "launch"}
    BY <1>2 DEF BootHolds
  <2>6. LockOK'
    BY <1>3, <1>6, <1>7, <2>1, <2>3, <2>4, <2>5 DEF LockOK, g
  <2> QED BY <1>1, <1>8, <2>1, <2>2, <2>6, KeepPlan
<1>10. CASE job.by = "orphan"
  <2>1. job' = job
    BY <1>1, <1>10
  <2>2. ProcsOK'
    BY <1>1, <1>2, <1>3, <1>6, <2>1 DEF ProcsOK, files, g
  <2>3. rt["orphan"].pc \in RtHolds /\ rt["orphan"].kind = "full"
    BY <1>1, <1>3, <1>10 DEF LockOK
  <2>4. e = rt["orphan"]
    BY <1>1, <1>5, <1>7, <2>3, NoRuntimeIs
  <2>5. LockOK'
    <3>1. /\ rt["orphan"].pc \in RtHolds \ {"busy"} => job.ok = ""
          /\ rt["orphan"].pc = "busy" => /\ job.ok \in {"open", "switch"}
                                         /\ job.err \in {"open", "drop", "abort", "converge"}
          /\ job.ok = "" => job.writes = <<>>
      BY <1>1, <1>3 DEF LockOK
    <3>2. "child" # "orphan" /\ boot'.pc \notin BootHolds
          /\ boot'.pc \notin {"busy", "ensure", "launch"}
      BY <1>2 DEF BootHolds
    <3> QED BY <1>3, <1>6, <1>7, <1>10, <2>1, <2>3, <2>4, <3>1, <3>2 DEF LockOK, g
  <2> QED BY <1>1, <1>8, <2>1, <2>2, <2>5, KeepPlan
<1>11. CASE job.by # "orphan" /\ ~(job.by = "child" /\ survives)
  <2>1. job' = Idle
    BY <1>1, <1>11
  <2>2. ProcsOK'
    BY <1>1, <1>2, <1>6, <2>1, IdleIs DEF ProcsOK, files, g
  <2>3. e.pc \notin RtHolds
    <3>1. CASE survives
      BY <1>1, <1>3, <1>5, <1>11, <3>1 DEF LockOK
    <3>2. CASE ~survives
      BY <1>1, <1>3, <1>5, <1>11, <3>2 DEF LockOK
    <3> QED BY <3>1, <3>2
  <2>4. \A q \in Runtimes : g[q].pc \notin RtHolds /\ g[q].pc # "busy"
    BY <1>3, <1>6, <1>7, <2>3 DEF RtHolds
  <2>5. LockOK'
    BY <1>2, <1>3, <1>7, <2>1, <2>4, IdleIs DEF LockOK, g
  <2> QED BY <1>1, <1>8, <2>1, <2>2, <2>5, IdleIs, KeepPlan
<1> QED BY <1>9, <1>10, <1>11

-----------------------------------------------------------------------------
(* Theorems *)

\* The first install.
LEMMA Initially == Init => Inv
<1> SUFFICES ASSUME Init PROVE Inv
  OBVIOUS
<1> DEFINE none == <<>>
           one == <<1>>
<1>1. 1 \in Versions /\ 0 \in Txns /\ None = 0 /\ Keep \in Nat /\ Keep >= 2
      /\ \A u \in Txns : u \in Nat
  BY BoundsAssumption DEF Versions, Txns, None
<1>2. none \in SlotLists /\ one \in SlotLists
  <2>1. none \in Seq(Versions) /\ Len(none) = 0 /\ one \in Seq(Versions) /\ Len(one) = 1
    BY <1>1
  <2>2. \A s \in Seq(Versions) : Len(s) \in {0, 1} => s \in SlotLists
    <3> SUFFICES ASSUME NEW s \in Seq(Versions), Len(s) \in {0, 1} PROVE s \in SlotLists
      OBVIOUS
    <3> DEFINE n == Len(s)
    <3>0. n \in {0, 1}
      OBVIOUS
    <3> HIDE DEF n
    <3>1. n <= Keep /\ \A i, j \in 1..n : i = j
      BY <1>1, <3>0
    <3> QED BY <3>1, SlotListsAre DEF n
  <2> HIDE DEF none, one
  <2> QED BY <2>1, <2>2
<1>3. [current |-> 1, previous |-> None, good |-> one] \in Pointers
      /\ NoPointers \in SlotPointers
  BY <1>1, <1>2 DEF Pointers, SlotPointers, NoPointers
<1>4. ptr \in Pointers /\ active = NoFile /\ intent = NoFile
  BY <1>3 DEF Init
<1>5. receipt \in Receipts
  <2>1. receipt = [state |-> "confirmed", txn |-> 0, slot |-> 1, prior |-> NoPointers,
                   barrier |-> TRUE]
    BY DEF Init
  <2> QED BY <1>1, <1>3, <2>1 DEF Receipts, ReceiptFiles
<1>6. /\ journal \in [Txns -> InstallStates \cup {"none"}] /\ journal[0] = "completed"
      /\ \A u \in Txns : u > 0 => journal[u] = "none"
  <2>1. journal = [u \in Txns |-> IF u = 0 THEN "completed" ELSE "none"]
    BY DEF Init
  <2>2. "completed" \in InstallStates
    BY DEF InstallStates, TerminalStates
  <2> QED BY <1>1, <2>1, <2>2
<1>7. Last(0)
  BY <1>1, <1>6 DEF Last
<1>8. Latest = 0
  BY <1>7, LatestIs
<1>9. Image(0) \in Images /\ Image(0).st = "completed"
  BY <1>1, <1>4, <1>5, <1>6 DEF Image, Images
<1>10. FilesOK
  BY <1>6, <1>7, <1>8, <1>9 DEF FilesOK, Ready
<1>11. /\ job = Idle /\ boot = BootDown /\ rt = [r \in Runtimes |-> NoRuntime] /\ slots = {1}
       /\ mishaps = 0 /\ opened = {0}
  BY DEF Init
<1>12. \A r \in Runtimes : rt[r] = NoRuntime /\ rt[r].pc = "" /\ rt[r].kind = "none"
  BY <1>11, NoRuntimeIs
<1>13. ProcsOK
  <2>1. rt \in [Runtimes -> Rts]
    BY <1>11, NoRuntimeIs
  <2>2. slots \subseteq Versions /\ mishaps \in 0..MaxMishaps /\ opened \subseteq Txns
    BY <1>1, <1>11, BoundsAssumption
  <2> QED BY <1>11, <2>1, <2>2, IdleIs, BootDownIs DEF ProcsOK
<1>14. LockOK
  BY <1>11, <1>12, IdleIs, BootDownIs DEF LockOK, BootHolds, RtHolds, Runtimes
<1>15. PlanOK
  BY <1>11, IdleIs DEF PlanOK
<1>16. HoldOK
  BY <1>12 DEF HoldOK, AtPC
<1> QED BY <1>10, <1>13, <1>14, <1>15, <1>16 DEF Inv

\* Nothing happens.
LEMMA Stuttering == ASSUME Inv, UNCHANGED vars PROVE Inv'
<1>1. UNCHANGED files /\ UNCHANGED <<job, boot, rt, mishaps, opened>>
  BY DEF vars
<1>2. ProcsOK'
  BY <1>1 DEF Inv, ProcsOK, files
<1>3. LockOK'
  BY <1>1 DEF Inv, LockOK
<1> QED BY <1>1, <1>2, <1>3, KeepPlan

\* Every step keeps the files well formed and the rest of every operation a plan.
LEMMA Inductive == Inv /\ [Next]_vars => Inv'
<1> SUFFICES ASSUME Inv, [Next]_vars PROVE Inv'
  OBVIOUS
<1>1. CASE Locked
  BY <1>1, WriteInv, DoneInv, ExceptInv DEF Locked
<1>2. CASE Bootstrap
  BY <1>2, BootStartInv, SelectInv, EnsureInv, LaunchInv, ReconfirmInv, StopCandidateInv,
     FailPendingInv, RollbackConfirmedInv, ProbeAnswersInv, ConfirmInv DEF Bootstrap
<1>3. CASE PowerLoss \/ BootKilled
  BY <1>3, PowerLossInv, BootKilledInv
<1>4. ASSUME NEW r \in Runtimes,
             \/ ReadBarrier(r) \/ CrossBarrier(r) \/ Refused(r)
             \/ \E code \in ExitCodes : Exits(r, code)
      PROVE  Inv'
  BY <1>4, ReadBarrierInv, CrossBarrierInv, RefusedInv, ExitsInv
<1>5. ASSUME NEW r \in Runtimes, Handling(r) PROVE Inv'
  BY <1>5, DropInv, SwitchInv, AbortInv, ConvergeInv DEF Handling
<1>6. ASSUME NEW r \in Runtimes, Coordinator(r) PROVE Inv'
  BY <1>6, PrepareInv, ResumePrepareInv, DiscardOrphanActiveInv, CancelInv, ActivateInv
     DEF Coordinator
<1>7. CASE UNCHANGED vars
  BY <1>7, Stuttering
<1> QED BY <1>1, <1>2, <1>3, <1>4, <1>5, <1>6, <1>7 DEF Next

\* The invariant has the types ...
LEMMA InvTypes == Inv => TypeOK
<1> SUFFICES ASSUME Inv PROVE TypeOK
  OBVIOUS
<1>1. FilesOK /\ ProcsOK /\ LockOK
  BY DEF Inv
<1>2. /\ active \in ActiveFiles \cup {NoFile} /\ intent \in IntentFiles \cup {NoFile}
      /\ receipt \in ReceiptFiles \cup {NoFile} /\ ptr \in SlotPointers
  BY <1>1, FilesAre DEF Actives, Intents, Receipts, Pointers
<1>3. journal \in [Txns -> InstallStates \cup {"none"}]
  BY <1>1 DEF FilesOK
<1>4. /\ slots \subseteq Versions /\ mishaps \in 0..MaxMishaps /\ opened \subseteq Txns
      /\ job.by \in {"nobody", "boot"} \cup Runtimes
  BY <1>1 DEF ProcsOK, Jobs
<1>5. (boot.pc = "busy" => job.by = "boot") /\ \A r \in Runtimes : rt[r].pc = "busy" => job.by = r
  BY <1>1 DEF LockOK, BootHolds, RtHolds
<1> QED BY <1>2, <1>3, <1>4, <1>5 DEF TypeOK

\* ... and the journal accepting the next write in it.
LEMMA InvAccepts == Inv => JournalNeverRefuses
<1> SUFFICES ASSUME Inv, job.writes # <<>>, Head(job.writes).file = "journal"
             PROVE  Accepted(Head(job.writes))
  BY DEF JournalNeverRefuses
<1> DEFINE w == Head(job.writes)
<1>1. FilesOK /\ job.ok # ""
  BY DEF Inv, LockOK
<1>2. PICK t, b : Starts(t) /\ Plan(job.writes, Edges(t), Nodes(t, job.err), Image(t), b)
  BY <1>1 DEF Inv, PlanOK, Plans
<1>3. PICK c \in Nodes(t, job.err) : Edge(w, t, Image(t), c)
  BY <1>2, PlanTail, EdgesAre
<1> HIDE DEF w
<1>4. w.file = "journal" /\ w.content.txn = t /\ c.st = w.content.state
      /\ Follows(Image(t).st, w.content.state)
  BY <1>3 DEF Edge, Made, w
<1>5. Image(t).st = journal[t]
  BY DEF Image
<1>6. ValidTransition(t, w.content.state)
  <2>1. CASE t = Latest
    <3>1. journal[t] # "none"
      BY <1>1, <2>1 DEF FilesOK, Last
    <3> QED BY <1>4, <1>5, <2>1, <3>1 DEF Follows, ValidTransition
  <2>2. CASE t # Latest
    <3>1. Image(t).st = "none" /\ journal[Latest] \in TerminalStates
      BY <1>1, <1>2, <2>2, StartsAre
    <3> QED BY <1>4, <2>2, <3>1 DEF Follows, ValidTransition
  <2> QED BY <2>1, <2>2
<1> QED BY <1>4, <1>6 DEF Accepted, w

\* The invariant holds in every reachable state.
LEMMA InvHolds == Spec => []Inv
BY Initially, Inductive, PTL DEF Spec

\* Whatever crashes, failed writes and restarts there are, the six files of an
\* installation stay well formed (SlotPointers.from_dict never meets known-good slots
\* that are repeated or too many), and the install lock belongs to the process that is in
\* the middle of an operation: two never are.
THEOREM TypeCorrect == Spec => []TypeOK
BY InvHolds, InvTypes, PTL

\* InstallJournal.append is never asked for a transition that _ALLOWED_TRANSITIONS
\* refuses: for any number of releases, updates and mishaps, each operation, started from
\* whatever files a crash left, journals only what follows from what is there.
THEOREM JournalNeverRefusesCorrect == Spec => []JournalNeverRefuses
BY InvHolds, InvAccepts, PTL
=============================================================================
