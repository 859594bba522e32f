------------------------- MODULE UpdateSafetyProofs -------------------------
(***************************************************************************)
(* Theorems about UpdateActivation, for all its constants: what an update  *)
(* can be undone to stays on disk, nothing is undone behind an open        *)
(* Runtime, and the six files implement VersionSwitch, in every behaviour  *)
(* in which no Runtime outlives its Bootstrap before its data barrier and  *)
(* no release is prepared that is older than the current one. Both can     *)
(* happen, and neither is idle: an unattended Runtime breaks all three     *)
(* statements (the run update_orphan), an older release the last one.      *)
(***************************************************************************)
EXTENDS UpdateActivationProofs

\* No Runtime that outlives its Bootstrap has yet to cross its data barrier. Bootstrap
\* being killed between Launch and CrossBarrier is what makes it false.
Attended == rt["orphan"].pc \notin {"start", "barrier"}

\* A step that prepares a release prepares a newer one. A signed rollback authorization
\* is what makes it false.
Upgrading ==
    \A r \in Runtimes, v \in Versions, outcome \in Outcomes :
        Prepare(r, v, outcome) => v > ptr.current

-----------------------------------------------------------------------------
(* Pointers around a switch *)

\* The slots that pointers need before they can be restored.
Wanted(p) == ({p.current} \cup Good(p)) \ {None}

\* The current slot is known good, and no newer one is.
Trusted(p) == p.current \in Good(p) /\ \A g \in Good(p) : g <= p.current

\* The slot of an intent or a receipt is newer than all its prior pointers retain.
Candidate(x) == Trusted(x.prior) /\ x.slot > x.prior.current

\* It is current, on trial or known good.
Trying(x, p) == p.current = x.slot /\ x.slot \notin Good(p) /\ \A g \in Good(p) : g <= x.slot
Kept(x, p) == p.current = x.slot /\ Trusted(p)

\* What has a slot and prior pointers: intents, and receipts that can be undone.
Trials == {x \in Intents \cup Receipts : x.slot \in Versions /\ x.prior \in Pointers}

\* Releases are numbers, and none is None.
LEMMA VersionsAre == ASSUME NEW v \in Versions PROVE v \in Nat /\ v # None
BY BoundsAssumption DEF Versions, None

\* The slots of pointers are releases.
LEMMA PointersHold ==
    ASSUME NEW p \in Pointers
    PROVE  /\ p \in SlotPointers /\ p.current \in Versions /\ Good(p) \subseteq Versions
           /\ p.current \in Nat /\ \A g \in Good(p) : g \in Nat
<1>1. p \in SlotPointers /\ p.current # None
  BY DEF Pointers
<1>2. p.current \in Versions /\ Good(p) \subseteq Versions
  BY <1>1, GoodIs
<1> QED BY <1>1, <1>2, VersionsAre

\* A candidate is not among its prior pointers.
LEMMA CandidateIs ==
    ASSUME NEW x \in Trials, Candidate(x)
    PROVE  /\ x.slot # x.prior.current /\ x.slot \notin Good(x.prior)
           /\ x.slot \notin Wanted(x.prior) /\ Trusted(x.prior)
           /\ ~Trying(x, x.prior) /\ ~Kept(x, x.prior)
<1>1. x.slot \in Nat /\ x.prior.current \in Nat /\ \A g \in Good(x.prior) : g \in Nat
  BY VersionsAre, PointersHold DEF Trials
<1> QED BY <1>1 DEF Candidate, Trusted, Trying, Kept, Wanted

\* On trial, the pointers are not trusted; kept, they are.
LEMMA TryingIs ==
    ASSUME NEW x, NEW p
    PROVE  /\ Trying(x, p) => p.current = x.slot /\ x.slot \notin Good(p) /\ ~Trusted(p)
                              /\ ~Kept(x, p)
           /\ Kept(x, p) => p.current = x.slot /\ x.slot \in Good(p) /\ Trusted(p)
                            /\ ~Trying(x, p)
BY DEF Trying, Kept, Trusted

\* switch_to puts a candidate on trial.
LEMMA SwitchTries ==
    ASSUME NEW x \in Trials, Candidate(x)
    PROVE  Trying(x, SwitchTo(x.prior, x.slot))
<1> DEFINE p == x.prior
           q == SwitchTo(p, x.slot)
<1>1. /\ x.slot \in Versions /\ p \in SlotPointers /\ p.current \in Versions
      /\ x.slot \in Nat /\ p.current \in Nat /\ (\A g \in Good(p) : g \in Nat)
      /\ p.current # None
  BY VersionsAre, PointersHold DEF Trials
<1>2. x.slot > p.current /\ \A g \in Good(p) : g <= p.current
  BY DEF Candidate, Trusted
<1>3. p.current # x.slot
  BY <1>1, <1>2
<1>4. q.current = x.slot /\ Good(q) \subseteq {p.current} \cup Good(p)
  BY <1>1, <1>3, SwitchToIs
<1> HIDE DEF p, q
<1>5. \A g \in Good(q) : g \in Nat /\ g <= p.current
  BY <1>1, <1>2, <1>4
<1>6. Trying(x, q)
  BY <1>1, <1>2, <1>4, <1>5 DEF Trying
<1> QED BY <1>6 DEF p, q

\* mark_known_good keeps what is no older than the slots retained.
LEMMA MarkKeeps ==
    ASSUME NEW p \in Pointers, NEW x, x.slot \in Versions, \A g \in Good(p) : g <= x.slot
    PROVE  Kept(x, MarkKnownGood(p, x.slot))
<1> DEFINE v == x.slot
           q == MarkKnownGood(p, v)
<1>1. p \in SlotPointers /\ v \in Versions /\ v \in Nat
  BY VersionsAre, PointersHold
<1>2. q.current = v /\ v \in Good(q) /\ Good(q) \subseteq {v} \cup Good(p)
  BY <1>1, MarkKnownGoodIs
<1> HIDE DEF v, q
<1>3. \A g \in Good(q) : g <= v
  BY <1>1, <1>2 DEF v
<1>4. q.current = x.slot /\ Trusted(q)
  BY <1>2, <1>3 DEF v, Trusted
<1> QED BY <1>4 DEF Kept, v, q

-----------------------------------------------------------------------------
(* What the six files say about a switch, between any two writes. *)

Switching == {"activating", "healthchecking"}
Preparing == {"none", "resolving", "downloading", "verifying", "staging", "awaiting_user"}

\* The intent belongs to the transaction t.
Own(t, a) == a.intent # NoFile /\ a.intent.txn = t

\* A confirmed switch that can still be undone, and one that is being undone.
Undoable(a) ==
    a.receipt # NoFile /\ ~a.receipt.barrier
    /\ a.receipt.state \in {"confirmed", "rollback_pending"}
Pend(a) == a.receipt # NoFile /\ a.receipt.state = "rollback_pending"

\* The active transaction: a newer release, and the pointers its drain remembered.
ActiveDeep(t, a) ==
    a.active # NoFile =>
       /\ a.active.slot > a.active.base
       /\ a.active.prior # NoFile =>
             /\ Trusted(a.active.prior) /\ a.active.prior.current = a.active.base
             /\ a.active.txn <= t
             /\ a.active.txn = t => a.st \notin Preparing
             /\ a.active.txn = t /\ a.st \in {"draining", "activating"} /\ ~Own(t, a)
                   => a.active.prior = a.ptr

IntentDeep(t, a) == a.intent # NoFile => Candidate(a.intent) /\ a.intent.txn <= t

\* While t has no intent, its switch has not begun or is over.
ForeignDeep(t, a) ==
    ~Own(t, a) =>
       /\ Trusted(a.ptr) /\ a.st # "healthchecking"
       /\ a.intent # NoFile => a.ptr = a.intent.prior
       /\ a.st = "activating" => a.active # NoFile /\ a.active.txn = t

Matches(t, a) ==
    a.active # NoFile /\ a.active.txn = t
    /\ a.active.slot = a.intent.slot /\ a.active.prior = a.intent.prior

\* While it has one, the pointers are the prior ones, on trial, or kept.
OwnDeep(t, a) ==
    Own(t, a) =>
       /\ a.st \in Switching => Matches(t, a)
       /\ \/ a.ptr = a.intent.prior /\ (\/ a.st \in Switching \cup {"rollback", "failed"}
                                        \/ a.st = "completed" /\ Pend(a))
          \/ Trying(a.intent, a.ptr) /\ a.st \in Switching
          \/ Kept(a.intent, a.ptr) /\ a.st \in {"healthchecking", "completed", "failed"}

Same(i, r) == i.txn = r.txn /\ i.slot = r.slot /\ i.prior = r.prior

\* A receipt of t is of its intent, and its state is that of the journal and the pointers.
ReceiptDeep(t, a) ==
    LET r == a.receipt
    IN  r # NoFile =>
          /\ r.txn <= t /\ (r.txn = t => a.st # "none")
          /\ r.barrier => r.state = "confirmed"
          /\ Undoable(a) => r.txn = t
          /\ r.txn = t /\ r.state # "confirming" /\ ~r.barrier
                => Candidate(r) /\ (a.intent # NoFile => Same(a.intent, r))
          /\ r.txn = t /\ r.state = "confirmed"
                => a.st = "completed" /\ (r.barrier \/ Kept(r, a.ptr))
          /\ r.state = "rollback_pending" =>
                \/ Kept(r, a.ptr) /\ a.st = "completed"
                \/ a.ptr = r.prior /\ a.st \in {"completed", "rollback"}
          /\ r.txn = t /\ r.state = "rolled_back_pre_data"
                => a.st = "rollback" /\ a.ptr = r.prior

Deep(t, a) ==
    ActiveDeep(t, a) /\ IntentDeep(t, a) /\ ForeignDeep(t, a) /\ OwnDeep(t, a)
    /\ ReceiptDeep(t, a)

\* Nothing is left to undo but a candidate that is not known good: so it is as soon as a
\* Runtime is past its barrier.
Calm(t, a) == ~Undoable(a) /\ (Own(t, a) => a.intent.slot \notin Good(a.ptr))

\* The writes that keep it so.
FitsJournal(t, a, s) ==
    \/ s = a.st
    \/ a.st \in Preparing /\ s \in (Preparing \ {"none"}) \cup {"draining"}
    \/ a.st = "draining" /\ s = "activating" /\ a.active # NoFile /\ a.active.txn = t
       /\ a.active.prior # NoFile
    \/ a.st = "activating" /\ s = "healthchecking" /\ Own(t, a)
    \/ a.st = "healthchecking" /\ s = "completed" /\ Kept(a.intent, a.ptr)
    \/ a.st \notin {"none", "completed", "rollback"} /\ s = "failed"
       /\ (Own(t, a) => ~Trying(a.intent, a.ptr))
    \/ a.st \in Switching /\ s = "rollback" /\ Own(t, a) /\ a.ptr = a.intent.prior
    \/ a.st = "completed" /\ s = "rollback" /\ Pend(a) /\ a.ptr = a.receipt.prior

FitsPtr(t, a, p) ==
    \/ /\ Own(t, a) /\ a.st \in Switching
       /\ \/ p = a.intent.prior \/ Trying(a.intent, p)
          \/ a.st = "healthchecking" /\ Kept(a.intent, p)
    \/ Pend(a) /\ p = a.receipt.prior /\ a.st = "completed"

FitsActive(t, a, x) ==
    \/ x = NoFile /\ a.st \notin Switching
    \/ x = a.active
    \/ a.st = "none" /\ x # NoFile /\ x.txn = t /\ x.prior = NoFile /\ x.slot > x.base
    \/ a.st = "draining" /\ a.active # NoFile /\ a.active.txn = t
       /\ x = [a.active EXCEPT !.prior = a.ptr] /\ a.ptr.current = a.active.base

FitsIntent(t, a, i) ==
    \/ i = NoFile /\ Own(t, a) /\ a.st \notin Switching
    \/ i # NoFile /\ a.intent = NoFile /\ a.st = "activating" /\ a.active # NoFile
       /\ i = IntentOf(a.active)

FitsReceipt(t, a, r) ==
    \/ r = a.receipt
    \/ Own(t, a) /\ a.st = "healthchecking" /\ a.ptr.current = a.intent.slot
       /\ r = ReceiptFor(a.intent, "confirming")
    \/ Own(t, a) /\ a.st = "completed" /\ Kept(a.intent, a.ptr)
       /\ r = ReceiptFor(a.intent, "confirmed")
    \/ Undoable(a) /\ a.receipt.state = "confirmed"
       /\ r = [a.receipt EXCEPT !.state = "rollback_pending"]
    \/ Pend(a) /\ a.st = "rollback" /\ r = [a.receipt EXCEPT !.state = "rolled_back_pre_data"]

\* The slot of the candidate is the only one that is discarded while it can be undone.
FitsSlot(t, a, v) == (Own(t, a) => v = a.intent.slot) /\ (Undoable(a) => v = a.receipt.slot)

Fits(w, t, a) ==
    /\ w.file = "journal" => FitsJournal(t, a, w.content.state)
    /\ w.file = "ptr" => FitsPtr(t, a, w.content)
    /\ w.file = "active" => FitsActive(t, a, w.content)
    /\ w.file = "intent" => FitsIntent(t, a, w.content)
    /\ w.file = "receipt" => FitsReceipt(t, a, w.content)
    /\ w.file \in {"discard", "try_discard"} => FitsSlot(t, a, w.content)

\* Those that keep it calm.
Gentle(w, t, a) ==
    /\ w.file = "receipt" => w.content = a.receipt
    /\ w.file = "ptr" /\ Own(t, a) => a.intent.slot \notin Good(w.content)

\* The parts of an image.
LEMMA ImagesAre ==
    ASSUME NEW a \in Images
    PROVE  /\ a.st \in InstallStates \cup {"none"} /\ a.ptr \in Pointers
           /\ a.active \in Actives \cup {NoFile} /\ a.intent \in Intents \cup {NoFile}
           /\ a.receipt \in Receipts \cup {NoFile}
           /\ a = [st |-> a.st, active |-> a.active, ptr |-> a.ptr, intent |-> a.intent,
                   receipt |-> a.receipt]
BY DEF Images

\* Intents, and receipts whose barrier is not crossed, have prior pointers.
LEMMA TrialsAre ==
    /\ \A i \in Intents : i \in Trials
    /\ \A r \in Receipts : ~r.barrier => r \in Trials
<1>1. ASSUME NEW i \in Intents PROVE i \in Trials
  BY IntentsAre DEF Trials
<1>2. ASSUME NEW r \in Receipts, ~r.barrier PROVE r \in Trials
  BY <1>2, ReceiptsAre DEF Trials
<1> QED BY <1>1, <1>2

\* A write of the journal.
LEMMA JournalDeep ==
    ASSUME NEW t \in Txns, NEW a \in Images, NEW b \in Images, Deep(t, a),
           FitsJournal(t, a, b.st), b.active = a.active, b.ptr = a.ptr,
           b.intent = a.intent, b.receipt = a.receipt
    PROVE  Deep(t, b)
<1>1. Own(t, b) = Own(t, a) /\ Undoable(b) = Undoable(a) /\ Pend(b) = Pend(a)
  BY DEF Own, Undoable, Pend
<1>2. \A x, p : Trying(x, p) => ~Kept(x, p)
  BY TryingIs
<1>3. a.intent # NoFile => ~Trying(a.intent, a.intent.prior) /\ ~Kept(a.intent, a.intent.prior)
  BY ImagesAre, TrialsAre, CandidateIs DEF Deep, IntentDeep
<1>4. ActiveDeep(t, b)
  BY <1>1 DEF Deep, ActiveDeep, FitsJournal, Preparing, Switching, Own
<1>5. IntentDeep(t, b)
  BY DEF Deep, IntentDeep
<1>6. ForeignDeep(t, b)
  BY <1>1 DEF Deep, ForeignDeep, FitsJournal, Preparing, Switching, ActiveDeep, Own
<1>7. OwnDeep(t, b)
  <2>1. Own(t, a) /\ Pend(a) => a.receipt.prior = a.intent.prior
    BY DEF Deep, ReceiptDeep, Own, Pend, Undoable, Same
  <2> QED BY <1>1, <1>2, <1>3, <2>1
          DEF Deep, OwnDeep, FitsJournal, Preparing, Switching, Own, Matches
<1>8. ReceiptDeep(t, b)
  BY <1>1, <1>2, <1>3 DEF Deep, ReceiptDeep, FitsJournal, Preparing, Switching, Pend, Undoable
<1> QED BY <1>4, <1>5, <1>6, <1>7, <1>8 DEF Deep

\* A write of the slot pointers.
LEMMA PtrDeep ==
    ASSUME NEW t \in Txns, NEW a \in Images, NEW b \in Images, Deep(t, a), a.st # "none",
           FitsPtr(t, a, b.ptr), b.active = a.active, b.st = a.st,
           b.intent = a.intent, b.receipt = a.receipt
    PROVE  Deep(t, b)
<1>1. Own(t, b) = Own(t, a) /\ Undoable(b) = Undoable(a) /\ Pend(b) = Pend(a)
  BY DEF Own, Undoable, Pend
<1>2. Own(t, a) /\ Pend(a) => a.receipt.prior = a.intent.prior
  BY DEF Deep, ReceiptDeep, Own, Pend, Undoable, Same
<1>3. Pend(a) => Candidate(a.receipt) /\ Trusted(a.receipt.prior) /\ a.receipt.txn = t
  BY DEF Deep, ReceiptDeep, Pend, Undoable, Candidate
<1>4. ActiveDeep(t, b)
  BY <1>1 DEF Deep, ActiveDeep, FitsPtr, Switching
<1>5. IntentDeep(t, b)
  BY DEF Deep, IntentDeep
<1>6. ForeignDeep(t, b)
  BY <1>1, <1>3 DEF Deep, ForeignDeep, FitsPtr, ReceiptDeep, Pend, Undoable, Same
<1>7. OwnDeep(t, b)
  BY <1>1, <1>2 DEF Deep, OwnDeep, FitsPtr, Switching, Own, Matches
<1>8. ReceiptDeep(t, b)
  BY <1>1, <1>3 DEF Deep, ReceiptDeep, FitsPtr, Switching, Pend, Undoable
<1> QED BY <1>4, <1>5, <1>6, <1>7, <1>8 DEF Deep

\* A write of the active transaction.
LEMMA ActiveDeepKept ==
    ASSUME NEW t \in Txns, NEW a \in Images, NEW b \in Images, Deep(t, a),
           FitsActive(t, a, b.active), b.ptr = a.ptr, b.st = a.st,
           b.intent = a.intent, b.receipt = a.receipt
    PROVE  Deep(t, b)
<1>1. Own(t, b) = Own(t, a) /\ Undoable(b) = Undoable(a) /\ Pend(b) = Pend(a)
  BY DEF Own, Undoable, Pend
<1>2. ASSUME a.st = "draining" PROVE ~Own(t, a) /\ Trusted(a.ptr)
  BY <1>2 DEF Deep, OwnDeep, ForeignDeep, Switching
<1>3. t \in Nat
  BY BoundsAssumption DEF Txns
<1>4. ActiveDeep(t, b)
  <2>1. CASE b.active = NoFile
    BY <2>1 DEF ActiveDeep
  <2>2. CASE b.active = a.active
    BY <1>1, <2>2 DEF Deep, ActiveDeep
  <2>3. CASE b.active # NoFile /\ b.active.prior = NoFile /\ b.active.slot > b.active.base
    BY <2>3 DEF ActiveDeep
  <2>4. CASE a.st = "draining" /\ a.active # NoFile /\ a.active.txn = t
             /\ b.active = [a.active EXCEPT !.prior = a.ptr] /\ a.ptr.current = a.active.base
    <3>1. /\ b.active.slot = a.active.slot /\ b.active.base = a.active.base
          /\ b.active.txn = t /\ b.active.prior = a.ptr
      BY <2>4, ImagesAre DEF Actives, ActiveFiles
    <3>2. t <= t
      BY <1>3
    <3> QED BY <1>1, <1>2, <2>4, <3>1, <3>2 DEF Deep, ActiveDeep, Preparing
  <2> QED BY <2>1, <2>2, <2>3, <2>4 DEF FitsActive
<1>5. IntentDeep(t, b)
  BY DEF Deep, IntentDeep
<1>6. ForeignDeep(t, b)
  BY <1>1 DEF Deep, ForeignDeep, FitsActive, Switching
<1>7. OwnDeep(t, b)
  BY <1>1 DEF Deep, OwnDeep, FitsActive, Switching, Matches
<1>8. ReceiptDeep(t, b)
  BY <1>1 DEF Deep, ReceiptDeep
<1> QED BY <1>4, <1>5, <1>6, <1>7, <1>8 DEF Deep

\* An intent that is created is a candidate on top of the pointers as they are.
LEMMA IntentFresh ==
    ASSUME NEW t \in Txns, NEW a \in Images, Deep(t, a), a.intent = NoFile,
           a.st = "activating", a.active # NoFile, NEW i \in Intents, i = IntentOf(a.active)
    PROVE  /\ i.txn = t /\ i.slot = a.active.slot /\ i.prior = a.active.prior
           /\ a.active.txn = t /\ i.prior = a.ptr /\ Candidate(i) /\ i.slot \notin Good(a.ptr)
<1>1. i.txn = a.active.txn /\ i.slot = a.active.slot /\ i.prior = a.active.prior
  BY DEF IntentOf
<1>2. a.active.prior # NoFile
  BY <1>1, IntentsAre, NoFileIs
<1>3. a.active.txn = t /\ a.active.prior = a.ptr
  BY <1>2 DEF Deep, ForeignDeep, ActiveDeep, Own
<1>4. Candidate(i)
  BY <1>1, <1>2 DEF Deep, ActiveDeep, Candidate
<1> QED BY <1>1, <1>3, <1>4, TrialsAre, CandidateIs

\* A write of the activation intent.
LEMMA IntentDeepKept ==
    ASSUME NEW t \in Txns, NEW a \in Images, NEW b \in Images, Deep(t, a),
           FitsIntent(t, a, b.intent), b.ptr = a.ptr, b.st = a.st,
           b.active = a.active, b.receipt = a.receipt
    PROVE  Deep(t, b)
<1>1. Undoable(b) = Undoable(a) /\ Pend(b) = Pend(a) /\ t \in Nat
  BY BoundsAssumption DEF Undoable, Pend, Txns
<1>2. CASE b.intent = NoFile /\ Own(t, a) /\ a.st \notin Switching
  <2>0. ~Own(t, b)
    BY <1>2 DEF Own
  <2>1. Trusted(a.ptr)
    BY <1>2, TryingIs DEF Deep, OwnDeep, IntentDeep, Candidate, Own
  <2>2. a.st \notin {"draining", "activating", "healthchecking"}
    BY <1>2 DEF Deep, OwnDeep, Switching
  <2>3. ActiveDeep(t, b)
    BY <2>2 DEF Deep, ActiveDeep
  <2>4. ForeignDeep(t, b)
    BY <1>2, <2>1, <2>2 DEF ForeignDeep
  <2>5. ReceiptDeep(t, b)
    BY <1>1, <1>2 DEF Deep, ReceiptDeep
  <2> QED BY <1>2, <2>0, <2>3, <2>4, <2>5 DEF Deep, OwnDeep, IntentDeep
<1>3. CASE b.intent # NoFile /\ a.intent = NoFile /\ a.st = "activating"
           /\ a.active # NoFile /\ b.intent = IntentOf(a.active)
  <2>0. b.intent # NoFile /\ b.intent \in Intents
    BY <1>3, ImagesAre
  <2>1. /\ b.intent.txn = t /\ b.intent.slot = a.active.slot
        /\ b.intent.prior = a.active.prior /\ a.active.txn = t /\ b.intent.prior = a.ptr
        /\ Candidate(b.intent)
    BY <1>3, <2>0, IntentFresh
  <2>2. Own(t, b) /\ ~Own(t, a)
    BY <1>3, <2>0, <2>1 DEF Own
  <2>3. ActiveDeep(t, b)
    BY <2>2 DEF Deep, ActiveDeep
  <2>4. IntentDeep(t, b)
    BY <1>1, <2>1 DEF IntentDeep
  <2>5. OwnDeep(t, b)
    BY <1>3, <2>0, <2>1 DEF OwnDeep, Matches, Switching
  <2>6. ReceiptDeep(t, b)
    <3>1. a.receipt # NoFile => a.receipt.state \in {"confirming", "confirmed",
                                        "rollback_pending", "rolled_back_pre_data"}
      BY ImagesAre DEF Receipts, ReceiptFiles
    <3> QED BY <1>1, <1>3, <3>1 DEF Deep, ReceiptDeep
  <2> QED BY <2>2, <2>3, <2>4, <2>5, <2>6 DEF Deep, ForeignDeep
<1> QED BY <1>2, <1>3 DEF FitsIntent

\* The receipt written for an intent, and the receipts that undo one.
LEMMA ReceiptForIs ==
    ASSUME NEW i, NEW s
    PROVE  LET r == ReceiptFor(i, s)
           IN  r.state = s /\ r.txn = i.txn /\ r.slot = i.slot /\ r.prior = i.prior
               /\ ~r.barrier
BY DEF ReceiptFor

\* What is a candidate or kept depends on the slot and the prior pointers.
LEMMA SameTrial ==
    ASSUME NEW x, NEW y, x.slot = y.slot, x.prior = y.prior
    PROVE  (Candidate(x) <=> Candidate(y)) /\ \A p : Kept(x, p) <=> Kept(y, p)
BY DEF Candidate, Kept

\* A write of the receipt.
LEMMA ReceiptDeepKept ==
    ASSUME NEW t \in Txns, NEW a \in Images, NEW b \in Images, Deep(t, a),
           FitsReceipt(t, a, b.receipt), b.ptr = a.ptr, b.st = a.st,
           b.active = a.active, b.intent = a.intent, b.receipt # NoFile
    PROVE  Deep(t, b)
<1> DEFINE r == a.receipt
           q == b.receipt
           i == a.intent
<1>0. t \in Nat /\ t <= t
  BY BoundsAssumption DEF Txns
<1>1. Own(t, b) = Own(t, a)
  BY DEF Own
<1>2. Pend(a) => Undoable(a)
  BY DEF Deep, ReceiptDeep, Pend, Undoable
<1>3. CASE q = r
  <2>1. Undoable(b) = Undoable(a) /\ Pend(b) = Pend(a)
    BY <1>3 DEF Undoable, Pend
  <2>2. ActiveDeep(t, b) /\ IntentDeep(t, b) /\ ForeignDeep(t, b)
    BY <1>1 DEF Deep, ActiveDeep, IntentDeep, ForeignDeep
  <2>3. OwnDeep(t, b)
    BY <1>1, <2>1 DEF Deep, OwnDeep, Matches
  <2>4. ReceiptDeep(t, b)
    BY <1>3, <2>1 DEF Deep, ReceiptDeep
  <2> QED BY <2>2, <2>3, <2>4 DEF Deep
<1>4. ASSUME Own(t, a), NEW s, q = ReceiptFor(i, s),
             \/ s = "confirming" /\ a.st = "healthchecking"
             \/ s = "confirmed" /\ a.st = "completed" /\ Kept(i, a.ptr)
      PROVE  Deep(t, b)
  <2>1. q.state = s /\ q.txn = t /\ q.slot = i.slot /\ q.prior = i.prior /\ ~q.barrier
        /\ i # NoFile /\ i.txn = t
    <3>1. i # NoFile /\ i.txn = t
      BY <1>4 DEF Own
    <3>2. q.state = s /\ q.txn = i.txn /\ q.slot = i.slot /\ q.prior = i.prior /\ ~q.barrier
      BY <1>4, ReceiptForIs
    <3> QED BY <3>1, <3>2
  <2>2. Candidate(q) /\ (Kept(i, a.ptr) => Kept(q, a.ptr))
    BY <2>1, SameTrial DEF Deep, IntentDeep
  <2>3. ActiveDeep(t, b) /\ IntentDeep(t, b) /\ ForeignDeep(t, b)
    BY <1>1 DEF Deep, ActiveDeep, IntentDeep, ForeignDeep
  <2>4. OwnDeep(t, b)
    <3>1. CASE a.st = "healthchecking"
      BY <1>1, <3>1 DEF Deep, OwnDeep, Matches, Switching
    <3>2. CASE Kept(i, a.ptr) /\ a.st = "completed"
      BY <1>1, <3>2 DEF Deep, OwnDeep, Matches, Switching
    <3> QED BY <1>4, <3>1, <3>2
  <2>5. ReceiptDeep(t, b)
    BY <1>0, <1>4, <2>1, <2>2 DEF ReceiptDeep, Same, Undoable
  <2> QED BY <2>3, <2>4, <2>5 DEF Deep
<1>5. ASSUME Undoable(a), NEW s, q = [r EXCEPT !.state = s],
             \/ s = "rollback_pending" /\ r.state = "confirmed"
             \/ s = "rolled_back_pre_data" /\ Pend(a) /\ a.st = "rollback"
      PROVE  Deep(t, b)
  <2>1. r \in Receipts /\ r # NoFile
    BY <1>5, ImagesAre DEF Undoable
  <2>2. q.state = s /\ q.txn = r.txn /\ q.slot = r.slot /\ q.prior = r.prior
        /\ q.barrier = r.barrier /\ ~r.barrier /\ r.txn = t
    <3>1. q.state = s /\ q.txn = r.txn /\ q.slot = r.slot /\ q.prior = r.prior
          /\ q.barrier = r.barrier
      BY <1>5, <2>1, ReceiptsAre
    <3> QED BY <1>5, <3>1 DEF Undoable, Deep, ReceiptDeep
  <2>3. Candidate(r) /\ (i # NoFile => Same(i, r))
    BY <1>5, <2>1, <2>2 DEF Undoable, Deep, ReceiptDeep
  <2>4. Candidate(q) /\ (i # NoFile => Same(i, q)) /\ (Kept(r, a.ptr) => Kept(q, a.ptr))
    BY <2>2, <2>3, SameTrial DEF Same
  <2>5. ActiveDeep(t, b) /\ IntentDeep(t, b) /\ ForeignDeep(t, b)
    BY <1>1 DEF Deep, ActiveDeep, IntentDeep, ForeignDeep
  <2>6. OwnDeep(t, b)
    <3>1. CASE s = "rollback_pending" /\ r.state = "confirmed"
      <4>1. a.st = "completed" /\ Pend(b)
        BY <2>1, <2>2, <3>1 DEF Deep, ReceiptDeep, Pend
      <4> QED BY <1>1, <4>1 DEF Deep, OwnDeep, Matches, Switching
    <3>2. CASE a.st = "rollback"
      BY <1>1, <3>2 DEF Deep, OwnDeep, Matches, Switching
    <3> QED BY <1>5, <3>1, <3>2
  <2>7. CASE s = "rollback_pending" /\ r.state = "confirmed"
    <3>1. Kept(q, a.ptr) /\ a.st = "completed"
      BY <2>1, <2>2, <2>4, <2>7 DEF Deep, ReceiptDeep
    <3>2. ReceiptDeep(t, b)
      BY <1>0, <2>2, <2>4, <2>7, <3>1 DEF ReceiptDeep, Undoable
    <3> QED BY <2>5, <2>6, <3>2 DEF Deep
  <2>8. CASE s = "rolled_back_pre_data" /\ Pend(a) /\ a.st = "rollback"
    <3>1. a.ptr = q.prior
      BY <2>1, <2>2, <2>8 DEF Deep, ReceiptDeep, Pend
    <3>2. ReceiptDeep(t, b)
      BY <1>0, <2>2, <2>4, <2>8, <3>1 DEF ReceiptDeep, Undoable
    <3> QED BY <2>5, <2>6, <3>2 DEF Deep
  <2> QED BY <1>5, <2>7, <2>8
<1> QED BY <1>2, <1>3, <1>4, <1>5 DEF FitsReceipt

-----------------------------------------------------------------------------
(* Courses: plans all of whose images are deep, and calm where they must be. *)

SafeNodes(t, calm) == {a \in Images : Deep(t, a) /\ (calm => Calm(t, a))}

SafeEdges(t, calm) ==
    {e \in Writes \X Images \X Images :
        Edge(e[1], t, e[2], e[3]) /\ Fits(e[1], t, e[2]) /\ (calm => Gentle(e[1], t, e[2]))}

Course(ws, t, calm, a, b) == Plan(ws, SafeEdges(t, calm), SafeNodes(t, calm), a, b)

\* What they are.
LEMMA SafeEdgesAre ==
    ASSUME NEW t, NEW calm, NEW w, NEW a, NEW b
    PROVE  <<w, a, b>> \in SafeEdges(t, calm)
              <=> /\ w \in Writes /\ a \in Images /\ b \in Images /\ Edge(w, t, a, b)
                  /\ Fits(w, t, a) /\ (calm => Gentle(w, t, a))
BY DEF SafeEdges

\* The nodes of a course.
LEMMA SafeNodesAre ==
    ASSUME NEW t, NEW calm, NEW a
    PROVE  a \in SafeNodes(t, calm) <=> a \in Images /\ Deep(t, a) /\ (calm => Calm(t, a))
BY DEF SafeNodes

\* The fields an edge changes.
LEMMA EdgeFields ==
    ASSUME NEW t, NEW w, NEW a \in Images, NEW b, Edge(w, t, a, b)
    PROVE  /\ b.st = IF w.file = "journal" THEN w.content.state ELSE a.st
           /\ b.active = IF w.file = "active" THEN w.content ELSE a.active
           /\ b.ptr = IF w.file = "ptr" THEN w.content ELSE a.ptr
           /\ b.intent = IF w.file = "intent" THEN w.content ELSE a.intent
           /\ b.receipt = IF w.file = "receipt" THEN w.content ELSE a.receipt
           /\ w.file \in {"stage", "discard", "try_discard"} => b = a
<1>1. b = Made(w, a)
  BY DEF Edge
<1> QED BY <1>1, ImagesAre DEF Made

\* A gentle write keeps calm.
LEMMA CalmKept ==
    ASSUME NEW t \in Txns, NEW w, NEW a \in Images, NEW b \in Images, Deep(t, a), Calm(t, a),
           Edge(w, t, a, b), Fits(w, t, a), Gentle(w, t, a)
    PROVE  Calm(t, b)
<1>0. /\ b.ptr = (IF w.file = "ptr" THEN w.content ELSE a.ptr)
      /\ b.intent = (IF w.file = "intent" THEN w.content ELSE a.intent)
      /\ b.receipt = a.receipt
  BY EdgeFields DEF Gentle
<1>1. ~Undoable(b)
  BY <1>0 DEF Calm, Undoable
<1>2. CASE w.file # "ptr" /\ w.file # "intent"
  BY <1>0, <1>1, <1>2 DEF Calm, Own
<1>3. CASE w.file = "ptr"
  BY <1>0, <1>1, <1>3 DEF Calm, Own, Gentle
<1>4. CASE w.file = "intent"
  <2>1. b.ptr = a.ptr /\ FitsIntent(t, a, b.intent)
    BY <1>0, <1>4 DEF Fits
  <2>2. ASSUME Own(t, b) PROVE b.intent.slot \notin Good(a.ptr)
    <3>1. /\ b.intent # NoFile /\ a.intent = NoFile /\ a.st = "activating"
          /\ a.active # NoFile /\ b.intent = IntentOf(a.active) /\ b.intent \in Intents
      BY <2>1, <2>2, ImagesAre DEF FitsIntent, Own
    <3> QED BY <3>1, IntentFresh
  <2> QED BY <1>1, <2>1, <2>2 DEF Calm
<1> QED BY <1>2, <1>3, <1>4

\* A fitting write keeps what the files say.
LEMMA DeepKept ==
    ASSUME NEW t \in Txns, NEW w \in Writes, NEW a \in Images, NEW b \in Images, Deep(t, a),
           Edge(w, t, a, b), Fits(w, t, a), w.file = "receipt" => w.content # NoFile
    PROVE  Deep(t, b)
<1>0. /\ b.st = (IF w.file = "journal" THEN w.content.state ELSE a.st)
      /\ b.active = (IF w.file = "active" THEN w.content ELSE a.active)
      /\ b.ptr = (IF w.file = "ptr" THEN w.content ELSE a.ptr)
      /\ b.intent = (IF w.file = "intent" THEN w.content ELSE a.intent)
      /\ b.receipt = (IF w.file = "receipt" THEN w.content ELSE a.receipt)
      /\ (w.file \in {"stage", "discard", "try_discard"} => b = a)
  BY EdgeFields
<1>1. CASE w.file = "journal"
  BY <1>0, <1>1, JournalDeep DEF Fits
<1>2. CASE w.file = "ptr"
  <2>1. a.st # "none"
    BY <1>2 DEF Edge
  <2> QED BY <1>0, <1>2, <2>1, PtrDeep DEF Fits
<1>3. CASE w.file = "active"
  BY <1>0, <1>3, ActiveDeepKept DEF Fits
<1>4. CASE w.file = "intent"
  BY <1>0, <1>4, IntentDeepKept DEF Fits
<1>5. CASE w.file = "receipt"
  BY <1>0, <1>5, ReceiptDeepKept DEF Fits
<1>6. CASE w.file \in {"stage", "discard", "try_discard"}
  BY <1>0, <1>6
<1>7. w.file # "raise"
  BY DEF Edge
<1> QED BY <1>1, <1>2, <1>3, <1>4, <1>5, <1>6, <1>7 DEF Writes

\* So one fitting write is a course.
LEMMA CourseOne ==
    ASSUME NEW t \in Txns, NEW calm \in BOOLEAN, NEW a \in SafeNodes(t, calm),
           NEW w \in Writes, NEW b \in Images, Edge(w, t, a, b), Fits(w, t, a),
           calm => Gentle(w, t, a), w.file = "receipt" => w.content # NoFile
    PROVE  b \in SafeNodes(t, calm) /\ Course(<<w>>, t, calm, a, b)
<1>1. a \in Images /\ Deep(t, a) /\ (calm => Calm(t, a))
  BY SafeNodesAre
<1>2. Deep(t, b)
  BY <1>1, DeepKept
<1>3. calm => Calm(t, b)
  BY <1>1, CalmKept
<1>4. b \in SafeNodes(t, calm)
  BY <1>2, <1>3, SafeNodesAre
<1>5. <<w, a, b>> \in SafeEdges(t, calm)
  BY <1>1, SafeEdgesAre
<1> QED BY <1>4, <1>5, PlanOne DEF Course

\* One write of each kind: of the journal, ...
LEMMA JournalCourse ==
    ASSUME NEW t \in Txns, NEW calm \in BOOLEAN, NEW a \in SafeNodes(t, calm),
           NEW s \in InstallStates, Follows(a.st, s), FitsJournal(t, a, s)
    PROVE  \E b \in SafeNodes(t, calm) :
              /\ Course(<<JournalTo(t, s)>>, t, calm, a, b) /\ b.st = s
              /\ b.active = a.active /\ b.ptr = a.ptr /\ b.intent = a.intent
              /\ b.receipt = a.receipt
<1> DEFINE w == JournalTo(t, s)
           b == [st |-> s, active |-> a.active, ptr |-> a.ptr, intent |-> a.intent,
                 receipt |-> a.receipt]
<1>1. w \in Writes /\ w.file = "journal" /\ w.content.txn = t /\ w.content.state = s
  BY DEF JournalTo, Put, Writes
<1>2. a \in Images
  BY SafeNodesAre
<1>3. /\ b \in Images /\ b.st = s /\ b.active = a.active /\ b.ptr = a.ptr
      /\ b.intent = a.intent /\ b.receipt = a.receipt
  BY <1>2, ImagesAre DEF Images
<1> HIDE DEF w
<1>4. Edge(w, t, a, b)
  BY <1>1 DEF Edge, Made
<1> HIDE DEF b
<1>5. Fits(w, t, a) /\ Gentle(w, t, a)
  BY <1>1 DEF Fits, Gentle
<1>6. b \in SafeNodes(t, calm) /\ Course(<<w>>, t, calm, a, b)
  BY <1>1, <1>3, <1>4, <1>5, CourseOne
<1> QED BY <1>3, <1>6 DEF w

\* ... the slot pointers, ...
LEMMA PtrCourse ==
    ASSUME NEW t \in Txns, NEW calm \in BOOLEAN, NEW a \in SafeNodes(t, calm),
           NEW p \in Pointers, a.st # "none", FitsPtr(t, a, p),
           calm /\ Own(t, a) => a.intent.slot \notin Good(p)
    PROVE  \E b \in SafeNodes(t, calm) :
              /\ Course(<<Point(p)>>, t, calm, a, b) /\ b.st = a.st
              /\ b.active = a.active /\ b.ptr = p /\ b.intent = a.intent
              /\ b.receipt = a.receipt
<1> DEFINE w == Point(p)
           b == [st |-> a.st, active |-> a.active, ptr |-> p, intent |-> a.intent,
                 receipt |-> a.receipt]
<1>1. w \in Writes /\ w.file = "ptr" /\ w.content = p
  BY DEF Point, Put, Writes
<1>2. a \in Images
  BY SafeNodesAre
<1>3. /\ b \in Images /\ b.st = a.st /\ b.active = a.active /\ b.ptr = p
      /\ b.intent = a.intent /\ b.receipt = a.receipt
  BY <1>2, ImagesAre DEF Images
<1> HIDE DEF w
<1>4. Edge(w, t, a, b)
  BY <1>1 DEF Edge, Made
<1> HIDE DEF b
<1>5. Fits(w, t, a) /\ (calm => Gentle(w, t, a))
  BY <1>1 DEF Fits, Gentle
<1>6. b \in SafeNodes(t, calm) /\ Course(<<w>>, t, calm, a, b)
  BY <1>1, <1>3, <1>4, <1>5, CourseOne
<1> QED BY <1>3, <1>6 DEF w

\* ... the active transaction, ...
LEMMA ActiveCourse ==
    ASSUME NEW t \in Txns, NEW calm \in BOOLEAN, NEW a \in SafeNodes(t, calm),
           NEW x \in Actives \cup {NoFile}, FitsActive(t, a, x)
    PROVE  \E b \in SafeNodes(t, calm) :
              /\ Course(<<Put("active", x)>>, t, calm, a, b) /\ b.st = a.st
              /\ b.active = x /\ b.ptr = a.ptr /\ b.intent = a.intent
              /\ b.receipt = a.receipt
<1> DEFINE w == Put("active", x)
           b == [st |-> a.st, active |-> x, ptr |-> a.ptr, intent |-> a.intent,
                 receipt |-> a.receipt]
<1>1. w \in Writes /\ w.file = "active" /\ w.content = x
  BY DEF Put, Writes
<1>2. a \in Images
  BY SafeNodesAre
<1>3. /\ b \in Images /\ b.st = a.st /\ b.active = x /\ b.ptr = a.ptr
      /\ b.intent = a.intent /\ b.receipt = a.receipt
  BY <1>2, ImagesAre DEF Images
<1> HIDE DEF w
<1>4. Edge(w, t, a, b)
  BY <1>1 DEF Edge, Made
<1> HIDE DEF b
<1>5. Fits(w, t, a) /\ (calm => Gentle(w, t, a))
  BY <1>1 DEF Fits, Gentle
<1>6. b \in SafeNodes(t, calm) /\ Course(<<w>>, t, calm, a, b)
  BY <1>1, <1>3, <1>4, <1>5, CourseOne
<1> QED BY <1>3, <1>6 DEF w

\* ... the intent, ...
LEMMA IntentCourse ==
    ASSUME NEW t \in Txns, NEW calm \in BOOLEAN, NEW a \in SafeNodes(t, calm), a.st # "none",
           NEW i \in Intents \cup {NoFile}, FitsIntent(t, a, i)
    PROVE  \E b \in SafeNodes(t, calm) :
              /\ Course(<<Put("intent", i)>>, t, calm, a, b) /\ b.st = a.st
              /\ b.active = a.active /\ b.ptr = a.ptr /\ b.intent = i
              /\ b.receipt = a.receipt
<1> DEFINE w == Put("intent", i)
           b == [st |-> a.st, active |-> a.active, ptr |-> a.ptr, intent |-> i,
                 receipt |-> a.receipt]
<1>1. w \in Writes /\ w.file = "intent" /\ w.content = i
  BY DEF Put, Writes
<1>2. a \in Images
  BY SafeNodesAre
<1>3. /\ b \in Images /\ b.st = a.st /\ b.active = a.active /\ b.ptr = a.ptr
      /\ b.intent = i /\ b.receipt = a.receipt
  BY <1>2, ImagesAre DEF Images
<1> HIDE DEF w
<1>4. Edge(w, t, a, b)
  BY <1>1 DEF Edge, Made
<1> HIDE DEF b
<1>5. Fits(w, t, a) /\ (calm => Gentle(w, t, a))
  BY <1>1 DEF Fits, Gentle
<1>6. b \in SafeNodes(t, calm) /\ Course(<<w>>, t, calm, a, b)
  BY <1>1, <1>3, <1>4, <1>5, CourseOne
<1> QED BY <1>3, <1>6 DEF w

\* ... the receipt, ...
LEMMA ReceiptCourse ==
    ASSUME NEW t \in Txns, NEW calm \in BOOLEAN, NEW a \in SafeNodes(t, calm), a.st # "none",
           NEW r \in Receipts, FitsReceipt(t, a, r), calm => r = a.receipt
    PROVE  \E b \in SafeNodes(t, calm) :
              /\ Course(<<Put("receipt", r)>>, t, calm, a, b) /\ b.st = a.st
              /\ b.active = a.active /\ b.ptr = a.ptr /\ b.intent = a.intent
              /\ b.receipt = r
<1> DEFINE w == Put("receipt", r)
           b == [st |-> a.st, active |-> a.active, ptr |-> a.ptr, intent |-> a.intent,
                 receipt |-> r]
<1>1. w \in Writes /\ w.file = "receipt" /\ w.content = r /\ r # NoFile
  BY NoFileIs DEF Put, Writes
<1>2. a \in Images
  BY SafeNodesAre
<1>3. /\ b \in Images /\ b.st = a.st /\ b.active = a.active /\ b.ptr = a.ptr
      /\ b.intent = a.intent /\ b.receipt = r
  BY <1>2, ImagesAre DEF Images
<1> HIDE DEF w
<1>4. Edge(w, t, a, b)
  BY <1>1 DEF Edge, Made
<1> HIDE DEF b
<1>5. Fits(w, t, a) /\ (calm => Gentle(w, t, a))
  BY <1>1 DEF Fits, Gentle
<1>6. b \in SafeNodes(t, calm) /\ Course(<<w>>, t, calm, a, b)
  BY <1>1, <1>3, <1>4, <1>5, CourseOne
<1> QED BY <1>3, <1>6 DEF w

\* ... and the slot directories.
LEMMA SlotCourse ==
    ASSUME NEW t \in Txns, NEW calm \in BOOLEAN, NEW a \in SafeNodes(t, calm), a.st # "none",
           NEW v \in Versions, NEW kind \in {"stage", "discard", "try_discard"},
           kind # "stage" => FitsSlot(t, a, v)
    PROVE  Course(<<Put(kind, v)>>, t, calm, a, a)
<1> DEFINE w == Put(kind, v)
<1>1. w \in Writes /\ w.file = kind /\ w.content = v
  BY DEF Put, Writes
<1>2. a \in Images
  BY SafeNodesAre
<1> HIDE DEF w
<1>4. Edge(w, t, a, a)
  BY <1>1, <1>2, ImagesAre DEF Edge, Made
<1>5. Fits(w, t, a) /\ (calm => Gentle(w, t, a))
  BY <1>1 DEF Fits, Gentle
<1>6. Course(<<w>>, t, calm, a, a)
  BY <1>1, <1>2, <1>4, <1>5, CourseOne
<1> QED BY <1>6 DEF w

-----------------------------------------------------------------------------
(* The operations, each as a course *)

\* No writes, a check that fails, writes one after the other or on a condition.
LEMMA CourseNil ==
    ASSUME NEW t, NEW calm, NEW a \in SafeNodes(t, calm) PROVE Course(<<>>, t, calm, a, a)
BY PlanNil DEF Course

\* Courses compose ...
LEMMA CourseConcat ==
    ASSUME NEW t, NEW calm, NEW u, NEW v, NEW a, NEW b, NEW c,
           Course(u, t, calm, a, b), Course(v, t, calm, b, c)
    PROVE  Course(u \o v, t, calm, a, c)
BY PlanConcat DEF Course

\* ... are taken or left out ...
LEMMA CourseIf ==
    ASSUME NEW t, NEW calm, NEW c \in BOOLEAN, NEW ws, NEW a \in SafeNodes(t, calm), NEW b,
           c => Course(ws, t, calm, a, b), ~c => a = b
    PROVE  Course(If(c, ws), t, calm, a, b)
BY PlanIf DEF Course

\* ... and two writes make one ...
LEMMA CourseTwo ==
    ASSUME NEW t, NEW calm, NEW a, NEW b, NEW c, NEW w, NEW x,
           Course(<<w>>, t, calm, a, b), Course(<<x>>, t, calm, b, c)
    PROVE  Course(<<w, x>>, t, calm, a, c)
BY PlanTwo DEF Course

\* ... as four do.
LEMMA CourseFour ==
    ASSUME NEW t, NEW calm, NEW a, NEW b, NEW c, NEW d, NEW e, NEW w, NEW x, NEW y, NEW z,
           Course(<<w>>, t, calm, a, b), Course(<<x>>, t, calm, b, c),
           Course(<<y>>, t, calm, c, d), Course(<<z>>, t, calm, d, e)
    PROVE  Course(<<w, x, y, z>>, t, calm, a, e)
BY PlanTwo, PlanFour DEF Course

\* The writes raise on the way.
Halts(u, t, calm, a) == Stops(u, SafeEdges(t, calm), SafeNodes(t, calm), a)

\* A raise halts a course ...
LEMMA HaltsRaise ==
    ASSUME NEW t, NEW calm, NEW a \in SafeNodes(t, calm), NEW v \in Seq(Writes)
    PROVE  Halts(<<Raise>> \o v, t, calm, a)
BY StopsRaise, StopsConcat DEF Halts

\* ... also after others ...
LEMMA HaltsAfter ==
    ASSUME NEW t, NEW calm, NEW u, NEW v, NEW a, NEW b, Course(u, t, calm, a, b),
           Halts(v, t, calm, b)
    PROVE  Halts(u \o v, t, calm, a)
BY PlanStops DEF Halts, Course

\* ... and one that halts leads nowhere else.
LEMMA HaltsCourse ==
    ASSUME NEW t, NEW calm, NEW u, NEW a, NEW b, Halts(u, t, calm, a)
    PROVE  Course(u, t, calm, a, b)
BY StopsPlan DEF Halts, Course

\* What the switch of t looks like while its intent is there.
LEMMA OwnIs ==
    ASSUME NEW t \in Txns, NEW a \in Images, Deep(t, a), Own(t, a)
    PROVE  /\ a.intent \in Intents /\ a.intent \in Trials /\ a.intent # NoFile
           /\ a.intent.txn = t /\ Candidate(a.intent)
           /\ a.ptr = a.intent.prior \/ Trying(a.intent, a.ptr) \/ Kept(a.intent, a.ptr)
           /\ \A g \in Good(a.ptr) : g <= a.intent.slot
           /\ a.ptr.current = a.intent.slot => Trying(a.intent, a.ptr) \/ Kept(a.intent, a.ptr)
           /\ a.intent.slot \in Good(a.ptr) => Kept(a.intent, a.ptr)
           /\ a.st \notin Switching => ~Trying(a.intent, a.ptr)
<1>1. a.intent \in Intents /\ a.intent \in Trials /\ a.intent # NoFile /\ a.intent.txn = t
      /\ Candidate(a.intent)
  BY ImagesAre, TrialsAre DEF Own, Deep, IntentDeep
<1>2. a.ptr = a.intent.prior \/ Trying(a.intent, a.ptr) \/ Kept(a.intent, a.ptr)
  BY DEF Deep, OwnDeep
<1>3. \A g \in Good(a.ptr) : g <= a.intent.slot
  <2>1. a.intent.slot \in Nat /\ a.intent.prior.current \in Nat
        /\ \A g \in Good(a.intent.prior) : g \in Nat
    BY <1>1, VersionsAre, PointersHold, IntentsAre
  <2>2. CASE a.ptr = a.intent.prior
    BY <1>1, <2>1, <2>2 DEF Candidate, Trusted
  <2>3. CASE Trying(a.intent, a.ptr)
    BY <2>3 DEF Trying
  <2>4. CASE Kept(a.intent, a.ptr)
    BY <2>4 DEF Kept, Trusted
  <2> QED BY <1>2, <2>2, <2>3, <2>4
<1>4. a.ptr.current = a.intent.slot => Trying(a.intent, a.ptr) \/ Kept(a.intent, a.ptr)
  BY <1>1, <1>2, CandidateIs
<1>5. a.intent.slot \in Good(a.ptr) => Kept(a.intent, a.ptr)
  BY <1>1, <1>2, CandidateIs, TryingIs
<1>6. a.st \notin Switching => ~Trying(a.intent, a.ptr)
  BY <1>1, CandidateIs, TryingIs DEF Deep, OwnDeep
<1> QED BY <1>1, <1>2, <1>3, <1>4, <1>5, <1>6

\* A switch that can be undone is confirmed, and of its own intent if there still is one.
LEMMA UndoableIs ==
    ASSUME NEW t \in Txns, NEW a \in Images, Deep(t, a), Undoable(a)
    PROVE  /\ a.receipt \in Receipts /\ a.receipt \in Trials /\ a.receipt # NoFile
           /\ a.receipt.txn = t /\ Candidate(a.receipt) /\ ~a.receipt.barrier
           /\ a.st \in {"completed", "rollback"} /\ a.receipt.prior \in Pointers
           /\ a.intent # NoFile => Own(t, a) /\ Same(a.intent, a.receipt)
<1>1. a.receipt \in Receipts /\ a.receipt # NoFile /\ a.receipt \in Trials
      /\ ~a.receipt.barrier /\ a.receipt.prior \in Pointers
  BY ImagesAre, TrialsAre, ReceiptsAre DEF Undoable
<1>2. a.receipt.txn = t /\ a.receipt.state \in {"confirmed", "rollback_pending"}
  BY <1>1 DEF Deep, ReceiptDeep, Undoable
<1>3. Candidate(a.receipt) /\ (a.intent # NoFile => Same(a.intent, a.receipt))
  BY <1>1, <1>2 DEF Deep, ReceiptDeep
<1>4. a.st \in {"completed", "rollback"}
  BY <1>1, <1>2 DEF Deep, ReceiptDeep
<1> QED BY <1>1, <1>2, <1>3, <1>4 DEF Own, Same

\* Removing the intent and then the active file.
LEMMA CleanupCourse ==
    ASSUME NEW t \in Txns, NEW calm \in BOOLEAN, NEW a \in SafeNodes(t, calm),
           Own(t, a), a.st \notin Switching, a.st # "none"
    PROVE  \E b \in SafeNodes(t, calm) :
              /\ Course(Cleanup, t, calm, a, b) /\ b.st = a.st /\ b.ptr = a.ptr
              /\ b.receipt = a.receipt /\ b.intent = NoFile /\ b.active = NoFile
<1>1. FitsIntent(t, a, NoFile)
  BY DEF FitsIntent
<1>2. PICK m \in SafeNodes(t, calm) :
        /\ Course(<<Put("intent", NoFile)>>, t, calm, a, m) /\ m.st = a.st
        /\ m.ptr = a.ptr /\ m.intent = NoFile /\ m.receipt = a.receipt
  BY <1>1, IntentCourse
<1>3. FitsActive(t, m, NoFile)
  BY <1>2 DEF FitsActive
<1>4. PICK b \in SafeNodes(t, calm) :
        /\ Course(<<Put("active", NoFile)>>, t, calm, m, b) /\ b.st = m.st
        /\ b.active = NoFile /\ b.ptr = m.ptr /\ b.intent = m.intent /\ b.receipt = m.receipt
  BY <1>3, ActiveCourse
<1>5. Course(Cleanup, t, calm, a, b)
  BY <1>2, <1>4, CourseTwo DEF Cleanup, Remove
<1> QED BY <1>2, <1>4, <1>5

\* ensure_pending_current up to its last check, which it passes on trial only.
LEMMA EnsureCourse ==
    ASSUME FilesOK, NEW calm \in BOOLEAN, NEW a \in SafeNodes(Latest, calm),
           Own(Latest, a), a.st = journal[Latest], a.st \in Switching, a.ptr = ptr,
           NEW i, i = a.intent
    PROVE  \E b \in SafeNodes(Latest, calm) :
              /\ b.st = "healthchecking" /\ b.active = a.active /\ b.intent = i
              /\ b.receipt = a.receipt
              /\ \/ Halts(EnsureWrites(i), Latest, calm, a)
                 \/ Course(EnsureWrites(i), Latest, calm, a, b) /\ b.ptr.current = i.slot
<1> DEFINE t == Latest
           starting == journal[i.txn] = "activating"
           after == IF starting /\ ptr = i.prior THEN SwitchTo(ptr, i.slot) ELSE ptr
           raises == after.current # i.slot \/ i.slot \in Good(after)
<1>1. /\ t \in Txns /\ a \in Images /\ Deep(t, a) /\ (calm => Calm(t, a)) /\ ptr \in Pointers
  BY FilesAre, SafeNodesAre
<1>2. i \in Intents /\ i \in Trials /\ i # NoFile /\ i.txn = t /\ Candidate(i)
  BY <1>1, OwnIs
<1>3. starting <=> a.st = "activating"
  BY <1>2
<1>4. after \in Pointers
  BY <1>1, <1>2, PointersMove, IntentsAre
<1>5. after # ptr => starting /\ Trying(i, after)
  BY <1>2, SwitchTries
<1>6. EnsureWrites(i) = If(after # ptr, <<Point(after)>>)
                        \o If(starting, <<JournalTo(t, "healthchecking")>>)
                        \o If(raises, <<Raise>>)
  BY <1>2 DEF EnsureWrites
<1> HIDE DEF t, starting, after
<1>7. PICK m \in SafeNodes(t, calm) :
        /\ Course(If(after # ptr, <<Point(after)>>), t, calm, a, m) /\ m.st = a.st
        /\ m.ptr = after /\ m.intent = i /\ m.receipt = a.receipt /\ m.active = a.active
  <2>1. CASE after # ptr
    <3>1. FitsPtr(t, a, after) /\ i.slot \notin Good(after) /\ a.st # "none"
      BY <1>5, <2>1, TryingIs DEF FitsPtr, Switching, t
    <3>2. PICK m \in SafeNodes(t, calm) :
            /\ Course(<<Point(after)>>, t, calm, a, m) /\ m.st = a.st
            /\ m.ptr = after /\ m.intent = i /\ m.receipt = a.receipt /\ m.active = a.active
      BY <1>1, <1>4, <3>1, PtrCourse DEF t
    <3> QED BY <2>1, <3>2 DEF If
  <2>2. CASE after = ptr
    <3>1. Course(<<>>, t, calm, a, a)
      BY CourseNil DEF t
    <3> QED BY <2>2, <3>1 DEF If, t
  <2> QED BY <2>1, <2>2
<1>8. Own(t, m)
  BY <1>2, <1>7 DEF Own
<1>9. PICK b \in SafeNodes(t, calm) :
        /\ Course(If(starting, <<JournalTo(t, "healthchecking")>>), t, calm, m, b)
        /\ b.st = "healthchecking" /\ b.ptr = after /\ b.intent = i
        /\ b.receipt = a.receipt /\ b.active = a.active
  <2>1. CASE starting
    <3>1. FitsJournal(t, m, "healthchecking") /\ Follows(m.st, "healthchecking")
          /\ "healthchecking" \in InstallStates
      BY <1>3, <1>7, <1>8, <2>1, FollowsIs DEF FitsJournal, InstallStates
    <3>2. PICK b \in SafeNodes(t, calm) :
            /\ Course(<<JournalTo(t, "healthchecking")>>, t, calm, m, b)
            /\ b.st = "healthchecking" /\ b.ptr = m.ptr /\ b.intent = m.intent
            /\ b.receipt = m.receipt /\ b.active = m.active
      BY <1>1, <3>1, JournalCourse
    <3> QED BY <1>7, <2>1, <3>2 DEF If
  <2>2. CASE ~starting
    <3>1. Course(<<>>, t, calm, m, m)
      BY CourseNil
    <3> QED BY <1>3, <1>7, <2>2, <3>1 DEF If, Switching
  <2> QED BY <2>1, <2>2
<1>10. Course(If(after # ptr, <<Point(after)>>)
              \o If(starting, <<JournalTo(t, "healthchecking")>>), t, calm, a, b)
  BY <1>7, <1>9, CourseConcat
<1>11. CASE raises
  <2>1. Halts(<<Raise>>, t, calm, b)
    BY StopsRaise DEF Halts
  <2>2. Halts(EnsureWrites(i), t, calm, a)
    BY <1>6, <1>10, <1>11, <2>1, HaltsAfter DEF If
  <2> QED BY <1>9, <2>2 DEF t
<1>12. CASE ~raises
  <2>1. Course(<<>>, t, calm, b, b)
    BY CourseNil
  <2>2. Course(EnsureWrites(i), t, calm, a, b)
    BY <1>6, <1>10, <1>12, <2>1, CourseConcat DEF If
  <2> QED BY <1>9, <1>12, <2>2 DEF t
<1> QED BY <1>11, <1>12

\* confirm, from healthchecking with the candidate current.
LEMMA ConfirmCourse ==
    ASSUME FilesOK, Deep(Latest, Image(Latest)), Own(Latest, Image(Latest)),
           NEW calm \in BOOLEAN, ~calm,
           NEW a \in SafeNodes(Latest, calm), a.st = "healthchecking", a.intent = intent,
           a.ptr.current = intent.slot
    PROVE  \E b : Course(ConfirmWrites(intent), Latest, calm, a, b)
<1> DEFINE t == Latest
           i == intent
           p == MarkKnownGood(ptr, i.slot)
           S == SafeNodes(t, calm)
<1>1. t \in Txns /\ Image(t) \in Images /\ ptr \in Pointers /\ Image(t).ptr = ptr
      /\ Image(t).intent = intent /\ a \in Images /\ Deep(t, a)
  BY FilesAre, SafeNodesAre DEF FilesOK
<1>2. /\ i \in Intents /\ i # NoFile /\ i.txn = t /\ \A g \in Good(ptr) : g <= i.slot
  BY <1>1, OwnIs
<1>3. i.slot \in Versions /\ ReceiptFor(i, "confirming") \in Receipts
      /\ ReceiptFor(i, "confirmed") \in Receipts
  BY <1>2, IntentsAre
<1>4. p \in Pointers /\ Kept(i, p)
  BY <1>1, <1>2, <1>3, PointersMove, MarkKeeps
<1>5. ConfirmWrites(i) = <<Put("receipt", ReceiptFor(i, "confirming")), Point(p),
                           JournalTo(t, "completed"), Put("receipt", ReceiptFor(i, "confirmed"))>>
                         \o Cleanup
  BY <1>2 DEF ConfirmWrites
<1> HIDE DEF t, i, p
<1>6. PICK c1 \in S : /\ Course(<<Put("receipt", ReceiptFor(i, "confirming"))>>, t, calm, a, c1)
                      /\ c1.st = "healthchecking" /\ c1.ptr = a.ptr /\ c1.intent = i
  <2>1. FitsReceipt(t, a, ReceiptFor(i, "confirming"))
    BY <1>2 DEF FitsReceipt, Own, i
  <2> QED BY <1>1, <1>3, <2>1, ReceiptCourse DEF i, t
<1>7. PICK c2 \in S : /\ Course(<<Point(p)>>, t, calm, c1, c2)
                      /\ c2.st = "healthchecking" /\ c2.ptr = p /\ c2.intent = i
  <2>1. FitsPtr(t, c1, p)
    BY <1>2, <1>4, <1>6 DEF FitsPtr, Own, Switching
  <2> QED BY <1>1, <1>4, <1>6, <2>1, PtrCourse
<1>8. PICK c3 \in S : /\ Course(<<JournalTo(t, "completed")>>, t, calm, c2, c3)
                      /\ c3.st = "completed" /\ c3.ptr = p /\ c3.intent = i
  <2>1. FitsJournal(t, c2, "completed") /\ Follows(c2.st, "completed")
        /\ "completed" \in InstallStates
    BY <1>4, <1>7, FollowsIs DEF FitsJournal, InstallStates, TerminalStates
  <2> QED BY <1>1, <1>7, <2>1, JournalCourse
<1>9. PICK c4 \in S : /\ Course(<<Put("receipt", ReceiptFor(i, "confirmed"))>>, t, calm, c3, c4)
                      /\ c4.st = "completed" /\ c4.ptr = p /\ c4.intent = i
  <2>1. FitsReceipt(t, c3, ReceiptFor(i, "confirmed"))
    BY <1>2, <1>4, <1>8 DEF FitsReceipt, Own
  <2> QED BY <1>1, <1>3, <1>8, <2>1, ReceiptCourse
<1>10. PICK b \in S : Course(Cleanup, t, calm, c4, b)
  <2>1. Own(t, c4) /\ c4.st \notin Switching /\ c4.st # "none"
    BY <1>2, <1>9 DEF Own, Switching
  <2> QED BY <1>1, <2>1, CleanupCourse
<1>11. Course(<<Put("receipt", ReceiptFor(i, "confirming")), Point(p),
                JournalTo(t, "completed"), Put("receipt", ReceiptFor(i, "confirmed"))>>,
              t, calm, a, c4)
  BY <1>6, <1>7, <1>8, <1>9, CourseFour
<1>12. Course(ConfirmWrites(i), t, calm, a, b)
  BY <1>5, <1>10, <1>11, CourseConcat
<1> QED BY <1>12 DEF t, i

\* fail_pre_data, for the intent of the latest transaction.
LEMMA FailCourse ==
    ASSUME FilesOK, NEW calm \in BOOLEAN, Image(Latest) \in SafeNodes(Latest, calm),
           Own(Latest, Image(Latest)), journal[Latest] \in Switching
    PROVE  \E b : Course(FailWrites(intent), Latest, calm, Image(Latest), b)
<1> DEFINE t == Latest
           a == Image(t)
           i == intent
           S == SafeNodes(t, calm)
<1>1. /\ t \in Txns /\ a \in Images /\ Deep(t, a) /\ (calm => Calm(t, a)) /\ a.ptr = ptr
      /\ a.intent = i /\ a.st = journal[t] /\ a.receipt = receipt /\ a.st \in Switching
      /\ Own(t, a) /\ a \in S
  BY FilesAre, SafeNodesAre
<1>2. /\ i \in Intents /\ i \in Trials /\ i # NoFile /\ i.txn = t /\ Candidate(i)
      /\ i.slot \in Good(a.ptr) => Kept(i, a.ptr)
  BY <1>1, OwnIs
<1>3. ~(receipt # NoFile /\ receipt.txn = i.txn /\ receipt.barrier) /\ ~Undoable(a)
  <2>1. ASSUME receipt # NoFile, receipt.txn = i.txn, receipt.barrier PROVE FALSE
    BY <1>1, <1>2, <2>1 DEF Deep, ReceiptDeep, Switching
  <2>2. ~Undoable(a)
    BY <1>1, UndoableIs DEF Switching
  <2> QED BY <2>1, <2>2
<1>4. CASE i.slot \in Good(ptr)
  <2>1. FailWrites(i) = <<JournalTo(t, "failed")>> \o Cleanup
    BY <1>2, <1>4 DEF FailWrites
  <2> HIDE DEF t, a, i
  <2>2. FitsJournal(t, a, "failed") /\ Follows(a.st, "failed") /\ "failed" \in InstallStates
    BY <1>1, <1>2, <1>4, FollowsIs, TryingIs
    DEF FitsJournal, Switching, InstallStates, TerminalStates
  <2>3. PICK c \in S : /\ Course(<<JournalTo(t, "failed")>>, t, calm, a, c) /\ c.st = "failed"
                       /\ c.intent = a.intent
    BY <1>1, <2>2, JournalCourse
  <2>4. Own(t, c) /\ c.st \notin Switching /\ c.st # "none"
    BY <1>1, <2>3 DEF Own, Switching
  <2>5. PICK b \in S : Course(Cleanup, t, calm, c, b)
    BY <1>1, <2>4, CleanupCourse
  <2>6. Course(FailWrites(i), t, calm, a, b)
    BY <2>1, <2>3, <2>5, CourseConcat
  <2> QED BY <2>6 DEF t, a, i
<1>5. CASE i.slot \notin Good(ptr)
  <2>1. FailWrites(i) = If(~PriorValid(i.prior), <<Raise>>)
                        \o <<Point(i.prior), JournalTo(t, "rollback")>>
                        \o Cleanup \o <<TryDiscard(i.slot)>>
    BY <1>2, <1>3, <1>5 DEF FailWrites
  <2>2. i.prior \in Pointers /\ i.slot \in Versions
    BY <1>2, IntentsAre
  <2>3. Course(If(~PriorValid(i.prior), <<Raise>>), t, calm, a, a)
    BY <1>1, PlanRaise, PlanIf DEF Course, PriorValid
  <2> HIDE DEF t, a, i
  <2>4. PICK c \in S : /\ Course(<<Point(i.prior)>>, t, calm, a, c) /\ c.st = a.st
                       /\ c.ptr = i.prior /\ c.intent = i /\ c.receipt = a.receipt
    <3>1. FitsPtr(t, a, i.prior) /\ i.slot \notin Good(i.prior) /\ a.st # "none"
      BY <1>1, <1>2, CandidateIs DEF FitsPtr, Switching
    <3> QED BY <1>1, <2>2, <3>1, PtrCourse
  <2>5. PICK d \in S : /\ Course(<<JournalTo(t, "rollback")>>, t, calm, c, d)
                       /\ d.st = "rollback" /\ d.intent = i /\ d.receipt = a.receipt
    <3>1. FitsJournal(t, c, "rollback") /\ Follows(c.st, "rollback")
          /\ "rollback" \in InstallStates
      BY <1>1, <1>2, <2>4, FollowsIs
      DEF FitsJournal, Own, Switching, InstallStates, TerminalStates
    <3> QED BY <1>1, <2>4, <3>1, JournalCourse
  <2>6. PICK b \in S : /\ Course(Cleanup, t, calm, d, b) /\ b.st = "rollback"
                       /\ b.intent = NoFile /\ b.receipt = a.receipt
    <3>1. Own(t, d) /\ d.st \notin Switching /\ d.st # "none"
      BY <1>2, <2>5 DEF Own, Switching
    <3> QED BY <1>1, <2>5, <3>1, CleanupCourse
  <2>7. Course(<<TryDiscard(i.slot)>>, t, calm, b, b)
    <3>1. FitsSlot(t, b, i.slot)
      BY <1>3, <2>6 DEF FitsSlot, Own, Undoable
    <3> QED BY <1>1, <2>2, <2>6, <3>1, SlotCourse DEF TryDiscard
  <2>8. Course(<<Point(i.prior), JournalTo(t, "rollback")>>, t, calm, a, d)
    BY <2>4, <2>5, CourseTwo
  <2>9. Course(If(~PriorValid(i.prior), <<Raise>>)
               \o <<Point(i.prior), JournalTo(t, "rollback")>>
               \o Cleanup \o <<TryDiscard(i.slot)>>, t, calm, a, b)
    BY <2>3, <2>6, <2>7, <2>8, CourseConcat
  <2>10. Course(FailWrites(i), t, calm, a, b)
    BY <2>1, <2>9
  <2> QED BY <2>10 DEF t, a, i
<1> QED BY <1>4, <1>5

\* _finish_confirmed_pre_data_rollback
LEMMA FinishCourse ==
    ASSUME FilesOK, NEW calm \in BOOLEAN, NEW a \in SafeNodes(Latest, calm),
           a.ptr = ptr, a.st = journal[Latest], NEW r, r = a.receipt, r # NoFile,
           r.state \in {"rollback_pending", "rolled_back_pre_data"}, r.txn = Latest, ~r.barrier
    PROVE  \E b : Course(FinishWrites(r), Latest, calm, a, b)
<1> DEFINE t == Latest
           S == SafeNodes(t, calm)
           q == [r EXCEPT !.state = "rolled_back_pre_data"]
           back == ptr.current = r.slot
           open == journal[r.txn] = "completed"
<1>1. /\ t \in Txns /\ a \in Images /\ Deep(t, a) /\ (calm => Calm(t, a)) /\ a \in S
      /\ a.st \in InstallStates /\ a.st # "none"
  BY FilesAre, SafeNodesAre
<1>2. r \in Receipts /\ r \in Trials /\ r.slot \in Versions /\ r.prior \in Pointers
      /\ q \in Receipts
  BY <1>1, ImagesAre, TrialsAre, ReceiptsAre
<1>3. Candidate(r) /\ (a.intent # NoFile => Same(a.intent, r))
  BY <1>1 DEF Deep, ReceiptDeep
<1>4. FinishWrites(r) = If(back, <<Point(r.prior)>>) \o If(open, <<JournalTo(t, "rollback")>>)
                        \o <<Put("receipt", q), TryDiscard(r.slot)>>
  BY DEF FinishWrites
<1>5. open <=> a.st = "completed"
  OBVIOUS
<1>6. r.state = "rolled_back_pre_data" => q = r
  BY <1>2 DEF Receipts, ReceiptFiles
<1>7. /\ r.state = "rollback_pending" =>
           /\ ~calm /\ Pend(a) /\ (~back => a.ptr = r.prior)
           /\ (back => a.st = "completed") /\ a.st \in {"completed", "rollback"}
      /\ r.state = "rolled_back_pre_data" => a.st = "rollback" /\ a.ptr = r.prior /\ ~back
  <2>1. ASSUME r.state = "rollback_pending"
        PROVE  /\ ~calm /\ Pend(a) /\ (~back => a.ptr = r.prior)
               /\ (back => a.st = "completed") /\ a.st \in {"completed", "rollback"}
    <3>1. Undoable(a) /\ Pend(a)
      BY <2>1 DEF Undoable, Pend
    <3>2. ~calm
      BY <1>1, <3>1 DEF Calm
    <3>3. \/ Kept(r, a.ptr) /\ a.st = "completed"
          \/ a.ptr = r.prior /\ a.st \in {"completed", "rollback"}
      BY <1>1, <2>1 DEF Deep, ReceiptDeep
    <3>4. r.prior.current # r.slot
      BY <1>2, <1>3, CandidateIs
    <3> QED BY <3>1, <3>2, <3>3, <3>4, TryingIs
  <2>2. ASSUME r.state = "rolled_back_pre_data"
        PROVE  a.st = "rollback" /\ a.ptr = r.prior /\ ~back
    <3>1. a.st = "rollback" /\ a.ptr = r.prior
      BY <1>1, <2>2 DEF Deep, ReceiptDeep
    <3> QED BY <1>2, <1>3, <3>1, CandidateIs
  <2> QED BY <2>1, <2>2
<1> HIDE DEF t, q, back, open
<1>8. PICK c \in S : /\ Course(If(back, <<Point(r.prior)>>), t, calm, a, c) /\ c.st = a.st
                     /\ c.ptr = r.prior /\ c.intent = a.intent /\ c.receipt = r
  <2>1. CASE back
    <3>1. FitsPtr(t, a, r.prior) /\ ~calm
      BY <1>7, <2>1 DEF FitsPtr
    <3>2. PICK c \in S : /\ Course(<<Point(r.prior)>>, t, calm, a, c) /\ c.st = a.st
                         /\ c.ptr = r.prior /\ c.intent = a.intent /\ c.receipt = r
      BY <1>1, <1>2, <3>1, PtrCourse
    <3> QED BY <2>1, <3>2 DEF If
  <2>2. CASE ~back
    <3>1. Course(<<>>, t, calm, a, a) /\ a.ptr = r.prior
      BY <1>1, <1>7, <2>2, CourseNil
    <3> QED BY <1>1, <2>2, <3>1 DEF If
  <2> QED BY <2>1, <2>2
<1>9. PICK d \in S : /\ Course(If(open, <<JournalTo(t, "rollback")>>), t, calm, c, d)
                     /\ d.st = "rollback" /\ d.ptr = r.prior /\ d.intent = a.intent
                     /\ d.receipt = r
  <2>1. CASE open
    <3>1. FitsJournal(t, c, "rollback") /\ Follows(c.st, "rollback")
          /\ "rollback" \in InstallStates
      BY <1>5, <1>7, <1>8, <2>1, FollowsIs
      DEF FitsJournal, Pend, InstallStates, TerminalStates
    <3>2. PICK d \in S : /\ Course(<<JournalTo(t, "rollback")>>, t, calm, c, d)
                         /\ d.st = "rollback" /\ d.ptr = c.ptr /\ d.intent = c.intent
                         /\ d.receipt = c.receipt
      BY <1>1, <1>8, <3>1, JournalCourse
    <3> QED BY <1>8, <2>1, <3>2 DEF If
  <2>2. CASE ~open
    <3>1. Course(<<>>, t, calm, c, c) /\ c.st = "rollback"
      BY <1>5, <1>7, <1>8, <2>2, CourseNil
    <3> QED BY <1>8, <2>2, <3>1 DEF If
  <2> QED BY <2>1, <2>2
<1>10. PICK b \in S : /\ Course(<<Put("receipt", q)>>, t, calm, d, b) /\ b.st = "rollback"
                      /\ b.intent = a.intent /\ b.receipt = q
  <2>1. FitsReceipt(t, d, q) /\ (calm => q = d.receipt)
    BY <1>6, <1>7, <1>9 DEF FitsReceipt, Pend, q
  <2> QED BY <1>1, <1>2, <1>9, <2>1, ReceiptCourse
<1>11. Course(<<TryDiscard(r.slot)>>, t, calm, b, b)
  <2>1. q.slot = r.slot
    BY <1>2, ReceiptsAre DEF q
  <2>2. FitsSlot(t, b, r.slot)
    BY <1>3, <1>10, <2>1 DEF FitsSlot, Own, Same
  <2> QED BY <1>1, <1>2, <1>10, <2>2, SlotCourse DEF TryDiscard
<1>12. Course(<<Put("receipt", q), TryDiscard(r.slot)>>, t, calm, d, b)
  BY <1>10, <1>11, CourseTwo
<1>13. Course(FinishWrites(r), t, calm, a, b)
  BY <1>4, <1>8, <1>9, <1>12, CourseConcat
<1> QED BY <1>13 DEF t

\* rollback_confirmed_pre_data
LEMMA RollbackCourse ==
    ASSUME FilesOK, NEW calm \in BOOLEAN, Image(Latest) \in SafeNodes(Latest, calm),
           RollbackOffered
    PROVE  \E b : Course(RollbackWrites(receipt), Latest, calm, Image(Latest), b)
<1> DEFINE t == Latest
           a == Image(t)
           r == [receipt EXCEPT !.state = "rollback_pending"]
<1>1. /\ t \in Txns /\ a \in Images /\ Deep(t, a) /\ (calm => Calm(t, a)) /\ a.ptr = ptr
      /\ a.st = journal[t] /\ a.receipt = receipt /\ a.st # "none"
  BY FilesAre, SafeNodesAre
<1>2. Undoable(a) /\ receipt.state = "confirmed"
  BY <1>1 DEF Undoable, RollbackOffered
<1>3. ~calm /\ receipt \in Receipts /\ receipt.txn = t /\ ~receipt.barrier
  BY <1>1, <1>2, UndoableIs DEF Calm
<1>4. r \in Receipts /\ r.state = "rollback_pending" /\ r.txn = t /\ ~r.barrier
  <2>1. r \in Receipts /\ r.state = "rollback_pending" /\ r.txn = receipt.txn
        /\ r.barrier = receipt.barrier
    BY <1>3, ReceiptsAre
  <2> QED BY <1>3, <2>1
<1>5. FitsReceipt(t, a, r)
  BY <1>1, <1>2 DEF FitsReceipt
<1>6. RollbackWrites(receipt) = <<Put("receipt", r)>> \o FinishWrites(r)
  BY DEF RollbackWrites
<1> HIDE DEF r
<1>7. PICK c \in SafeNodes(t, calm) :
        /\ Course(<<Put("receipt", r)>>, t, calm, a, c) /\ c.st = a.st
        /\ c.ptr = a.ptr /\ c.receipt = r
  BY <1>1, <1>3, <1>4, <1>5, ReceiptCourse
<1>8. PICK b : Course(FinishWrites(r), t, calm, c, b)
  <2>1. r # NoFile
    BY <1>4, NoFileIs
  <2> QED BY <1>1, <1>4, <1>7, <2>1, FinishCourse
<1>9. Course(RollbackWrites(receipt), t, calm, a, b)
  BY <1>6, <1>7, <1>8, CourseConcat
<1> QED BY <1>9

\* reconcile_confirmation, where it does not raise.
LEMMA ReconcileCourse ==
    ASSUME FilesOK, NEW calm \in BOOLEAN, Image(Latest) \in SafeNodes(Latest, calm),
           ~ReconcileRaises
    PROVE  \E b : Course(ReconcileWrites, Latest, calm, Image(Latest), b)
<1> DEFINE t == Latest
           a == Image(t)
           i == intent
           S == SafeNodes(t, calm)
<1>1. /\ t \in Txns /\ a \in Images /\ Deep(t, a) /\ (calm => Calm(t, a)) /\ a.ptr = ptr
      /\ a.intent = i /\ a.st = journal[t] /\ a.receipt = receipt /\ a \in S
      /\ a.st # "none"
  BY FilesAre, SafeNodesAre
<1>2. CASE intent = NoFile
  <2>1. CASE RollbackUnfinished
    <3>1. /\ receipt # NoFile /\ receipt.txn = t /\ ~receipt.barrier
          /\ receipt.state \in {"rollback_pending", "rolled_back_pre_data"}
      BY <1>2, <2>1 DEF RollbackUnfinished, ReconcileRaises, FinishRaises
    <3>2. PICK b : Course(FinishWrites(receipt), t, calm, a, b)
      BY <1>1, <3>1, FinishCourse
    <3>3. ReconcileWrites = FinishWrites(receipt)
      BY <1>2, <2>1 DEF ReconcileWrites, If
    <3> QED BY <3>2, <3>3
  <2>2. CASE ~RollbackUnfinished
    <3>1. ReconcileWrites = <<>>
      BY <1>2, <2>2 DEF ReconcileWrites, If
    <3> QED BY <1>1, <3>1, CourseNil
  <2> QED BY <2>1, <2>2
<1>3. CASE intent # NoFile /\ Undone(intent)
  <2>1. Own(t, a) /\ a.st \notin Switching
    BY <1>1, <1>3 DEF Undone, Own, Switching
  <2>2. i \in Intents /\ i.slot \in Versions
    BY <1>1, <2>1, OwnIs, IntentsAre
  <2>3. PICK b \in S : /\ Course(Cleanup, t, calm, a, b) /\ b.st = a.st
                       /\ b.receipt = a.receipt /\ b.intent = NoFile
    BY <1>1, <2>1, CleanupCourse
  <2>4. FitsSlot(t, b, i.slot)
    <3>1. Undoable(b) => Undoable(a)
      BY <2>3 DEF Undoable
    <3>2. Undoable(b) => i.slot = b.receipt.slot
      BY <1>1, <1>3, <2>3, <3>1, UndoableIs DEF Same
    <3> QED BY <2>3, <3>2 DEF FitsSlot, Own
  <2>5. Course(<<TryDiscard(i.slot)>>, t, calm, b, b)
    BY <1>1, <2>2, <2>3, <2>4, SlotCourse DEF TryDiscard
  <2>6. ReconcileWrites = Cleanup \o <<TryDiscard(i.slot)>>
    BY <1>3 DEF ReconcileWrites
  <2> QED BY <2>3, <2>5, <2>6, CourseConcat
<1>4. CASE intent # NoFile /\ ~Undone(intent) /\ RolledForward(intent)
  <2>1. Own(t, a) /\ a.st \notin Switching
    BY <1>1, <1>4 DEF RolledForward, Own, Switching
  <2>2. PICK b \in S : Course(Cleanup, t, calm, a, b)
    BY <1>1, <2>1, CleanupCourse
  <2>3. ReconcileWrites = Cleanup
    BY <1>4 DEF ReconcileWrites
  <2> QED BY <2>2, <2>3
<1>5. CASE intent # NoFile /\ ~Undone(intent) /\ ~RolledForward(intent)
           /\ ~ConfirmedInPart(intent)
  <2>1. ReconcileWrites = <<>>
    BY <1>5 DEF ReconcileWrites, If
  <2> QED BY <1>1, <2>1, CourseNil
<1>6. CASE intent # NoFile /\ ~Undone(intent) /\ ~RolledForward(intent)
           /\ ConfirmedInPart(intent)
  <2>1. /\ t = i.txn /\ a.st \in {"healthchecking", "completed"}
        /\ a.ptr.current = i.slot /\ i.slot \in Good(a.ptr)
    BY <1>1, <1>6 DEF ReconcileRaises, ConfirmedInPart, KeptGood
  <2>2. Own(t, a)
    BY <1>1, <1>6, <2>1 DEF Own
  <2>3. Kept(i, a.ptr) /\ i \in Intents /\ ReceiptFor(i, "confirmed") \in Receipts /\ ~calm
    <3>1. Kept(i, a.ptr) /\ i \in Intents
      BY <1>1, <2>1, <2>2, OwnIs
    <3>2. ~calm
      BY <1>1, <2>1, <2>2 DEF Calm
    <3> QED BY <3>1, <3>2, IntentsAre
  <2>4. ReconcileWrites = If(a.st = "healthchecking", <<JournalTo(t, "completed")>>)
                          \o <<Put("receipt", ReceiptFor(i, "confirmed"))>> \o Cleanup
    <3>1. journal[i.txn] = a.st /\ i.txn = t
      BY <1>1, <2>1
    <3> QED BY <1>6, <3>1 DEF ReconcileWrites, If
  <2> HIDE DEF t, a, i
  <2>5. PICK c \in S : /\ Course(If(a.st = "healthchecking", <<JournalTo(t, "completed")>>),
                                 t, calm, a, c)
                       /\ c.st = "completed" /\ c.ptr = a.ptr /\ c.intent = i
    <3>1. CASE a.st = "healthchecking"
      <4>1. FitsJournal(t, a, "completed") /\ Follows(a.st, "completed")
            /\ "completed" \in InstallStates
        BY <1>1, <2>3, <3>1, FollowsIs DEF FitsJournal, InstallStates, TerminalStates
      <4>2. PICK c \in S : /\ Course(<<JournalTo(t, "completed")>>, t, calm, a, c)
                           /\ c.st = "completed" /\ c.ptr = a.ptr /\ c.intent = a.intent
        BY <1>1, <4>1, JournalCourse
      <4> QED BY <1>1, <3>1, <4>2 DEF If
    <3>2. CASE a.st # "healthchecking"
      <4>1. Course(<<>>, t, calm, a, a) /\ a.st = "completed"
        BY <1>1, <2>1, <3>2, CourseNil
      <4> QED BY <1>1, <3>2, <4>1 DEF If
    <3> QED BY <3>1, <3>2
  <2>6. PICK d \in S : /\ Course(<<Put("receipt", ReceiptFor(i, "confirmed"))>>, t, calm, c, d)
                       /\ d.st = "completed" /\ d.intent = i
    <3>1. FitsReceipt(t, c, ReceiptFor(i, "confirmed"))
      BY <1>1, <2>2, <2>3, <2>5 DEF FitsReceipt, Own
    <3> QED BY <1>1, <2>3, <2>5, <3>1, ReceiptCourse
  <2>7. PICK b \in S : Course(Cleanup, t, calm, d, b)
    <3>1. Own(t, d) /\ d.st \notin Switching /\ d.st # "none"
      BY <1>1, <2>2, <2>6 DEF Own, Switching
    <3> QED BY <1>1, <3>1, CleanupCourse
  <2>8. Course(ReconcileWrites, t, calm, a, b)
    BY <2>4, <2>5, <2>6, <2>7, CourseConcat
  <2> QED BY <2>8 DEF t, a
<1> QED BY <1>2, <1>3, <1>4, <1>5, <1>6

\* The writes that an operation has still to make.
Courses(ws, calm) == \E t, b : Starts(t) /\ Course(ws, t, calm, Image(t), b)

\* An operation on the latest transaction.
LEMMA CoursesLatest ==
    ASSUME FilesOK, NEW ws, NEW calm, NEW b, Course(ws, Latest, calm, Image(Latest), b)
    PROVE  Courses(ws, calm)
BY FilesAre DEF Courses

\* create_intent and ensure_pending_current, under one try (Switch).
LEMMA SwitchCourse ==
    ASSUME FilesOK, NEW calm \in BOOLEAN, Image(Latest) \in SafeNodes(Latest, calm),
           AtPC("switch", Latest, Image(Latest))
    PROVE  LET i == IntentOf(active)
           IN  Courses(If(intent # NoFile /\ intent # i, <<Raise>>)
                       \o If(intent = NoFile, <<Put("intent", i)>>)
                       \o If(EnsureRaises(i), <<Raise>>)
                       \o EnsureWrites(i)
                       \o <<Put("active", active)>>, calm)
<1> DEFINE t == Latest
           a == Image(t)
           i == IntentOf(active)
           S == SafeNodes(t, calm)
           w1 == If(intent # NoFile /\ intent # i, <<Raise>>)
           w2 == If(intent = NoFile, <<Put("intent", i)>>)
           w3 == If(EnsureRaises(i), <<Raise>>)
           w4 == EnsureWrites(i)
           w5 == <<Put("active", active)>>
<1>1. /\ t \in Txns /\ a \in Images /\ Deep(t, a) /\ a \in S
      /\ a.st = "activating" /\ a.st = journal[t] /\ a.ptr = ptr /\ a.intent = intent
      /\ a.active = active /\ active \in Actives /\ active.txn = t /\ active # NoFile
      /\ active.prior \in Pointers /\ intent \in Intents \cup {NoFile}
  BY FilesAre, SafeNodesAre DEF FilesOK, AtPC, Actives, Ready
<1>2. i \in Intents /\ i.txn = t /\ i # NoFile
  <2>1. i \in Intents /\ i.txn = t
    BY <1>1, ActivesAre DEF IntentOf, Intents, IntentFiles, Pointers
  <2> QED BY <2>1, NoFileIs
<1>3. w2 \in Seq(Writes) /\ w3 \in Seq(Writes) /\ w4 \in Seq(Writes) /\ w5 \in Seq(Writes)
  <2>1. Put("active", active) \in Writes /\ Put("intent", i) \in Writes /\ Raise \in Writes
    BY <1>1, <1>2 DEF Put, Raise, Writes
  <2> QED BY <1>2, <2>1, EnsureWritesAre DEF If
<1>a. ASSUME NEW u \in Seq(Writes), NEW v \in Seq(Writes) PROVE u \o v \in Seq(Writes)
  OBVIOUS
<1>4. CASE intent # NoFile /\ intent # i
  <2>1. w1 = <<Raise>>
    BY <1>4 DEF If
  <2> HIDE DEF w1, w2, w3, w4, w5
  <2>2. Halts(<<Raise>>, t, calm, a)
    BY <1>1, StopsRaise DEF Halts
  <2>3. Halts(w1 \o w2 \o w3 \o w4 \o w5, t, calm, a)
    BY <1>3, <2>1, <2>2, StopsConcat DEF Halts
  <2>4. Courses(w1 \o w2 \o w3 \o w4 \o w5, calm)
    BY <2>3, HaltsCourse, CoursesLatest
  <2> QED BY <2>4 DEF w1, w2, w3, w4, w5
<1>5. CASE ~(intent # NoFile /\ intent # i)
  <2>1. Course(w1, t, calm, a, a)
    BY <1>1, <1>5, CourseNil DEF If
  <2>2. PICK c \in S : /\ Course(w2, t, calm, a, c) /\ c.st = a.st /\ c.ptr = a.ptr
                       /\ c.active = a.active /\ c.intent = i
    <3>1. CASE intent = NoFile
      <4>1. FitsIntent(t, a, i)
        BY <1>1, <1>2, <3>1 DEF FitsIntent
      <4> HIDE DEF i, a
      <4>2. PICK c \in S : /\ Course(<<Put("intent", i)>>, t, calm, a, c) /\ c.st = a.st
                           /\ c.ptr = a.ptr /\ c.active = a.active /\ c.intent = i
        BY <1>1, <1>2, <4>1, IntentCourse
      <4> QED BY <3>1, <4>2 DEF If
    <3>2. CASE intent # NoFile
      <4>1. Course(<<>>, t, calm, a, a)
        BY <1>1, CourseNil
      <4> QED BY <1>1, <1>5, <3>2, <4>1 DEF If
    <3> QED BY <3>1, <3>2
  <2>3. Own(t, c)
    BY <1>2, <2>2 DEF Own
  <2>4. CASE EnsureRaises(i)
    <3>1. w3 = <<Raise>>
      BY <2>4 DEF If
    <3> HIDE DEF w1, w2, w3, w4, w5, i, a
    <3>2. Halts(w3, t, calm, c)
      BY <3>1, StopsRaise DEF Halts
    <3>3. Course(w1 \o w2, t, calm, a, c)
      BY <2>1, <2>2, CourseConcat
    <3>4. Halts(w1 \o w2 \o w3, t, calm, a)
      BY <3>2, <3>3, HaltsAfter
    <3>5. Halts(w1 \o w2 \o w3 \o w4 \o w5, t, calm, a)
      BY <1>3, <3>4, StopsConcat DEF Halts
    <3>6. Courses(w1 \o w2 \o w3 \o w4 \o w5, calm)
      BY <3>5, HaltsCourse, CoursesLatest DEF a
    <3> QED BY <3>6 DEF w1, w2, w3, w4, w5, i
  <2>5. CASE ~EnsureRaises(i)
    <3>1. Course(w3, t, calm, c, c)
      BY <2>5, CourseNil DEF If
    <3>2. PICK b \in S : /\ b.active = c.active
                         /\ Halts(w4, t, calm, c) \/ Course(w4, t, calm, c, b)
      BY <1>1, <2>2, <2>3, EnsureCourse DEF Switching
    <3>3. PICK d \in S : Course(w5, t, calm, b, d)
      <4>1. FitsActive(t, b, active)
        BY <1>1, <2>2, <3>2 DEF FitsActive
      <4> QED BY <1>1, <4>1, ActiveCourse
    <3> HIDE DEF w1, w2, w3, w4, w5, i, a
    <3>4. Course(w1 \o w2 \o w3, t, calm, a, c)
      BY <2>1, <2>2, <3>1, CourseConcat
    <3>5. CASE Halts(w4, t, calm, c)
      <4>1. Halts(w1 \o w2 \o w3 \o w4, t, calm, a)
        BY <3>4, <3>5, HaltsAfter
      <4>2. Halts(w1 \o w2 \o w3 \o w4 \o w5, t, calm, a)
        BY <1>3, <4>1, StopsConcat DEF Halts
      <4>3. Courses(w1 \o w2 \o w3 \o w4 \o w5, calm)
        BY <4>2, HaltsCourse, CoursesLatest DEF a
      <4> QED BY <4>3 DEF w1, w2, w3, w4, w5, i
    <3>6. CASE Course(w4, t, calm, c, b)
      <4>1. Course(w1 \o w2 \o w3 \o w4 \o w5, t, calm, a, d)
        BY <3>3, <3>4, <3>6, CourseConcat
      <4>2. Courses(w1 \o w2 \o w3 \o w4 \o w5, calm)
        BY <4>1, CoursesLatest DEF a
      <4> QED BY <4>2 DEF w1, w2, w3, w4, w5, i
    <3> QED BY <3>2, <3>5, <3>6
  <2> QED BY <2>4, <2>5
<1> QED BY <1>4, <1>5

\* Its handler (Abort), in a Runtime.
LEMMA AbortCourse ==
    ASSUME FilesOK, NEW calm \in BOOLEAN, Image(Latest) \in SafeNodes(Latest, calm),
           Calm(Latest, Image(Latest)),
           AtPC("abort", Latest, Image(Latest))
    PROVE  IF intent # NoFile /\ intent.txn = active.txn
           THEN Courses(If(FailRaises(intent), <<Raise>>) \o FailWrites(intent), calm)
           ELSE Courses(If(ptr = active.prior, <<TryDiscard(active.slot)>>)
                        \o <<JournalTo(active.txn, "failed")>>, calm)
<1> DEFINE t == Latest
           a == Image(t)
           S == SafeNodes(t, calm)
<1>1. /\ t \in Txns /\ a \in Images /\ Deep(t, a) /\ Calm(t, a) /\ a \in S
      /\ a.st \in Switching /\ a.st = journal[t] /\ a.ptr = ptr /\ a.intent = intent
      /\ a.active = active /\ active \in Actives /\ active.txn = t /\ a.st # "none"
  BY FilesAre, SafeNodesAre DEF AtPC, Switching
<1>2. ASSUME intent # NoFile, intent.txn = active.txn
      PROVE  Courses(If(FailRaises(intent), <<Raise>>) \o FailWrites(intent), calm)
  <2>1. Own(t, a)
    BY <1>1, <1>2 DEF Own
  <2>2. PICK b : Course(FailWrites(intent), t, calm, a, b)
    BY <1>1, <2>1, FailCourse
  <2>3. Course(If(FailRaises(intent), <<Raise>>), t, calm, a, a)
    BY <1>1, PlanRaise, PlanIf DEF Course, FailRaises
  <2>4. Course(If(FailRaises(intent), <<Raise>>) \o FailWrites(intent), t, calm, a, b)
    BY <2>2, <2>3, CourseConcat
  <2> QED BY <2>4, CoursesLatest
<1>3. ASSUME ~(intent # NoFile /\ intent.txn = active.txn)
      PROVE  Courses(If(ptr = active.prior, <<TryDiscard(active.slot)>>)
                     \o <<JournalTo(active.txn, "failed")>>, calm)
  <2>1. ~Own(t, a)
    BY <1>1, <1>3 DEF Own
  <2> HIDE DEF a
  <2>2. Course(If(ptr = active.prior, <<TryDiscard(active.slot)>>), t, calm, a, a)
    <3>1. FitsSlot(t, a, active.slot) /\ active.slot \in Versions
      BY <1>1, <2>1, ActivesAre DEF FitsSlot, Calm
    <3>2. Course(<<TryDiscard(active.slot)>>, t, calm, a, a)
      BY <1>1, <3>1, SlotCourse DEF TryDiscard
    <3> QED BY <1>1, <3>2, CourseIf
  <2>3. PICK b \in S : Course(<<JournalTo(t, "failed")>>, t, calm, a, b)
    <3>1. FitsJournal(t, a, "failed") /\ Follows(a.st, "failed") /\ "failed" \in InstallStates
      BY <1>1, <2>1, FollowsIs DEF FitsJournal, Switching, InstallStates, TerminalStates
    <3> QED BY <1>1, <3>1, JournalCourse
  <2>4. Course(If(ptr = active.prior, <<TryDiscard(active.slot)>>)
               \o <<JournalTo(active.txn, "failed")>>, t, calm, a, b)
    BY <1>1, <2>2, <2>3, CourseConcat
  <2> QED BY <2>4, CoursesLatest DEF a
<1> QED BY <1>2, <1>3

\* The handler of the handler (Converge).
LEMMA ConvergeCourse ==
    ASSUME FilesOK, NEW calm \in BOOLEAN, Image(Latest) \in SafeNodes(Latest, calm),
           Calm(Latest, Image(Latest))
    PROVE  LET gone == active = NoFile
               undo == ~gone /\ ptr.current = active.slot /\ active.slot \notin Good(ptr)
           IN  Courses(If(undo, <<Point(active.prior)>>)
                       \o If(journal[Latest] \notin TerminalStates,
                             <<JournalTo(Latest, "failed")>>), calm)
<1> DEFINE t == Latest
           a == Image(t)
           S == SafeNodes(t, calm)
           undo == active # NoFile /\ ptr.current = active.slot /\ active.slot \notin Good(ptr)
           open == journal[t] \notin TerminalStates
<1>1. /\ t \in Txns /\ a \in Images /\ Deep(t, a) /\ Calm(t, a) /\ a \in S
      /\ a.st = journal[t] /\ a.ptr = ptr /\ a.intent = intent
      /\ a.active = active /\ a.st # "none" /\ a.st \in InstallStates
  BY FilesAre, SafeNodesAre
<1>2. open => Follows(a.st, "failed") /\ a.st \notin {"completed", "rollback"}
  BY <1>1, FollowsIs DEF InstallStates, TerminalStates, PreparationStates, Preparation
<1>3. undo \in BOOLEAN /\ open \in BOOLEAN /\ "failed" \in InstallStates
  BY DEF InstallStates, TerminalStates
<1>4. ASSUME undo
      PROVE  /\ Own(t, a) /\ a.st \in Switching /\ active.prior = intent.prior
             /\ intent \in Intents /\ intent \in Trials /\ Candidate(intent)
  <2>1. ~Trusted(ptr)
    BY <1>4 DEF Trusted
  <2>2. Own(t, a)
    BY <1>1, <2>1 DEF Deep, ForeignDeep
  <2>3. /\ intent \in Intents /\ intent \in Trials /\ Candidate(intent)
        /\ ptr = intent.prior \/ Trying(intent, ptr) \/ Kept(intent, ptr)
        /\ (a.st \notin Switching => ~Trying(intent, ptr))
    BY <1>1, <2>2, OwnIs
  <2>4. Trying(intent, ptr)
    BY <2>1, <2>3, TryingIs DEF Candidate
  <2>5. Matches(t, a)
    BY <1>1, <2>2, <2>3, <2>4 DEF Deep, OwnDeep
  <2> QED BY <1>1, <2>2, <2>3, <2>4, <2>5 DEF Matches
<1>5. ASSUME ~undo, Own(t, a) PROVE ~Trying(intent, ptr)
  <2> SUFFICES ASSUME Trying(intent, ptr) PROVE FALSE
    OBVIOUS
  <2>1. a.st \in Switching
    BY <1>1, <1>5, OwnIs
  <2>2. Matches(t, a)
    BY <1>1, <1>5, <2>1 DEF Deep, OwnDeep
  <2> QED BY <1>1, <1>5, <2>2, TryingIs DEF Matches
<1> HIDE DEF t, a, undo, open
<1>6. PICK c \in S : /\ Course(If(undo, <<Point(active.prior)>>), t, calm, a, c)
                     /\ c.st = a.st /\ c.intent = a.intent
                     /\ (Own(t, c) => ~Trying(c.intent, c.ptr))
  <2>1. CASE undo
    <3>1. FitsPtr(t, a, intent.prior) /\ intent.slot \notin Good(intent.prior)
          /\ intent.prior \in Pointers /\ ~Trying(intent, intent.prior)
      BY <1>1, <1>4, <2>1, CandidateIs, IntentsAre DEF FitsPtr
    <3>2. \E c \in S : /\ Course(<<Point(intent.prior)>>, t, calm, a, c) /\ c.st = a.st
                       /\ c.active = a.active /\ c.ptr = intent.prior /\ c.intent = a.intent
                       /\ c.receipt = a.receipt
      BY <1>1, <3>1, PtrCourse
    <3> QED BY <1>1, <1>4, <2>1, <3>1, <3>2 DEF If
  <2>2. CASE ~undo
    <3>1. Course(<<>>, t, calm, a, a)
      BY <1>1, CourseNil
    <3> QED BY <1>1, <1>5, <2>2, <3>1 DEF If
  <2> QED BY <2>1, <2>2
<1>7. \E b : Course(If(open, <<JournalTo(t, "failed")>>), t, calm, c, b)
  <2>1. CASE open
    <3>1. FitsJournal(t, c, "failed") /\ Follows(c.st, "failed")
      BY <1>1, <1>2, <1>6, <2>1 DEF FitsJournal
    <3>2. PICK b \in S : Course(<<JournalTo(t, "failed")>>, t, calm, c, b)
      BY <1>1, <1>3, <1>6, <3>1, JournalCourse
    <3> QED BY <2>1, <3>2 DEF If
  <2>2. CASE ~open
    BY <1>6, <2>2, CourseNil DEF If
  <2> QED BY <2>1, <2>2
<1>8. Courses(If(undo, <<Point(active.prior)>>) \o If(open, <<JournalTo(t, "failed")>>), calm)
  BY <1>6, <1>7, CourseConcat, CoursesLatest DEF a, t
<1> QED BY <1>8 DEF undo, open, t

\* A pending transaction has an intent only while it is activating, and it is its own.
LEMMA PendingIs ==
    ASSUME NEW t \in Txns, NEW a \in Images, Deep(t, a), Own(t, a),
           a.st \in {"awaiting_user", "draining", "activating"}
    PROVE  a.st = "activating" /\ a.active.slot = a.intent.slot
BY DEF Deep, OwnDeep, Matches, Switching

\* A pending transaction is closed after its slot is discarded (Activate, Cancel).
LEMMA GiveUpCourse ==
    ASSUME FilesOK, NEW calm \in BOOLEAN, Image(Latest) \in SafeNodes(Latest, calm),
           Calm(Latest, Image(Latest)),
           journal[Latest] \in {"awaiting_user", "draining", "activating"},
           active # NoFile, NEW c \in BOOLEAN,
           Own(Latest, Image(Latest)) => ~Trying(intent, ptr)
    PROVE  Courses(If(c, <<Discard(active.slot)>>) \o <<JournalTo(Latest, "failed")>>, calm)
<1> DEFINE t == Latest
           a == Image(t)
           S == SafeNodes(t, calm)
<1>1. /\ t \in Txns /\ a \in Images /\ Deep(t, a) /\ Calm(t, a) /\ a \in S
      /\ a.st = journal[t] /\ a.ptr = ptr /\ a.intent = intent
      /\ a.active = active /\ a.st # "none" /\ active \in Actives
  BY FilesAre, SafeNodesAre
<1>2. Own(t, a) => active.slot = intent.slot
  BY <1>1, PendingIs
<1> HIDE DEF a
<1>3. Course(If(c, <<Discard(active.slot)>>), t, calm, a, a)
  <2>1. FitsSlot(t, a, active.slot) /\ active.slot \in Versions
    BY <1>1, <1>2, ActivesAre DEF FitsSlot, Calm
  <2>2. Course(<<Discard(active.slot)>>, t, calm, a, a)
    BY <1>1, <2>1, SlotCourse DEF Discard
  <2> QED BY <1>1, <2>2, CourseIf
<1>4. PICK b \in S : Course(<<JournalTo(t, "failed")>>, t, calm, a, b)
  <2>1. FitsJournal(t, a, "failed") /\ Follows(a.st, "failed") /\ "failed" \in InstallStates
    BY <1>1, FollowsIs DEF FitsJournal, InstallStates, TerminalStates, a
  <2> QED BY <1>1, <2>1, JournalCourse
<1>5. Course(If(c, <<Discard(active.slot)>>) \o <<JournalTo(t, "failed")>>, t, calm, a, b)
  BY <1>3, <1>4, CourseConcat
<1> QED BY <1>5, CoursesLatest DEF a

\* activate, up to the switch (Activate).
LEMMA DrainCourse ==
    ASSUME FilesOK, NEW calm \in BOOLEAN, Image(Latest) \in SafeNodes(Latest, calm),
           Calm(Latest, Image(Latest)),
           active # NoFile, active.txn = Latest,
           journal[Latest] \in {"awaiting_user", "draining", "activating"},
           journal[Latest] # "activating" => ptr.current = active.base
    PROVE  LET t == Latest
               reversible == journal[t] # "activating"
               drain == If(journal[t] = "awaiting_user", <<JournalTo(t, "draining")>>)
           IN  /\ reversible => Courses(drain \o <<Discard(active.slot), JournalTo(t, "failed")>>,
                                        calm)
               /\ Courses(If(reversible,
                             drain \o If(active.prior = NoFile,
                                         <<Put("active", [active EXCEPT !.prior = ptr])>>)
                             \o <<JournalTo(t, "activating")>>), calm)
<1> DEFINE t == Latest
           a == Image(t)
           S == SafeNodes(t, calm)
           reversible == journal[t] # "activating"
           drain == If(journal[t] = "awaiting_user", <<JournalTo(t, "draining")>>)
           x == [active EXCEPT !.prior = ptr]
           noted == If(active.prior = NoFile, <<Put("active", x)>>)
<1>1. /\ t \in Txns /\ a \in Images /\ Deep(t, a) /\ Calm(t, a) /\ a \in S
      /\ a.st = journal[t] /\ a.ptr = ptr /\ a.intent = intent /\ a.receipt = receipt
      /\ a.active = active /\ a.st # "none" /\ active \in Actives /\ ptr \in Pointers
  BY FilesAre, SafeNodesAre
<1>2. CASE ~reversible
  <2>1. Course(<<>>, t, calm, a, a)
    BY <1>1, CourseNil
  <2>2. Courses(<<>>, calm)
    BY <2>1, CoursesLatest
  <2> QED BY <1>2, <2>2 DEF If
<1>3. CASE reversible
  <2>1. ~Own(t, a) /\ ~Undoable(a) /\ active.slot \in Versions
    BY <1>1, <1>3, PendingIs, ActivesAre DEF Calm
  <2>a. /\ (journal[t] = "awaiting_user" \/ journal[t] = "draining")
        /\ ptr.current = active.base /\ active # NoFile /\ active.txn = t
    BY <1>3
  <2>2. x \in Actives /\ x # NoFile /\ x.prior # NoFile /\ x.txn = t
    <3>1. x \in Actives /\ x.prior = ptr /\ x.txn = t
      BY <1>1 DEF Actives, ActiveFiles, Pointers
    <3> QED BY <1>1, <3>1, NoFileIs
  <2> HIDE DEF t, a, x
  <2>3. PICK c \in S : /\ Course(drain, t, calm, a, c) /\ c.st = "draining"
                       /\ c.active = active /\ c.ptr = ptr /\ c.intent = intent
                       /\ c.receipt = receipt
    <3>1. CASE journal[t] = "awaiting_user"
      <4>1. FitsJournal(t, a, "draining") /\ Follows(a.st, "draining")
            /\ "draining" \in InstallStates
        BY <1>1, <3>1, FollowsIs DEF FitsJournal, Preparing, InstallStates
      <4>2. PICK c \in S : /\ Course(<<JournalTo(t, "draining")>>, t, calm, a, c)
                           /\ c.st = "draining" /\ c.active = a.active /\ c.ptr = a.ptr
                           /\ c.intent = a.intent /\ c.receipt = a.receipt
        BY <1>1, <4>1, JournalCourse
      <4> QED BY <1>1, <3>1, <4>2 DEF If
    <3>2. CASE journal[t] # "awaiting_user"
      <4>1. Course(<<>>, t, calm, a, a) /\ a.st = "draining"
        BY <1>1, <2>a, <3>2, CourseNil
      <4> QED BY <1>1, <3>2, <4>1 DEF If
    <3> QED BY <3>1, <3>2
  <2>4. ~Own(t, c) /\ ~Undoable(c)
    BY <1>1, <2>1, <2>3 DEF Own, Undoable
  <2>5. Courses(drain \o <<Discard(active.slot), JournalTo(t, "failed")>>, calm)
    <3>1. Course(<<Discard(active.slot)>>, t, calm, c, c)
      <4>1. FitsSlot(t, c, active.slot)
        BY <2>4 DEF FitsSlot
      <4> QED BY <1>1, <2>1, <2>3, <4>1, SlotCourse DEF Discard
    <3>2. PICK b \in S : Course(<<JournalTo(t, "failed")>>, t, calm, c, b)
      <4>1. FitsJournal(t, c, "failed") /\ Follows(c.st, "failed") /\ "failed" \in InstallStates
        BY <2>3, <2>4, FollowsIs DEF FitsJournal, InstallStates, TerminalStates
      <4> QED BY <1>1, <4>1, JournalCourse
    <3>3. Course(<<Discard(active.slot), JournalTo(t, "failed")>>, t, calm, c, b)
      BY <3>1, <3>2, CourseTwo
    <3> HIDE DEF drain
    <3>4. Course(drain \o <<Discard(active.slot), JournalTo(t, "failed")>>, t, calm, a, b)
      BY <2>3, <3>3, CourseConcat
    <3> QED BY <3>4, CoursesLatest DEF a, t
  <2>6. PICK d \in S : /\ Course(noted, t, calm, c, d) /\ d.st = "draining"
                       /\ d.active # NoFile /\ d.active.txn = t /\ d.active.prior # NoFile
    <3>1. CASE active.prior = NoFile
      <4>1. FitsActive(t, c, x)
        BY <2>a, <2>3 DEF FitsActive, x, t
      <4>2. PICK d \in S : /\ Course(<<Put("active", x)>>, t, calm, c, d) /\ d.st = c.st
                           /\ d.active = x /\ d.ptr = c.ptr /\ d.intent = c.intent
                           /\ d.receipt = c.receipt
        BY <1>1, <2>2, <4>1, ActiveCourse
      <4> QED BY <2>2, <2>3, <3>1, <4>2 DEF If
    <3>2. CASE active.prior # NoFile
      <4>1. Course(<<>>, t, calm, c, c)
        BY <2>3, CourseNil
      <4> QED BY <2>a, <2>3, <3>2, <4>1 DEF If
    <3> QED BY <3>1, <3>2
  <2>7. PICK b \in S : Course(<<JournalTo(t, "activating")>>, t, calm, d, b)
    <3>1. FitsJournal(t, d, "activating") /\ Follows(d.st, "activating")
          /\ "activating" \in InstallStates
      BY <2>6, FollowsIs DEF FitsJournal, InstallStates
    <3> QED BY <1>1, <3>1, JournalCourse
  <2>8. Courses(drain \o noted \o <<JournalTo(t, "activating")>>, calm)
    <3> HIDE DEF drain, noted
    <3>1. Course(drain \o noted \o <<JournalTo(t, "activating")>>, t, calm, a, b)
      BY <2>3, <2>6, <2>7, CourseConcat
    <3> QED BY <3>1, CoursesLatest DEF a, t
  <2> QED BY <1>3, <2>5, <2>8 DEF If, x, t
<1> QED BY <1>2, <1>3

\* A transaction that was never journaled is dropped (Drop, DiscardOrphanActive).
LEMMA DropCourse ==
    ASSUME FilesOK, NEW calm \in BOOLEAN, Image(Latest) \in SafeNodes(Latest, calm),
           NEW c \in BOOLEAN, c => active # NoFile /\ active.txn # Latest
    PROVE  Courses(If(c, <<Remove("active")>>), calm)
<1> DEFINE t == Latest
           a == Image(t)
<1>1. /\ t \in Txns /\ a \in Images /\ Deep(t, a) /\ a \in SafeNodes(t, calm)
      /\ a.active = active /\ (c => active.txn # t)
  BY FilesAre, SafeNodesAre
<1> HIDE DEF t, a
<1>2. CASE c
  <2>1. a.st \notin Switching
    BY <1>1, <1>2 DEF Deep, OwnDeep, ForeignDeep, Matches, Switching
  <2>2. FitsActive(t, a, NoFile)
    BY <2>1 DEF FitsActive
  <2>3. PICK b \in SafeNodes(t, calm) : Course(<<Put("active", NoFile)>>, t, calm, a, b)
    BY <1>1, <2>2, ActiveCourse
  <2>4. Courses(<<Put("active", NoFile)>>, calm)
    BY <2>3, CoursesLatest DEF a, t
  <2> QED BY <1>2, <2>4 DEF If, Remove
<1>3. CASE ~c
  <2>1. Course(<<>>, t, calm, a, a)
    BY <1>1, CourseNil
  <2>2. Courses(<<>>, calm)
    BY <2>1, CoursesLatest DEF a, t
  <2> QED BY <1>3, <2>2 DEF If
<1> QED BY <1>2, <1>3

\* What a calm image says holds of the next transaction, of which nothing is journaled.
LEMMA NextDeep ==
    ASSUME NEW t \in Txns, t + 1 \in Txns, NEW a \in Images, Deep(t, a), Calm(t, a),
           a.st \in TerminalStates, NEW b \in Images, b.st = "none", b.active = a.active,
           b.ptr = a.ptr, b.intent = a.intent, b.receipt = a.receipt
    PROVE  Deep(t + 1, b) /\ Calm(t + 1, b)
<1>1. t \in Nat /\ Txns \subseteq Nat
  BY BoundsAssumption DEF Txns
<1>2. /\ a.active # NoFile => a.active.txn \in Nat
      /\ a.intent # NoFile => a.intent.txn \in Nat
      /\ a.receipt # NoFile => a.receipt.txn \in Nat
  BY <1>1, ImagesAre, ActivesAre, IntentsAre, ReceiptsAre
<1>3. a.st \notin Switching
  BY DEF Switching, TerminalStates
<1>4. ~Own(t + 1, b) /\ ~Undoable(b)
  BY <1>1, <1>2 DEF Own, Undoable, Calm, Deep, IntentDeep
<1>5. ActiveDeep(t + 1, b)
  BY <1>1, <1>2, <1>4 DEF Deep, ActiveDeep
<1>6. IntentDeep(t + 1, b)
  BY <1>1, <1>2 DEF Deep, IntentDeep
<1>7. Trusted(a.ptr) /\ (a.intent # NoFile => a.ptr = a.intent.prior)
  <2>1. CASE Own(t, a)
    <3>1. /\ a.ptr = a.intent.prior \/ Trying(a.intent, a.ptr) \/ Kept(a.intent, a.ptr)
          /\ ~Trying(a.intent, a.ptr) /\ Candidate(a.intent)
      BY <1>3, <2>1, OwnIs
    <3>2. ~Kept(a.intent, a.ptr)
      BY <2>1, TryingIs DEF Calm
    <3> QED BY <3>1, <3>2 DEF Candidate
  <2>2. CASE ~Own(t, a)
    BY <2>2 DEF Deep, ForeignDeep
  <2> QED BY <2>1, <2>2
<1>8. ForeignDeep(t + 1, b)
  BY <1>7 DEF ForeignDeep
<1>9. OwnDeep(t + 1, b)
  BY <1>4 DEF OwnDeep
<1>10. ReceiptDeep(t + 1, b)
  <2>1. a.receipt # NoFile => /\ a.receipt.txn <= t
                              /\ a.receipt.barrier => a.receipt.state = "confirmed"
    BY DEF Deep, ReceiptDeep
  <2>2. a.receipt # NoFile => a.receipt.txn # t + 1 /\ a.receipt.txn <= t + 1
    BY <1>1, <1>2, <2>1
  <2>3. a.receipt # NoFile => a.receipt.state # "rollback_pending"
    BY <1>4, <2>1 DEF Undoable
  <2> QED BY <1>4, <2>1, <2>2, <2>3 DEF ReceiptDeep
<1> QED BY <1>4, <1>5, <1>6, <1>8, <1>9, <1>10 DEF Deep, Calm

\* Every state of a preparation is deep, and has what a preparation relies on.
LEMMA PreparesSafely ==
    ASSUME NEW t \in Txns, NEW v \in Versions, NEW calm \in BOOLEAN,
           NEW a \in SafeNodes(t, calm), a.st \in PreparationStates, Calm(t, a)
    PROVE  Prepares(SafeEdges(t, calm), SafeNodes(t, calm), t, v, a)
<1>1. a \in Images /\ Deep(t, a)
  BY SafeNodesAre
<1>2. a.st \in {"resolving", "downloading", "verifying", "staging"} /\ ~Own(t, a) /\ ~Undoable(a)
  BY <1>1, PositionIs DEF Deep, OwnDeep, Switching, Calm
<1>3. ASSUME NEW s \in Early
      PROVE  /\ With(a, s) \in SafeNodes(t, calm) /\ With(a, s) \in Images
             /\ With(a, s).st = s /\ With(a, s).active = a.active /\ With(a, s).ptr = a.ptr
             /\ With(a, s).intent = a.intent /\ With(a, s).receipt = a.receipt
             /\ ~Own(t, With(a, s)) /\ ~Undoable(With(a, s)) /\ s # "none"
  <2> DEFINE b == With(a, s)
  <2>1. /\ b \in Images /\ b.st = s /\ b.active = a.active /\ b.ptr = a.ptr
        /\ b.intent = a.intent /\ b.receipt = a.receipt /\ s # "none"
    BY <1>1, WithIs, EarlyIs
  <2> HIDE DEF b
  <2>2. ~Own(t, b) /\ ~Undoable(b)
    BY <1>2, <2>1 DEF Own, Undoable
  <2>3. FitsJournal(t, a, b.st)
    BY <1>2, <2>1, EarlyIs DEF FitsJournal, Preparing
  <2>4. Deep(t, b)
    BY <1>1, <2>1, <2>3, JournalDeep
  <2>5. Calm(t, b)
    BY <2>2 DEF Calm
  <2>6. b \in SafeNodes(t, calm)
    BY <2>1, <2>4, <2>5, SafeNodesAre
  <2> QED BY <2>1, <2>2, <2>6 DEF b
<1>4. ASSUME NEW q \in Early, NEW s \in Early, Follows(q, s)
      PROVE  <<JournalTo(t, s), With(a, q), With(a, s)>> \in SafeEdges(t, calm)
  <2> DEFINE w == JournalTo(t, s)
             b == With(a, q)
             c == With(a, s)
  <2>1. w \in Writes /\ w.file = "journal" /\ w.content.txn = t /\ w.content.state = s
    BY EarlyIs DEF JournalTo, Put, Writes
  <2>2. /\ b \in Images /\ b.st = q /\ b.active = a.active /\ b.ptr = a.ptr
        /\ b.intent = a.intent /\ b.receipt = a.receipt /\ ~Own(t, b) /\ q # "none"
        /\ c \in Images /\ c.st = s /\ c.active = a.active /\ c.ptr = a.ptr
        /\ c.intent = a.intent /\ c.receipt = a.receipt
    BY <1>3
  <2> HIDE DEF w, b, c
  <2>3. c = [st |-> s, active |-> b.active, ptr |-> b.ptr, intent |-> b.intent,
             receipt |-> b.receipt]
    BY <2>2 DEF Images
  <2>4. Edge(w, t, b, c)
    BY <1>4, <2>1, <2>2, <2>3 DEF Edge, Made
  <2>5. FitsJournal(t, b, s)
    <3>1. CASE q = "failed"
      <4>1. s = "failed"
        BY <1>4, <3>1 DEF Follows, Allowed
      <4> QED BY <2>2, <3>1, <4>1 DEF FitsJournal
    <3>2. CASE q # "failed"
      BY <2>2, <3>2, EarlyIs DEF FitsJournal, Preparing
    <3> QED BY <3>1, <3>2
  <2>6. Fits(w, t, b) /\ Gentle(w, t, b)
    BY <2>1, <2>5 DEF Fits, Gentle
  <2> QED BY <2>1, <2>2, <2>4, <2>6, SafeEdgesAre DEF w, b, c
<1>5. ASSUME NEW w \in {Stage(v), TryDiscard(v)}
      PROVE  <<w, With(a, "staging"), With(a, "staging")>> \in SafeEdges(t, calm)
  <2> DEFINE b == With(a, "staging")
  <2>1. w \in Writes /\ w.file \in {"stage", "try_discard"}
    BY DEF Stage, TryDiscard, Put, Writes
  <2>2. b \in Images /\ b.st = "staging" /\ ~Own(t, b) /\ ~Undoable(b)
    BY <1>3, EarlyIs
  <2> HIDE DEF b
  <2>3. b = [st |-> b.st, active |-> b.active, ptr |-> b.ptr, intent |-> b.intent,
             receipt |-> b.receipt]
    BY <2>2 DEF Images
  <2>4. Edge(w, t, b, b)
    BY <2>1, <2>2, <2>3 DEF Edge, Made
  <2>5. Fits(w, t, b) /\ Gentle(w, t, b)
    BY <2>1, <2>2 DEF Fits, Gentle, FitsSlot
  <2> QED BY <2>1, <2>2, <2>4, <2>5, SafeEdgesAre DEF b
<1> QED BY <1>3, <1>4, <1>5 DEF Prepares

\* A preparation that goes on where the journal stands (ResumePrepare).
LEMMA ResumeCourse ==
    ASSUME FilesOK, NEW calm \in BOOLEAN, Image(Latest) \in SafeNodes(Latest, calm),
           Calm(Latest, Image(Latest)), journal[Latest] \in PreparationStates,
           NEW v \in Versions, NEW outcome \in Outcomes, Possible(journal[Latest], outcome)
    PROVE  Courses(PrepareWrites(Latest, v, journal[Latest], outcome), calm)
<1> DEFINE t == Latest
           a == Image(t)
<1>1. t \in Txns /\ a \in Images /\ a \in SafeNodes(t, calm) /\ a.st = journal[t]
  BY FilesAre, SafeNodesAre
<1>2. Prepares(SafeEdges(t, calm), SafeNodes(t, calm), t, v, a)
  BY <1>1, PreparesSafely
<1> HIDE DEF a, t
<1>3. PICK b : Course(PrepareWrites(t, v, a.st, outcome), t, calm, a, b)
  BY <1>1, <1>2, PreparePlan DEF Course, t
<1> QED BY <1>1, <1>3, CoursesLatest DEF a, t

\* prepare_update begins the next transaction (Prepare).
LEMMA BeginCourse ==
    ASSUME FilesOK, NEW calm \in BOOLEAN, Image(Latest) \in SafeNodes(Latest, calm),
           Calm(Latest, Image(Latest)), journal[Latest] \in TerminalStates, Latest < MaxTxn,
           NEW v \in Versions, v > ptr.current, NEW outcome \in Outcomes
    PROVE  Courses(<<Put("active", [txn |-> Latest + 1, slot |-> v, base |-> ptr.current,
                                    prior |-> NoFile]),
                     JournalTo(Latest + 1, "resolving")>>
                   \o PrepareWrites(Latest + 1, v, "resolving", outcome), calm)
<1> DEFINE t == Latest + 1
           a == Image(t)
           S == SafeNodes(t, calm)
           x == [txn |-> Latest + 1, slot |-> v, base |-> ptr.current, prior |-> NoFile]
<1>1. /\ t \in Txns /\ Starts(t) /\ journal[t] = "none" /\ Latest \in Txns
      /\ active \in Actives \cup {NoFile} /\ intent \in Intents \cup {NoFile}
      /\ receipt \in Receipts \cup {NoFile} /\ ptr \in Pointers
  <2>1. Latest \in Txns /\ Latest \in Nat /\ t \in Txns /\ t > Latest
    BY FilesAre, BoundsAssumption DEF Txns
  <2> QED BY <2>1, FilesAre DEF Starts, FilesOK, Last
<1>2. /\ x \in Actives /\ x # NoFile /\ x.txn = t /\ x.prior = NoFile /\ x.slot = v
      /\ x.base = ptr.current
  <2>1. x \in Actives /\ x.txn = t /\ x.prior = NoFile /\ x.slot = v /\ x.base = ptr.current
    BY <1>1, PointersHold DEF Actives, ActiveFiles
  <2> QED BY <2>1, NoFileIs
<1>3. /\ a \in Images /\ a.st = "none" /\ a.active = active /\ a.ptr = ptr
      /\ a.intent = intent /\ a.receipt = receipt
  BY <1>1 DEF Image, Images
<1>4. Deep(t, a) /\ Calm(t, a)
  <2> DEFINE l == Latest
             c == Image(l)
  <2>1. /\ c \in Images /\ Deep(l, c) /\ Calm(l, c) /\ c.st \in TerminalStates
        /\ c.active = a.active /\ c.ptr = a.ptr /\ c.intent = a.intent
        /\ c.receipt = a.receipt /\ l \in Txns /\ l + 1 \in Txns /\ t = l + 1
    BY <1>1, <1>3, FilesAre, SafeNodesAre
  <2> HIDE DEF l, c, a, t
  <2> QED BY <1>3, <2>1, NextDeep
<1>5. a \in S
  BY <1>3, <1>4, SafeNodesAre
<1> HIDE DEF a, x, t
<1>6. PICK c \in S : /\ Course(<<Put("active", x)>>, t, calm, a, c) /\ c.st = "none"
                     /\ c.active = x /\ c.ptr = a.ptr /\ c.intent = a.intent
                     /\ c.receipt = a.receipt
  <2>1. FitsActive(t, a, x)
    BY <1>2, <1>3 DEF FitsActive
  <2> QED BY <1>1, <1>2, <1>3, <1>5, <2>1, ActiveCourse
<1>7. PICK d \in S : /\ Course(<<JournalTo(t, "resolving")>>, t, calm, c, d)
                     /\ d.st = "resolving" /\ d.active = c.active /\ d.ptr = c.ptr
                     /\ d.intent = c.intent /\ d.receipt = c.receipt
  <2>1. FitsJournal(t, c, "resolving") /\ Follows(c.st, "resolving")
        /\ "resolving" \in InstallStates
    BY <1>6, FollowsIs, PositionIs DEF FitsJournal, Preparing, InstallStates
  <2> QED BY <1>1, <2>1, JournalCourse
<1>8. Calm(t, d)
  BY <1>4, <1>6, <1>7 DEF Calm, Own, Undoable
<1>9. PICK b : Course(PrepareWrites(t, v, "resolving", outcome), t, calm, d, b)
  <2>1. Possible(d.st, outcome) /\ d.st \in PreparationStates /\ d \in Images
    BY <1>7, PositionIs, SafeNodesAre DEF Possible
  <2>2. Prepares(SafeEdges(t, calm), S, t, v, d)
    BY <1>1, <1>8, <2>1, PreparesSafely
  <2> QED BY <1>1, <1>7, <2>1, <2>2, PreparePlan DEF Course
<1>10. Course(<<Put("active", x), JournalTo(t, "resolving")>>, t, calm, a, d)
  BY <1>6, <1>7, CourseTwo
<1>11. Course(<<Put("active", x), JournalTo(t, "resolving")>>
              \o PrepareWrites(t, v, "resolving", outcome), t, calm, a, b)
  BY <1>9, <1>10, CourseConcat
<1>12. Courses(<<Put("active", x), JournalTo(t, "resolving")>>
               \o PrepareWrites(t, v, "resolving", outcome), calm)
  BY <1>1, <1>11 DEF Courses, a
<1> QED BY <1>12 DEF t, x

-----------------------------------------------------------------------------
(* The invariant *)

Here == Image(Latest)

\* Someone past its barrier holds the lock, or outlived its Bootstrap.
Outlived == rt["orphan"] # NoRuntime
Watched == job.by \in Runtimes \/ Outlived
Past(r) == rt[r].kind = "full" /\ rt[r].pc \notin {"start", "barrier"}

DeepOK == Deep(Latest, Here)

\* The writes still to be made are a course, calm while someone watches.
CourseOK == job.ok # "" => Courses(job.writes, Watched)

\* A Runtime starts behind no pending switch, and reads the receipt it will rewrite.
BarrierOK ==
    /\ rt["orphan"].pc \notin {"start", "barrier"}
    /\ rt["child"].pc = "barrier" =>
          /\ rt["child"].kind = "full" /\ rt["child"].saw = receipt
          /\ receipt # NoFile => receipt.state # "rollback_pending"
    /\ boot.pc \in {"probe", "confirm"} => ~Outlived

CalmOK ==
    /\ Outlived => Calm(Latest, Here)
    /\ boot.pc = "watch" /\ Own(Latest, Here) => Calm(Latest, Here)
    /\ Past("child") => Calm(Latest, Here)

\* A transaction whose Runtime has opened live storage is completed, and closed.
OpenedOK ==
    /\ \A t \in opened : journal[t] = "completed"
    /\ Latest \in opened => ~Own(Latest, Here) /\ ~Undoable(Here)
    /\ receipt # NoFile /\ receipt.state = "confirmed" => journal[receipt.txn] = "completed"
    /\ receipt # NoFile /\ receipt.barrier => receipt.txn \in opened

\* The slots that pointers, intent and receipt can go back to are on disk.
SlotsOK ==
    /\ Protected(ptr) \subseteq slots
    /\ intent # NoFile => Wanted(intent.prior) \subseteq slots
    /\ Undoable(Here) => Wanted(receipt.prior) \subseteq slots

Settled == DeepOK /\ OpenedOK /\ SlotsOK
Moving == CourseOK /\ BarrierOK /\ CalmOK
Safe == Settled /\ Moving

\* A plan is one among more nodes and edges.
LEMMA PlanGrows ==
    ASSUME NEW E, NEW F, NEW S, NEW T, E \subseteq F, S \subseteq T, NEW ws, NEW a, NEW b,
           Plan(ws, E, S, a, b)
    PROVE  Plan(ws, F, T, a, b)
<1>1. ws \in Seq(Writes) /\ Leads(ws, E, S, a, b)
  BY DEF Plan
<1>2. PICK n \in 0..Len(ws) : \E h \in [0..n -> S] :
        /\ h[0] = a
        /\ \A k \in 1..n : <<ws[k], h[k - 1], h[k]>> \in E
        /\ \/ n = Len(ws) /\ h[n] = b
           \/ n < Len(ws) /\ ws[n + 1].file = "raise"
  BY <1>1 DEF Leads
<1>3. PICK h \in [0..n -> S] :
        /\ h[0] = a
        /\ \A k \in 1..n : <<ws[k], h[k - 1], h[k]>> \in E
        /\ \/ n = Len(ws) /\ h[n] = b
           \/ n < Len(ws) /\ ws[n + 1].file = "raise"
  BY <1>2
<1>4. h \in [0..n -> T] /\ \A k \in 1..n : <<ws[k], h[k - 1], h[k]>> \in F
  BY <1>3
<1>5. Leads(ws, F, T, a, b)
  BY <1>2, <1>3, <1>4 DEF Leads
<1> QED BY <1>1, <1>5 DEF Plan

\* A calm course is a course.
LEMMA CourseWeaker ==
    ASSUME NEW ws, NEW t, NEW c \in BOOLEAN, NEW d \in BOOLEAN, d => c, NEW a, NEW b,
           Course(ws, t, c, a, b)
    PROVE  Course(ws, t, d, a, b)
<1>1. SafeEdges(t, c) \subseteq SafeEdges(t, d) /\ SafeNodes(t, c) \subseteq SafeNodes(t, d)
  BY DEF SafeEdges, SafeNodes
<1> QED BY <1>1, PlanGrows DEF Course

\* What is said of the files holds while they stay.
LEMMA SettledSame ==
    ASSUME Inv, Settled, UNCHANGED files, UNCHANGED opened
    PROVE  /\ Settled' /\ Here' = Here /\ Latest' = Latest
           /\ (Calm(Latest, Here)' <=> Calm(Latest, Here))
           /\ (Own(Latest, Here)' <=> Own(Latest, Here))
<1>1. FilesOK /\ Latest' = Latest /\ Image(Latest)' = Image(Latest)
  BY FilesSame DEF Inv
<1>2. Here' = Here
  BY <1>1 DEF Here
<1>3. UNCHANGED <<journal, active, ptr, slots, intent, receipt>> /\ opened' = opened
  BY DEF files
<1>4. DeepOK'
  BY <1>1, <1>2 DEF DeepOK, Settled
<1>5. OpenedOK'
  BY <1>1, <1>2, <1>3 DEF OpenedOK, Settled
<1>6. SlotsOK'
  BY <1>2, <1>3 DEF SlotsOK, Settled
<1> QED BY <1>1, <1>2, <1>4, <1>5, <1>6 DEF Settled

\* So does a course.
LEMMA CoursesSame ==
    ASSUME FilesOK, UNCHANGED files, NEW ws, NEW c \in BOOLEAN, NEW d \in BOOLEAN, d => c,
           Courses(ws, c), job'.writes = ws, Watched' = d
    PROVE  CourseOK'
<1>1. PICK t, b : Starts(t) /\ Course(ws, t, c, Image(t), b)
  BY DEF Courses
<1>2. Starts(t)' /\ Image(t)' = Image(t)
  BY <1>1, FilesSame
<1>3. Course(ws, t, d, Image(t), b)
  BY <1>1, CourseWeaker
<1>4. Courses(ws, d)'
  BY <1>2, <1>3 DEF Courses
<1> QED BY <1>4 DEF CourseOK

\* Bootstrap, a probe or a Runtime goes on, or stops, and nothing is left to write.
LEMMA CourseNone == ASSUME job'.ok = "" PROVE CourseOK'
BY DEF CourseOK

\* A step that leaves the files alone, by what it does to the lock and the processes.
LEMMA StepSafe ==
    ASSUME Inv, Safe, UNCHANGED files, UNCHANGED opened, CourseOK',
           rt'["orphan"].pc \notin {"start", "barrier"},
           rt'["child"].pc = "barrier" =>
              /\ rt'["child"].kind = "full" /\ rt'["child"].saw = receipt
              /\ receipt # NoFile => receipt.state # "rollback_pending",
           boot'.pc \in {"probe", "confirm"} => ~Outlived',
           Outlived' => Calm(Latest, Here),
           boot'.pc = "watch" => boot.pc = "watch" \/ intent = NoFile,
           Past("child")' => Calm(Latest, Here)
    PROVE  Safe'
<1>1. /\ Settled' /\ (Calm(Latest, Here)' <=> Calm(Latest, Here))
      /\ (Own(Latest, Here)' <=> Own(Latest, Here)) /\ receipt' = receipt
  BY SettledSame DEF Safe, files
<1>2. BarrierOK'
  BY <1>1 DEF BarrierOK
<1>3. intent = NoFile => ~Own(Latest, Here)
  BY FilesAre DEF Inv, Own, Here
<1>4. CalmOK'
  BY <1>1, <1>3 DEF CalmOK, Safe, Moving
<1> QED BY <1>1, <1>2, <1>4 DEF Safe, Moving

\* The files as a node, for someone who watches or not.
LEMMA HereIs ==
    ASSUME Inv, Safe, NEW calm \in BOOLEAN, calm => Calm(Latest, Here)
    PROVE  /\ FilesOK /\ Latest \in Txns /\ Image(Latest) \in Images
           /\ Image(Latest) \in SafeNodes(Latest, calm) /\ Deep(Latest, Image(Latest))
BY FilesAre, SafeNodesAre DEF Inv, Safe, Settled, DeepOK, Here, FilesOK

\* Bootstrap begins an operation.
LEMMA BootRunsSafe ==
    ASSUME Inv, Safe, NEW ws, NEW calm \in BOOLEAN, calm <=> Outlived, Courses(ws, calm),
           job'.by = "boot", job'.writes = ws, boot'.pc = "busy",
           UNCHANGED <<files, rt, mishaps, opened>>
    PROVE  Safe'
<1>1. UNCHANGED files /\ UNCHANGED opened /\ rt' = rt
  OBVIOUS
<1>2. Outlived' <=> Outlived
  BY <1>1 DEF Outlived
<1>3. Watched' <=> calm
  BY <1>2 DEF Watched, Runtimes
<1>4. Watched' \in BOOLEAN
  BY DEF Watched
<1>5. CourseOK'
  BY <1>1, <1>3, <1>4, CoursesSame DEF Inv
<1>6. Past("child")' <=> Past("child")
  BY <1>1 DEF Past
<1> QED BY <1>1, <1>2, <1>5, <1>6, StepSafe DEF Safe, Moving, BarrierOK, CalmOK

\* Bootstrap goes on without one.
LEMMA BootMovesSafe ==
    ASSUME Inv, Safe, job' = job \/ job'.ok = "",
           rt' = rt \/ rt' = [rt EXCEPT !["child"] = NoRuntime],
           boot'.pc # "watch", boot'.pc \in {"probe", "confirm"} => boot.pc \in {"probe", "confirm"},
           UNCHANGED <<files, opened>>
    PROVE  Safe'
<1> DEFINE g == rt'
<1>0. rt \in [Runtimes -> Rts] /\ "child" \in Runtimes /\ "orphan" \in Runtimes
      /\ "child" # "orphan" /\ FilesOK
  BY DEF Inv, ProcsOK, Runtimes
<1>1. g["orphan"] = rt["orphan"] /\ (g["child"] = rt["child"] \/ g["child"] = NoRuntime)
  <2>1. CASE g = rt
    BY <2>1
  <2>2. CASE g = [rt EXCEPT !["child"] = NoRuntime]
    <3> HIDE DEF g
    <3> QED BY ONLY <1>0, <2>2, RtReplaced, NoRuntimeIs
  <2> QED BY <2>1, <2>2
<1>2. rt'["orphan"] = rt["orphan"] /\ (rt'["child"] = rt["child"] \/ rt'["child"] = NoRuntime)
  BY <1>1
<1> HIDE DEF g
<1>3. Outlived' <=> Outlived
  BY <1>2 DEF Outlived
<1>4. Past("child")' => Past("child")
  BY <1>2, NoRuntimeIs DEF Past
<1>5. CourseOK'
  <2>1. CASE job' = job
    <3>1. (Watched' <=> Watched) /\ Watched \in BOOLEAN /\ Watched' \in BOOLEAN
      BY <1>3, <2>1 DEF Watched
    <3>2. CASE job.ok # ""
      <4>1. Courses(job.writes, Watched)
        BY <3>2 DEF Safe, Moving, CourseOK
      <4> QED BY <1>0, <2>1, <3>1, <4>1, CoursesSame
    <3>3. CASE job.ok = ""
      BY <2>1, <3>3, CourseNone
    <3> QED BY <3>2, <3>3
  <2>2. CASE job'.ok = ""
    BY <2>2, CourseNone
  <2> QED BY <2>1, <2>2
<1> QED BY <1>2, <1>3, <1>4, <1>5, StepSafe, NoRuntimeIs DEF Safe, Moving, BarrierOK, CalmOK

\* A Runtime past its barrier begins an operation.
LEMMA RuntimeRunsSafe ==
    ASSUME Inv, Safe, NEW r \in Runtimes, Past(r), NEW ws, NEW ok, NEW err,
           RuntimeRuns(r, ws, ok, err), \A calm \in BOOLEAN : Courses(ws, calm)
    PROVE  Safe'
<1> DEFINE g == rt'
<1>0. rt \in [Runtimes -> Rts] /\ FilesOK /\ Runtimes = {"child", "orphan"} /\ "busy" \in RtPcs
      /\ "child" # "orphan"
  BY DEF Inv, ProcsOK, Runtimes, RtPcs
<1>1. /\ g = [rt EXCEPT ![r].pc = "busy"] /\ UNCHANGED files /\ UNCHANGED opened
      /\ boot' = boot /\ job'.by = r /\ job'.writes = ws
  BY DEF RuntimeRuns, Work
<1>2. /\ g[r].pc = "busy" /\ g[r].kind = rt[r].kind
      /\ \A q \in Runtimes : q # r => g[q] = rt[q]
  <2> HIDE DEF g
  <2> QED BY ONLY <1>0, <1>1, r \in Runtimes, RtMoves
<1>3. /\ rt'[r].pc = "busy" /\ rt'[r].kind = rt[r].kind
      /\ \A q \in Runtimes : q # r => rt'[q] = rt[q]
  BY <1>2
<1> HIDE DEF g
<1>4. Watched' \in BOOLEAN
  BY DEF Watched
<1>5. CourseOK'
  BY <1>0, <1>1, <1>4, CoursesSame
<1>6. rt["orphan"].kind = "full" => Outlived
  BY NoRuntimeIs DEF Outlived
<1>7. Outlived' => Outlived
  BY <1>0, <1>3, <1>6 DEF Outlived, Past
<1>8. Past("child")' => Past("child")
  BY <1>0, <1>3 DEF Past
<1> QED BY <1>0, <1>1, <1>3, <1>5, <1>7, <1>8, StepSafe DEF Safe, Moving, BarrierOK, CalmOK

\* A Runtime past its barrier acts on calm files.
LEMMA PastIs ==
    ASSUME Inv, Safe, NEW r \in Runtimes, Past(r)
    PROVE  Calm(Latest, Here) /\ Calm(Latest, Image(Latest))
<1>1. r = "child" \/ (r = "orphan" /\ Outlived)
  BY NoRuntimeIs DEF Runtimes, Past, Outlived
<1> QED BY <1>1 DEF Safe, Moving, CalmOK, Here

-----------------------------------------------------------------------------
(* Bootstrap keeps it *)

\* Whether a Runtime outlived it decides how calm Bootstrap's operations must be.
LEMMA OutlivedIs ==
    ASSUME Inv, Safe
    PROVE  /\ Outlived \in BOOLEAN /\ Image(Latest) \in SafeNodes(Latest, Outlived)
           /\ FilesOK /\ Latest \in Txns /\ Image(Latest) \in Images
           /\ Deep(Latest, Image(Latest)) /\ boot \in Boots
<1>1. Outlived \in BOOLEAN
  BY DEF Outlived
<1>2. Outlived => Calm(Latest, Here)
  BY DEF Safe, Moving, CalmOK
<1> QED BY <1>1, <1>2, HereIs DEF Inv, ProcsOK

\* BootGoes, as far as it matters.
LEMMA BootGoesSafe ==
    ASSUME Inv, Safe, NEW pc \in BootPcs, BootGoes(pc), job' = job \/ job'.ok = "",
           pc # "watch", pc \in {"probe", "confirm"} => boot.pc \in {"probe", "confirm"},
           rt' = rt \/ rt' = [rt EXCEPT !["child"] = NoRuntime], UNCHANGED <<files, opened>>
    PROVE  Safe'
BY OutlivedIs, BootGoesTo, BootMovesSafe

\* So for BootRuns.
LEMMA BootBeginsSafe ==
    ASSUME Inv, Safe, NEW ws, NEW ok, NEW err, BootRuns(ws, ok, err), Courses(ws, Outlived),
           UNCHANGED <<files, rt, mishaps, opened>>
    PROVE  Safe'
<1>1. job'.by = "boot" /\ job'.writes = ws /\ boot'.pc = "busy"
  <2>1. "busy" \in BootPcs /\ boot \in Boots
    BY OutlivedIs DEF BootPcs
  <2> QED BY <2>1, BootsAre DEF BootRuns, Work
<1> QED BY <1>1, OutlivedIs, BootRunsSafe

\* A start after a crash or a stop.
LEMMA BootStartSafe == ASSUME Inv, Safe, BootStart PROVE Safe'
<1>1. boot'.pc = "select" /\ job' = job /\ rt' = rt /\ UNCHANGED <<files, opened>>
  BY DEF BootStart
<1> QED BY <1>1, BootMovesSafe

\* _select_and_start reconciles.
LEMMA SelectSafe == ASSUME Inv, Safe, Select PROVE Safe'
<1>1. UNCHANGED <<files, rt, mishaps, opened>> /\ rt' = rt
  BY DEF Select
<1>2. CASE ReconcileRaises
  <2>1. BootGoes("launchFailed") /\ job' = job /\ "launchFailed" \in BootPcs
    BY <1>2 DEF Select, BootPcs
  <2> QED BY <1>1, <2>1, BootGoesSafe
<1>3. CASE ~ReconcileRaises
  <2>1. BootRuns(ReconcileWrites, "ensure", "launchFailed")
    BY <1>3 DEF Select
  <2>2. Courses(ReconcileWrites, Outlived)
    BY <1>3, OutlivedIs, ReconcileCourse, CoursesLatest
  <2> QED BY <1>1, <2>1, <2>2, BootBeginsSafe
<1> QED BY <1>2, <1>3

\* An intent for which ensure_pending_current does not raise at once.
LEMMA EnsuresOwn ==
    ASSUME FilesOK, Deep(Latest, Image(Latest)), intent # NoFile, ~EnsureRaises(intent)
    PROVE  /\ Own(Latest, Image(Latest)) /\ journal[Latest] \in Switching
           /\ Image(Latest).st = journal[Latest] /\ Image(Latest).ptr = ptr
           /\ Image(Latest).intent = intent
BY FilesAre DEF EnsureRaises, Own, Switching

\* ... then finishes a pending switch.
LEMMA EnsureSafe == ASSUME Inv, Safe, Ensure PROVE Safe'
<1>1. UNCHANGED <<files, rt, mishaps, opened>> /\ rt' = rt
  BY DEF Ensure
<1> DEFINE raises == IF intent = NoFile THEN ~CurrentTrusted ELSE EnsureRaises(intent)
           ws == IF intent = NoFile THEN <<>> ELSE EnsureWrites(intent)
<1>2. CASE raises
  <2>1. BootGoes("launchFailed") /\ job' = Idle /\ "launchFailed" \in BootPcs
    BY <1>2 DEF Ensure, BootPcs
  <2> QED BY <1>1, <2>1, IdleIs, BootGoesSafe
<1>3. CASE ~raises
  <2>1. BootRuns(ws, "launch", "launchFailed")
    BY <1>3 DEF Ensure
  <2>2. Courses(ws, Outlived)
    <3>1. CASE intent = NoFile
      <4>1. Course(<<>>, Latest, Outlived, Image(Latest), Image(Latest))
        BY OutlivedIs, CourseNil
      <4> QED BY <3>1, <4>1, OutlivedIs, CoursesLatest
    <3>2. CASE intent # NoFile
      <4> DEFINE a == Image(Latest)
      <4>1. ~EnsureRaises(intent)
        BY <1>3, <3>2
      <4>2. /\ Own(Latest, a) /\ a.st \in Switching /\ a.st = journal[Latest]
            /\ a.ptr = ptr /\ a.intent = intent /\ a \in SafeNodes(Latest, Outlived)
            /\ FilesOK /\ Outlived \in BOOLEAN
        BY <3>2, <4>1, EnsuresOwn, OutlivedIs
      <4> HIDE DEF a
      <4>3. \E b : \/ Halts(EnsureWrites(intent), Latest, Outlived, a)
                   \/ Course(EnsureWrites(intent), Latest, Outlived, a, b)
        BY <4>2, EnsureCourse
      <4>4. PICK b : Course(EnsureWrites(intent), Latest, Outlived, a, b)
        BY <4>3, HaltsCourse
      <4> QED BY <3>2, <4>2, <4>4, CoursesLatest DEF a
    <3> QED BY <3>1, <3>2
  <2> HIDE DEF ws
  <2> QED BY <1>1, <2>1, <2>2, BootBeginsSafe
<1> QED BY <1>2, <1>3

\* ... and starts the Runtime: a probe only when it has the port to itself.
LEMMA LaunchSafe == ASSUME Inv, Safe, Launch PROVE Safe'
<1>0. UNCHANGED files /\ UNCHANGED opened /\ job' = Idle /\ job'.ok = ""
  BY IdleIs DEF Launch
<1>1. CASE BootGoes("down") /\ rt' = rt
  BY <1>0, <1>1, BootGoesSafe DEF BootPcs
<1>2. CASE BootGoes("launchFailed") /\ rt' = rt
  BY <1>0, <1>2, BootGoesSafe DEF BootPcs
<1>3. CASE /\ intent = NoFile \/ rt["orphan"] = NoRuntime
           /\ BootGoes(IF intent = NoFile THEN "watch" ELSE "probe")
           /\ rt' = [rt EXCEPT !["child"] =
                 [kind |-> IF intent = NoFile THEN "full" ELSE "probe", slot |-> ptr.current,
                  pc |-> IF intent = NoFile THEN "start" ELSE "probe", saw |-> NoFile]]
  <2> DEFINE g == rt'
             e == [kind |-> IF intent = NoFile THEN "full" ELSE "probe", slot |-> ptr.current,
                   pc |-> IF intent = NoFile THEN "start" ELSE "probe", saw |-> NoFile]
  <2>1. rt \in [Runtimes -> Rts] /\ "child" \in Runtimes /\ "orphan" \in Runtimes
        /\ "child" # "orphan" /\ boot \in Boots
    BY DEF Inv, ProcsOK, Runtimes
  <2>2. g["orphan"] = rt["orphan"] /\ g["child"] = e
    <3>1. g = [rt EXCEPT !["child"] = e]
      BY <1>3
    <3> HIDE DEF g, e
    <3> QED BY ONLY <2>1, <3>1
  <2>3. /\ e.pc \in {"start", "probe"} /\ (e.kind = "full" => e.pc = "start")
        /\ (intent # NoFile => e.kind = "probe")
    OBVIOUS
  <2> HIDE DEF e
  <2>4. rt'["orphan"] = rt["orphan"] /\ rt'["child"] = e
    BY <2>2
  <2> HIDE DEF g
  <2>5. boot'.pc = IF intent = NoFile THEN "watch" ELSE "probe"
    BY <1>3, <2>1, BootGoesTo DEF BootPcs
  <2>6. (Outlived' <=> Outlived) /\ ~Past("child")'
    BY <2>3, <2>4 DEF Outlived, Past
  <2>7. boot'.pc = "probe" => ~Outlived
    BY <1>3, <2>5 DEF Outlived
  <2>8. CourseOK'
    BY <1>0, CourseNone
  <2> QED BY <1>0, <2>3, <2>4, <2>5, <2>6, <2>7, <2>8, StepSafe DEF Safe, Moving, BarrierOK, CalmOK
<1> QED BY <1>1, <1>2, <1>3 DEF Launch

\* The probe answers or does not.
LEMMA ProbeAnswersSafe ==
    ASSUME Inv, Safe, NEW healthy \in BOOLEAN, ProbeAnswers(healthy) PROVE Safe'
<1>1. /\ boot.pc = "probe" /\ job' = job /\ UNCHANGED <<files, opened>>
      /\ BootGoes(IF healthy THEN "confirm" ELSE "unhealthy")
      /\ rt' = rt \/ rt' = [rt EXCEPT !["child"] = NoRuntime]
  BY DEF ProbeAnswers
<1>2. "confirm" \in BootPcs /\ "unhealthy" \in BootPcs
  BY DEF BootPcs
<1>3. CASE healthy
  BY <1>1, <1>2, <1>3, BootGoesSafe
<1>4. CASE ~healthy
  BY <1>1, <1>2, <1>4, BootGoesSafe
<1> QED BY <1>3, <1>4

\* confirm.
LEMMA ConfirmSafe ==
    ASSUME Inv, Safe, NEW companionReady \in BOOLEAN, Confirm(companionReady) PROVE Safe'
<1>1. UNCHANGED <<files, rt, mishaps, opened>> /\ rt' = rt /\ boot.pc = "confirm"
  BY DEF Confirm
<1> DEFINE raises == ~companionReady \/ intent = NoFile \/ EnsureRaises(intent)
<1>2. CASE raises
  <2>1. BootGoes("reconfirm") /\ job' = job /\ "reconfirm" \in BootPcs
    BY <1>2 DEF Confirm, BootPcs
  <2> QED BY <1>1, <2>1, BootGoesSafe
<1>3. CASE ~raises
  <2> DEFINE a == Image(Latest)
             t == Latest
             calm == Outlived
  <2>1. BootRuns(EnsureWrites(intent) \o ConfirmWrites(intent), "confirmed", "reconfirm")
    BY <1>3 DEF Confirm
  <2>2. ~calm
    BY <1>1 DEF Safe, Moving, BarrierOK
  <2>3. /\ Own(t, a) /\ a.st \in Switching /\ a.st = journal[t] /\ intent # NoFile
        /\ a.ptr = ptr /\ a.intent = intent /\ a \in SafeNodes(t, calm)
        /\ FilesOK /\ calm \in BOOLEAN /\ t \in Txns /\ a \in Images /\ Deep(t, a)
    BY <1>3, EnsuresOwn, OutlivedIs
  <2>4. intent.slot \in Versions /\ ConfirmWrites(intent) \in Seq(Writes)
    <3>1. intent \in Intents /\ intent.txn \in Txns /\ intent.slot \in Versions
      BY <2>3, FilesAre, IntentsAre
    <3>2. MarkKnownGood(ptr, intent.slot) \in Pointers
      BY <2>3, <3>1, FilesAre, PointersMove
    <3>3. /\ Put("receipt", ReceiptFor(intent, "confirming")) \in Writes
          /\ Point(MarkKnownGood(ptr, intent.slot)) \in Writes
          /\ JournalTo(intent.txn, "completed") \in Writes
          /\ Put("receipt", ReceiptFor(intent, "confirmed")) \in Writes
          /\ Cleanup \in Seq(Writes)
      BY <3>1, <3>2, IntentsAre
      DEF Put, Point, JournalTo, Writes, Cleanup, Remove, InstallStates, TerminalStates
    <3> QED BY <3>1, <3>3 DEF ConfirmWrites
  <2> HIDE DEF a, t, calm
  <2>5. PICK b \in SafeNodes(t, calm) :
          /\ b.st = "healthchecking" /\ b.intent = intent
          /\ \/ Halts(EnsureWrites(intent), t, calm, a)
             \/ Course(EnsureWrites(intent), t, calm, a, b) /\ b.ptr.current = intent.slot
    BY <2>3, EnsureCourse DEF t
  <2>6. \E c : Course(EnsureWrites(intent) \o ConfirmWrites(intent), t, calm, a, c)
    <3>1. CASE Halts(EnsureWrites(intent), t, calm, a)
      <4>1. Halts(EnsureWrites(intent) \o ConfirmWrites(intent), t, calm, a)
        BY <2>4, <3>1, StopsConcat DEF Halts
      <4> QED BY <4>1, HaltsCourse
    <3>2. CASE Course(EnsureWrites(intent), t, calm, a, b) /\ b.ptr.current = intent.slot
      <4>1. PICK c : Course(ConfirmWrites(intent), t, calm, b, c)
        BY <2>2, <2>3, <2>5, <3>2, ConfirmCourse DEF t, a
      <4> QED BY <3>2, <4>1, CourseConcat
    <3> QED BY <2>5, <3>1, <3>2
  <2>7. Courses(EnsureWrites(intent) \o ConfirmWrites(intent), calm)
    BY <2>3, <2>6, CoursesLatest DEF t, a
  <2>8. Courses(EnsureWrites(intent) \o ConfirmWrites(intent), Outlived)
    BY <2>7 DEF calm
  <2> QED BY <1>1, <2>1, <2>8, BootBeginsSafe
<1> QED BY <1>2, <1>3

\* The exception handler around confirm.
LEMMA ReconfirmSafe == ASSUME Inv, Safe, Reconfirm PROVE Safe'
<1>1. UNCHANGED <<files, rt, mishaps, opened>> /\ rt' = rt
  BY DEF Reconfirm
<1>2. CASE ReconcileRaises
  <2>1. BootGoes("unconfirmed") /\ job' = job /\ "unconfirmed" \in BootPcs
    BY <1>2 DEF Reconfirm, BootPcs
  <2> QED BY <1>1, <2>1, BootGoesSafe
<1>3. CASE ~ReconcileRaises
  <2> DEFINE ok == IF intent # NoFile /\ ConfirmedInPart(intent)
                   THEN "confirmed" ELSE "unconfirmed"
  <2>1. BootRuns(ReconcileWrites, ok, "unconfirmed")
    BY <1>3 DEF Reconfirm
  <2>2. Courses(ReconcileWrites, Outlived)
    BY <1>3, OutlivedIs, ReconcileCourse, CoursesLatest
  <2> HIDE DEF ok
  <2> QED BY <1>1, <2>1, <2>2, BootBeginsSafe
<1> QED BY <1>2, <1>3

\* The probe is stopped either way.
LEMMA StopCandidateSafe == ASSUME Inv, Safe, StopCandidate PROVE Safe'
<1>1. /\ boot'.pc \in {"select", "unhealthy"} /\ job' = job /\ UNCHANGED <<files, opened>>
      /\ rt' = [rt EXCEPT !["child"] = NoRuntime]
  <2>1. boot \in Boots
    BY OutlivedIs
  <2> QED BY <2>1 DEF StopCandidate, Boots
<1> QED BY <1>1, BootMovesSafe

\* _rollback_pending_activation
LEMMA FailPendingSafe == ASSUME Inv, Safe, FailPending PROVE Safe'
<1>1. UNCHANGED <<files, rt, mishaps, opened>> /\ rt' = rt
  BY DEF FailPending
<1>2. CASE intent = NoFile \/ FailRaises(intent)
  <2>1. PICK pc \in {"unlaunched", "down"} : BootGoes(pc) /\ job' = job
    BY <1>2 DEF FailPending
  <2>2. pc \in BootPcs
    BY DEF BootPcs
  <2> QED BY <1>1, <2>1, <2>2, BootGoesSafe
<1>3. CASE ~(intent = NoFile \/ FailRaises(intent))
  <2>1. job'.by = "boot" /\ job'.writes = FailWrites(intent) /\ boot'.pc = "busy"
    <3>1. boot \in Boots /\ "busy" \in BootPcs
      BY OutlivedIs DEF BootPcs
    <3> DEFINE otherwise == IF boot.pc = "launchFailed" THEN "unlaunched" ELSE "down"
    <3>2. /\ job' = Work("boot", FailWrites(intent), "select", otherwise)
          /\ boot' = [boot EXCEPT !.pc = "busy", !.avoid = None]
      BY <1>3 DEF FailPending
    <3> HIDE DEF otherwise
    <3> QED BY <3>1, <3>2, BootsAre DEF Work
  <2>2. Own(Latest, Image(Latest)) /\ journal[Latest] \in Switching
    BY <1>3, OutlivedIs, FilesAre DEF FailRaises, Own, Switching
  <2>3. Courses(FailWrites(intent), Outlived)
    BY <2>2, OutlivedIs, FailCourse, CoursesLatest
  <2> QED BY <1>1, <2>1, <2>3, OutlivedIs, BootRunsSafe
<1> QED BY <1>2, <1>3

\* _rollback_confirmed_activation
LEMMA RollbackConfirmedSafe == ASSUME Inv, Safe, RollbackConfirmed PROVE Safe'
<1>1. UNCHANGED <<files, rt, mishaps, opened>> /\ rt' = rt
  BY DEF RollbackConfirmed
<1>2. CASE ~RollbackOffered \/ RollbackRaises(receipt)
  <2>1. PICK pc \in {"select", "down"} : BootGoes(pc) /\ job' = job
    BY <1>2 DEF RollbackConfirmed
  <2>2. pc \in BootPcs
    BY DEF BootPcs
  <2> QED BY <1>1, <2>1, <2>2, BootGoesSafe
<1>3. CASE ~(~RollbackOffered \/ RollbackRaises(receipt))
  <2>1. job'.by = "boot" /\ job'.writes = RollbackWrites(receipt) /\ boot'.pc = "busy"
    <3>1. boot \in Boots /\ "busy" \in BootPcs
      BY OutlivedIs DEF BootPcs
    <3> DEFINE onward == boot.pc = "exited" /\ boot.exit \in {"restart", "reload"}
               otherwise == IF onward THEN "select" ELSE "down"
    <3>2. /\ job' = Work("boot", RollbackWrites(receipt), "select", otherwise)
          /\ boot' = [boot EXCEPT !.pc = "busy", !.avoid = None]
      BY <1>3 DEF RollbackConfirmed
    <3> HIDE DEF otherwise
    <3> QED BY <3>1, <3>2, BootsAre DEF Work
  <2>2. RollbackOffered
    BY <1>3 DEF RollbackOffered
  <2>3. Courses(RollbackWrites(receipt), Outlived)
    BY <2>2, OutlivedIs, RollbackCourse, CoursesLatest
  <2> QED BY <1>1, <2>1, <2>3, OutlivedIs, BootRunsSafe
<1> QED BY <1>2, <1>3

-----------------------------------------------------------------------------
(* The coordinator keeps it *)

\* A Runtime that serves, or goes on under the lock, is past its barrier.
LEMMA ActsIs ==
    ASSUME Inv, Safe, NEW r \in Runtimes,
           Serving(r) \/ rt[r].pc \in {"drop", "switch", "abort", "converge"}
    PROVE  /\ Past(r) /\ FilesOK /\ Calm(Latest, Image(Latest)) /\ Deep(Latest, Image(Latest))
           /\ AtPC(rt[r].pc, Latest, Image(Latest)) /\ ptr.current \in Versions
           /\ active # NoFile => active \in Actives /\ active.slot \in Versions
           /\ \A calm \in BOOLEAN : Image(Latest) \in SafeNodes(Latest, calm)
<1>1. /\ FilesOK /\ rt[r].kind = "full" /\ AtPC(rt[r].pc, Latest, Image(Latest))
      /\ ptr.current \in Versions
      /\ active # NoFile => active \in Actives /\ active.slot \in Versions
  BY ServingIs
<1>2. Past(r)
  BY <1>1 DEF Past, Serving
<1>3. Calm(Latest, Here) /\ Calm(Latest, Image(Latest))
  BY <1>2, PastIs
<1>4. \A calm \in BOOLEAN :
         Image(Latest) \in SafeNodes(Latest, calm) /\ Deep(Latest, Image(Latest))
  BY <1>3, HereIs
<1>5. Deep(Latest, Image(Latest))
  BY <1>4
<1> QED BY <1>1, <1>2, <1>3, <1>4, <1>5

\* prepare_update of a newer release.
LEMMA PrepareSafe ==
    ASSUME Inv, Safe, Upgrading, NEW r \in Runtimes, NEW v \in Versions, NEW outcome \in Outcomes,
           Prepare(r, v, outcome)
    PROVE  Safe'
<1> DEFINE ws == <<Put("active", [txn |-> Latest + 1, slot |-> v, base |-> ptr.current,
                                  prior |-> NoFile]),
                   JournalTo(Latest + 1, "resolving")>>
                 \o PrepareWrites(Latest + 1, v, "resolving", outcome)
<1>1. /\ Serving(r) /\ journal[Latest] \in TerminalStates /\ Latest < MaxTxn
      /\ v # ptr.current /\ (v < ptr.current => Downgrades)
      /\ RuntimeRuns(r, ws, "open", "drop")
  BY DEF Prepare
<1>2. v > ptr.current
  BY DEF Upgrading
<1>3. \A calm \in BOOLEAN : Courses(ws, calm)
  <2> SUFFICES ASSUME NEW calm \in BOOLEAN PROVE Courses(ws, calm)
    OBVIOUS
  <2> QED BY <1>1, <1>2, ActsIs, BeginCourse
<1> HIDE DEF ws
<1> QED BY <1>1, <1>3, ActsIs, RuntimeRunsSafe

\* Its handler.
LEMMA DropSafe == ASSUME Inv, Safe, NEW r \in Runtimes, Drop(r) PROVE Safe'
<1> DEFINE c == active # NoFile /\ active.txn # Latest
           ws == If(c, <<Remove("active")>>)
<1>1. rt[r].pc = "drop" /\ RuntimeRuns(r, ws, "open", "open")
  BY DEF Drop
<1>2. \A calm \in BOOLEAN : Courses(ws, calm)
  <2> SUFFICES ASSUME NEW calm \in BOOLEAN PROVE Courses(ws, calm)
    OBVIOUS
  <2>1. c \in BOOLEAN /\ (c => active # NoFile /\ active.txn # Latest)
    OBVIOUS
  <2> HIDE DEF c
  <2> QED BY <1>1, <2>1, ActsIs, DropCourse
<1> HIDE DEF ws
<1> QED BY <1>1, <1>2, ActsIs, RuntimeRunsSafe

\* recover, in the middle of a preparation.
LEMMA ResumePrepareSafe ==
    ASSUME Inv, Safe, NEW r \in Runtimes, NEW outcome \in Outcomes, ResumePrepare(r, outcome)
    PROVE  Safe'
<1> DEFINE ws == PrepareWrites(Latest, active.slot, journal[Latest], outcome)
<1>1. /\ Serving(r) /\ journal[Latest] \in PreparationStates
      /\ Possible(journal[Latest], outcome) /\ active # NoFile
      /\ RuntimeRuns(r, ws, "open", "open")
  BY DEF ResumePrepare
<1>2. \A calm \in BOOLEAN : Courses(ws, calm)
  <2> SUFFICES ASSUME NEW calm \in BOOLEAN PROVE Courses(ws, calm)
    OBVIOUS
  <2> QED BY <1>1, ActsIs, ResumeCourse
<1> HIDE DEF ws
<1> QED BY <1>1, <1>2, ActsIs, RuntimeRunsSafe

\* recover, with a transaction that was never journaled.
LEMMA DiscardOrphanActiveSafe ==
    ASSUME Inv, Safe, NEW r \in Runtimes, DiscardOrphanActive(r) PROVE Safe'
<1> DEFINE ws == <<Remove("active")>>
<1>1. Serving(r) /\ active # NoFile /\ active.txn # Latest /\ RuntimeRuns(r, ws, "open", "open")
  BY DEF DiscardOrphanActive
<1>2. \A calm \in BOOLEAN : Courses(ws, calm)
  <2> SUFFICES ASSUME NEW calm \in BOOLEAN PROVE Courses(ws, calm)
    OBVIOUS
  <2>1. Courses(If(TRUE, <<Remove("active")>>), calm)
    BY <1>1, ActsIs, DropCourse
  <2> QED BY <2>1 DEF If
<1> HIDE DEF ws
<1> QED BY <1>1, <1>2, ActsIs, RuntimeRunsSafe

\* activate, up to the switch.  A target whose slot is gone is not on trial, since the
\* current slot is on disk.
LEMMA ActivateSafe ==
    ASSUME Inv, Safe, NEW r \in Runtimes, NEW drained \in BOOLEAN, Activate(r, drained)
    PROVE  Safe'
<1> DEFINE t == Latest
           reversible == journal[t] # "activating"
           stale == reversible /\ ptr.current # active.base
           drain == If(journal[t] = "awaiting_user", <<JournalTo(t, "draining")>>)
           w1 == If(ptr.current # active.slot, <<Discard(active.slot)>>)
                 \o <<JournalTo(t, "failed")>>
           w2 == drain \o <<Discard(active.slot), JournalTo(t, "failed")>>
           w3 == If(reversible,
                    drain \o If(active.prior = NoFile,
                                <<Put("active", [active EXCEPT !.prior = ptr])>>)
                    \o <<JournalTo(t, "activating")>>)
<1>1. /\ Serving(r) /\ active # NoFile /\ active.txn = t
      /\ journal[t] \in {"awaiting_user", "draining", "activating"}
  BY DEF Activate, Pending
<1>2. /\ Past(r) /\ FilesOK /\ Calm(t, Image(t)) /\ Deep(t, Image(t)) /\ ptr.current \in Versions
      /\ \A calm \in BOOLEAN : Image(t) \in SafeNodes(t, calm)
  BY <1>1, ActsIs
<1>3. \/ (stale \/ active.slot \notin slots) /\ RuntimeRuns(r, w1, "open", "open")
      \/ ~stale /\ reversible /\ RuntimeRuns(r, w2, "open", "open")
      \/ ~stale /\ RuntimeRuns(r, w3, "switch", "open")
  BY DEF Activate
<1>4. ASSUME stale \/ active.slot \notin slots, Own(t, Image(t)), Trying(intent, ptr)
      PROVE  FALSE
  <2>1. /\ Image(t).st = journal[t] /\ Image(t).active = active /\ Image(t).intent = intent
        /\ t \in Txns /\ Image(t) \in Images
    BY <1>2, FilesAre DEF FilesOK
  <2>2. journal[t] = "activating" /\ active.slot = intent.slot
    BY <1>1, <1>2, <1>4, <2>1, PendingIs
  <2>3. ptr.current \in Protected(ptr) /\ Protected(ptr) \subseteq slots
    BY <1>2, VersionsAre DEF Protected, Safe, Settled, SlotsOK
  <2> QED BY <1>4, <2>2, <2>3 DEF Trying
<1>5. ASSUME stale \/ active.slot \notin slots PROVE \A calm \in BOOLEAN : Courses(w1, calm)
  <2> DEFINE c == ptr.current # active.slot
  <2> SUFFICES ASSUME NEW calm \in BOOLEAN PROVE Courses(w1, calm)
    OBVIOUS
  <2>1. c \in BOOLEAN /\ (Own(Latest, Image(Latest)) => ~Trying(intent, ptr))
    BY <1>4, <1>5
  <2> HIDE DEF c
  <2>2. Courses(If(c, <<Discard(active.slot)>>) \o <<JournalTo(Latest, "failed")>>, calm)
    BY <1>1, <1>2, <2>1, GiveUpCourse
  <2> QED BY <2>2 DEF c
<1>6. ASSUME ~stale
      PROVE  \A calm \in BOOLEAN : (reversible => Courses(w2, calm)) /\ Courses(w3, calm)
  <2> SUFFICES ASSUME NEW calm \in BOOLEAN
               PROVE  (reversible => Courses(w2, calm)) /\ Courses(w3, calm)
    OBVIOUS
  <2>1. journal[Latest] # "activating" => ptr.current = active.base
    BY <1>6
  <2> QED BY <1>1, <1>2, <2>1, DrainCourse
<1> HIDE DEF w1, w2, w3, stale, reversible
<1>7. PICK ws, ok : RuntimeRuns(r, ws, ok, "open") /\ \A calm \in BOOLEAN : Courses(ws, calm)
  BY <1>3, <1>5, <1>6
<1> QED BY <1>2, <1>7, RuntimeRunsSafe

\* The switch, ...
LEMMA SwitchSafe == ASSUME Inv, Safe, NEW r \in Runtimes, Switch(r) PROVE Safe'
<1> DEFINE i == IntentOf(active)
           ws == If(intent # NoFile /\ intent # i, <<Raise>>)
                 \o If(intent = NoFile, <<Put("intent", i)>>)
                 \o If(EnsureRaises(i), <<Raise>>)
                 \o EnsureWrites(i)
                 \o <<Put("active", active)>>
<1>1. rt[r].pc = "switch" /\ RuntimeRuns(r, ws, "open", "abort")
  BY DEF Switch
<1>2. /\ Past(r) /\ FilesOK /\ AtPC("switch", Latest, Image(Latest))
      /\ \A calm \in BOOLEAN : Image(Latest) \in SafeNodes(Latest, calm)
  BY <1>1, ActsIs
<1>3. \A calm \in BOOLEAN : Courses(ws, calm)
  BY <1>2, SwitchCourse
<1> HIDE DEF ws
<1> QED BY <1>1, <1>2, <1>3, RuntimeRunsSafe

\* ... its handler, ...
LEMMA AbortSafe == ASSUME Inv, Safe, NEW r \in Runtimes, Abort(r) PROVE Safe'
<1> DEFINE own == intent # NoFile /\ intent.txn = active.txn
           w1 == If(FailRaises(intent), <<Raise>>) \o FailWrites(intent)
           w2 == If(ptr = active.prior, <<TryDiscard(active.slot)>>)
                 \o <<JournalTo(active.txn, "failed")>>
<1>1. /\ rt[r].pc = "abort"
      /\ own => RuntimeRuns(r, w1, "open", "converge")
      /\ ~own => RuntimeRuns(r, w2, "open", "open")
  BY DEF Abort
<1>2. /\ Past(r) /\ FilesOK /\ Calm(Latest, Image(Latest)) /\ AtPC("abort", Latest, Image(Latest))
      /\ \A calm \in BOOLEAN : Image(Latest) \in SafeNodes(Latest, calm)
  BY <1>1, ActsIs
<1>3. \A calm \in BOOLEAN : IF own THEN Courses(w1, calm) ELSE Courses(w2, calm)
  BY <1>2, AbortCourse
<1> HIDE DEF w1, w2
<1> QED BY <1>1, <1>2, <1>3, RuntimeRunsSafe

\* ... and that handler's.
LEMMA ConvergeSafe == ASSUME Inv, Safe, NEW r \in Runtimes, Converge(r) PROVE Safe'
<1> DEFINE gone == active = NoFile
           undo == ~gone /\ ptr.current = active.slot /\ active.slot \notin Good(ptr)
           ws == If(undo, <<Point(active.prior)>>)
                 \o If(journal[Latest] \notin TerminalStates, <<JournalTo(Latest, "failed")>>)
<1>1. rt[r].pc = "converge" /\ RuntimeRuns(r, ws, "open", "open")
  BY DEF Converge
<1>2. /\ Past(r) /\ FilesOK /\ Calm(Latest, Image(Latest))
      /\ \A calm \in BOOLEAN : Image(Latest) \in SafeNodes(Latest, calm)
  BY <1>1, ActsIs
<1>3. \A calm \in BOOLEAN : Courses(ws, calm)
  BY <1>2, ConvergeCourse
<1> HIDE DEF ws
<1> QED BY <1>1, <1>2, <1>3, RuntimeRunsSafe

\* cancel_pending_activation, which is refused once the target is current.
LEMMA CancelSafe == ASSUME Inv, Safe, NEW r \in Runtimes, Cancel(r) PROVE Safe'
<1> DEFINE c == active.slot \notin Protected(ptr)
           ws == If(c, <<Discard(active.slot)>>) \o <<JournalTo(Latest, "failed")>>
<1>1. /\ Serving(r) /\ active # NoFile /\ RuntimeRuns(r, ws, "open", "open")
      /\ journal[Latest] \in {"awaiting_user", "draining", "activating"}
      /\ ptr.current # active.slot
  BY DEF Cancel, Pending
<1>2. /\ Past(r) /\ FilesOK /\ Calm(Latest, Image(Latest)) /\ Deep(Latest, Image(Latest))
      /\ \A calm \in BOOLEAN : Image(Latest) \in SafeNodes(Latest, calm)
  BY <1>1, ActsIs
<1>3. ASSUME Own(Latest, Image(Latest)) PROVE ~Trying(intent, ptr)
  <2>1. /\ Image(Latest).st = journal[Latest] /\ Image(Latest).active = active
        /\ Image(Latest).intent = intent /\ Latest \in Txns /\ Image(Latest) \in Images
    BY <1>2, FilesAre DEF FilesOK
  <2>2. active.slot = intent.slot
    BY <1>1, <1>2, <1>3, <2>1, PendingIs
  <2> QED BY <1>1, <2>2 DEF Trying
<1>4. \A calm \in BOOLEAN : Courses(ws, calm)
  <2> SUFFICES ASSUME NEW calm \in BOOLEAN PROVE Courses(ws, calm)
    OBVIOUS
  <2>1. c \in BOOLEAN
    OBVIOUS
  <2> HIDE DEF c
  <2> QED BY <1>1, <1>2, <1>3, <2>1, GiveUpCourse
<1> HIDE DEF ws
<1> QED BY <1>1, <1>2, <1>4, RuntimeRunsSafe

-----------------------------------------------------------------------------
(* Processes go on, start and stop *)

\* The course of a job that stays as it is.
LEMMA CourseStays ==
    ASSUME Inv, Safe, UNCHANGED files, job'.writes = job.writes, job'.ok = job.ok,
           Watched' => Watched
    PROVE  CourseOK'
<1>1. Watched \in BOOLEAN /\ Watched' \in BOOLEAN /\ FilesOK
  BY DEF Watched, Inv
<1>2. CASE job.ok = ""
  BY <1>2, CourseNone
<1>3. CASE job.ok # ""
  <2>1. Courses(job.writes, Watched)
    BY <1>3 DEF Safe, Moving, CourseOK
  <2> QED BY <1>1, <2>1, CoursesSame
<1> QED BY <1>2, <1>3

\* The holder of the lock goes on, or gives it back.
LEMMA ResumeSafe ==
    ASSUME Inv, Safe, job.ok # "", NEW pc \in {job.ok, job.err}, Resume(pc),
           UNCHANGED <<files, opened>>
    PROVE  Safe'
<1>1. FilesOK /\ ProcsOK /\ LockOK
  BY DEF Inv
<1>2. job'.ok = ""
  <2>1. [Idle EXCEPT !.by = job.by].ok = ""
    BY DEF Idle
  <2> QED BY <2>1, IdleIs DEF Resume
<1>3. CASE job.by = "boot"
  <2>1. boot' = [boot EXCEPT !.pc = pc] /\ rt' = rt
    BY <1>3 DEF Resume
  <2>2. pc \in {"ensure", "launch", "confirmed", "unconfirmed", "select",
                "launchFailed", "reconfirm", "unlaunched", "down"}
    BY <1>1, <1>3 DEF LockOK, BootHolds
  <2>3. boot'.pc = pc
    BY <1>1, <2>1, <2>2 DEF ProcsOK, Boots, BootPcs
  <2> QED BY <1>2, <2>1, <2>2, <2>3, BootMovesSafe
<1>4. CASE job.by # "boot"
  <2>1. PICK r \in Runtimes : job.by = r
    BY <1>1, <1>4, IdleIs DEF ProcsOK, Jobs, LockOK
  <2>2. boot' = boot /\ rt' = [rt EXCEPT ![r].pc = pc]
    BY <1>4, <2>1 DEF Resume
  <2>3. /\ rt[r].pc = "busy" /\ pc \in {"open", "switch", "drop", "abort", "converge"}
        /\ rt[r].kind = "full"
    BY <1>1, <2>1 DEF LockOK, RtHolds
  <2>4. rt'[r].pc = pc /\ rt'[r].kind = "full" /\ \A q \in Runtimes : q # r => rt'[q] = rt[q]
    <3> DEFINE g == rt'
               to == pc
    <3>1. rt \in [Runtimes -> Rts] /\ to \in RtPcs
      BY <1>1, <2>3 DEF ProcsOK, RtPcs
    <3>2. g = [rt EXCEPT ![r].pc = to]
      BY <2>2
    <3> HIDE DEF g, to
    <3>3. /\ g \in [Runtimes -> Rts] /\ g[r].pc = to /\ g[r].kind = rt[r].kind
          /\ \A q \in Runtimes : q # r => g[q] = rt[q]
      BY ONLY <3>1, <3>2, r \in Runtimes, RtMoves
    <3> QED BY <2>3, <3>3 DEF g, to
  <2>5. Runtimes = {"child", "orphan"} /\ "child" # "orphan"
    BY DEF Runtimes
  <2>6. Outlived' => Outlived
    BY <2>3, <2>4, <2>5, NoRuntimeIs DEF Outlived
  <2>7. Past("child")' => Past("child")
    BY <2>3, <2>4, <2>5 DEF Past
  <2>8. /\ rt'["orphan"].pc \notin {"start", "barrier"}
        /\ rt'["child"].pc = "barrier" => rt'["child"] = rt["child"]
    BY <2>3, <2>4, <2>5 DEF Safe, Moving, BarrierOK
  <2>9. UNCHANGED files /\ UNCHANGED opened /\ CourseOK'
    BY <1>2, CourseNone
  <2> QED BY <2>2, <2>6, <2>7, <2>8, <2>9, StepSafe DEF Safe, Moving, BarrierOK, CalmOK
<1> QED BY <1>3, <1>4

\* Every write is made, or one raises.
LEMMA DoneSafe == ASSUME Inv, Safe, Done PROVE Safe'
BY ResumeSafe DEF Done

\* The exception goes to the operation's handler.
LEMMA ExceptSafe == ASSUME Inv, Safe, Except PROVE Safe'
<1>1. job.ok # "" /\ Resume(job.err) /\ UNCHANGED <<files, opened>>
  BY DEF Inv, LockOK, Except
<1> QED BY <1>1, ResumeSafe

\* A Runtime stops.
LEMMA ExitsSafe ==
    ASSUME Inv, Safe, NEW r \in Runtimes, NEW code \in ExitCodes, Exits(r, code) PROVE Safe'
<1>1. /\ rt[r].kind = "full" /\ job' = (IF job.by = r THEN Idle ELSE job)
      /\ UNCHANGED <<files, opened>> /\ rt' = [rt EXCEPT ![r] = NoRuntime]
      /\ rt \in [Runtimes -> Rts] /\ Runtimes = {"child", "orphan"} /\ "child" # "orphan"
  BY DEF Exits, Inv, ProcsOK, Runtimes
<1>2. job' = job \/ job'.ok = ""
  BY <1>1, IdleIs
<1>3. CASE r = "child"
  <2>1. boot'.pc \in {"down", "exited"}
    BY <1>3 DEF Exits
  <2> QED BY <1>1, <1>2, <1>3, <2>1, BootMovesSafe
<1>4. CASE r = "orphan"
  <2>1. boot' = boot
    BY <1>1, <1>4 DEF Exits
  <2>2. rt'["orphan"] = NoRuntime /\ rt'["child"] = rt["child"]
    <3> DEFINE g == rt'
    <3>1. g = [rt EXCEPT !["orphan"] = NoRuntime]
      BY <1>1, <1>4
    <3> HIDE DEF g
    <3>2. g["orphan"] = NoRuntime /\ g["child"] = rt["child"]
      BY ONLY <1>1, <3>1, RtReplaced, NoRuntimeIs
    <3> QED BY <3>2 DEF g
  <2>3. ~Outlived' /\ rt'["orphan"].pc \notin {"start", "barrier"}
    BY <2>2, NoRuntimeIs DEF Outlived
  <2>4. Past("child")' <=> Past("child")
    BY <2>2 DEF Past
  <2>5. CourseOK'
    <3>1. CASE job' = job
      <4>1. Watched' => Watched
        BY <2>3, <3>1 DEF Watched
      <4> QED BY <1>1, <3>1, <4>1, CourseStays
    <3>2. CASE job'.ok = ""
      BY <3>2, CourseNone
    <3> QED BY <1>2, <3>1, <3>2
  <2>6. UNCHANGED files /\ UNCHANGED opened
    BY <1>1
  <2> QED BY <2>1, <2>2, <2>3, <2>4, <2>5, <2>6, StepSafe DEF Safe, Moving, BarrierOK, CalmOK
<1> QED BY <1>1, <1>3, <1>4

\* A startup check fails.
LEMMA RefusedSafe == ASSUME Inv, Safe, NEW r \in Runtimes, Refused(r) PROVE Safe'
BY ExitsSafe DEF Refused, ExitCodes

\* mark_data_barrier_crossed reads the receipt, which no rollback is undoing.
LEMMA ReadBarrierSafe == ASSUME Inv, Safe, NEW r \in Runtimes, ReadBarrier(r) PROVE Safe'
<1>0. rt \in [Runtimes -> Rts] /\ Runtimes = {"child", "orphan"} /\ "child" # "orphan" /\ FilesOK
  BY DEF Inv, ProcsOK, Runtimes
<1>1. r = "child"
  BY <1>0 DEF ReadBarrier, Safe, Moving, BarrierOK
<1>2. /\ rt' = [rt EXCEPT !["child"].pc = "barrier", !["child"].saw = receipt]
      /\ job' = job /\ boot' = boot /\ UNCHANGED files /\ UNCHANGED opened
      /\ rt["child"].kind = "full" /\ ~BarrierRaises(rt["child"].slot)
  BY <1>1 DEF ReadBarrier
<1>3. receipt \in Receipts \cup {NoFile} /\ (receipt # NoFile => receipt.state # "rollback_pending")
  BY <1>0, <1>2, FilesAre DEF BarrierRaises
<1> DEFINE e == [rt["child"] EXCEPT !.pc = "barrier", !.saw = receipt]
           g == rt'
<1>4. e \in Rts /\ e.pc = "barrier" /\ e.kind = "full" /\ e.saw = receipt
  <2>1. rt["child"] \in Rts
    BY <1>0
  <2> QED BY <1>2, <1>3, <2>1 DEF Rts, RtPcs
<1>5. g = [rt EXCEPT !["child"] = e]
  BY <1>2
<1> HIDE DEF e, g
<1>6. g["child"] = e /\ g["orphan"] = rt["orphan"]
  BY ONLY <1>0, <1>4, <1>5, RtReplaced
<1>7. rt'["child"] = e /\ rt'["orphan"] = rt["orphan"]
  BY <1>6 DEF g
<1>8. (Outlived' <=> Outlived) /\ ~Past("child")'
  BY <1>4, <1>7 DEF Outlived, Past
<1>9. Watched' => Watched
  BY <1>2, <1>8 DEF Watched
<1>10. CourseOK'
  BY <1>2, <1>9, CourseStays
<1> QED BY <1>2, <1>3, <1>4, <1>7, <1>8, <1>10, StepSafe DEF Safe, Moving, BarrierOK, CalmOK

\* Nothing but the files survives.
LEMMA PowerLossSafe == ASSUME Inv, Safe, PowerLoss PROVE Safe'
<1>1. /\ boot'.pc = "down" /\ rt' = [r \in Runtimes |-> NoRuntime] /\ job'.ok = ""
      /\ UNCHANGED files /\ UNCHANGED opened
  BY IdleIs, BootDownIs DEF PowerLoss
<1>2. rt'["child"] = NoRuntime /\ rt'["orphan"] = NoRuntime
  BY <1>1 DEF Runtimes
<1>3. /\ ~Outlived' /\ ~Past("child")' /\ rt'["child"].pc = "" /\ rt'["orphan"].pc = ""
      /\ CourseOK'
  BY <1>1, <1>2, NoRuntimeIs, CourseNone DEF Outlived, Past
<1> QED BY <1>1, <1>3, StepSafe

\* Bootstrap is killed: the Runtime that outlives it is past its barrier.
LEMMA BootKilledSafe == ASSUME Inv, Safe, Attended', BootKilled PROVE Safe'
<1> DEFINE survives == /\ rt["child"].kind = "full"
                       /\ \/ Orphans = "any"
                          \/ Orphans = "serving" /\ rt["child"].pc \notin {"start", "barrier"}
           e == IF survives THEN rt["child"] ELSE rt["orphan"]
           g == rt'
<1>1. /\ boot' = BootDown /\ UNCHANGED files /\ UNCHANGED opened
      /\ g = [rt EXCEPT !["child"] = NoRuntime, !["orphan"] = e]
      /\ job' = CASE job.by = "child" /\ survives -> [job EXCEPT !.by = "orphan"]
                  [] job.by = "orphan" -> job
                  [] OTHER -> Idle
  BY DEF BootKilled
<1>2. rt \in [Runtimes -> Rts] /\ job \in Jobs /\ Runtimes = {"child", "orphan"}
      /\ "child" # "orphan" /\ e \in Rts
  BY DEF Inv, ProcsOK, Runtimes
<1>3. (survives => rt["child"].kind = "full" /\ e = rt["child"])
      /\ (~survives => e = rt["orphan"])
  OBVIOUS
<1> HIDE DEF survives, e, g
<1>4. g["child"] = NoRuntime /\ g["orphan"] = e
  BY ONLY <1>1, <1>2, NoRuntimeIs
<1>5. rt'["child"] = NoRuntime /\ rt'["orphan"] = e
  BY <1>4 DEF g
<1>9. rt'["orphan"].pc \notin {"start", "barrier"} /\ (survives => Past("child"))
  BY <1>3, <1>5 DEF Attended, Past
<1>6. (Outlived' => Calm(Latest, Here)) /\ rt'["orphan"].pc \notin {"start", "barrier"}
  BY <1>3, <1>5, <1>9 DEF Outlived, Past, Safe, Moving, BarrierOK, CalmOK
<1>7. ~Past("child")' /\ rt'["child"].pc = "" /\ boot'.pc = "down"
  BY <1>1, <1>5, NoRuntimeIs, BootDownIs DEF Past
<1>8. CourseOK'
  <2>1. CASE job.by = "child" /\ survives
    <3>1. job'.writes = job.writes /\ job'.ok = job.ok /\ Watched
      BY <1>1, <1>2, <2>1 DEF Jobs, Watched
    <3> QED BY <1>1, <3>1, CourseStays
  <2>2. CASE job.by = "orphan"
    <3>1. job' = job /\ Watched
      BY <1>1, <1>2, <2>2 DEF Watched
    <3> QED BY <1>1, <3>1, CourseStays
  <2>3. CASE job.by # "orphan" /\ ~(job.by = "child" /\ survives)
    BY <1>1, <2>3, IdleIs, CourseNone
  <2> QED BY <2>1, <2>2, <2>3
<1> QED BY <1>1, <1>6, <1>7, <1>8, StepSafe

\* Nothing happens.
LEMMA StutteringSafe == ASSUME Inv, Safe, UNCHANGED vars PROVE Safe'
<1>1. UNCHANGED files /\ UNCHANGED <<job, boot, rt, mishaps, opened>>
  BY DEF vars
<1>2. (Outlived' <=> Outlived) /\ (Past("child")' <=> Past("child")) /\ (Watched' <=> Watched)
  BY <1>1 DEF Outlived, Past, Watched
<1>3. CourseOK'
  BY <1>1, <1>2, CourseStays
<1> QED BY <1>1, <1>2, <1>3, StepSafe DEF Safe, Moving, BarrierOK, CalmOK

-----------------------------------------------------------------------------
(* A write keeps it *)

\* The write w makes c of the files of t, and t is the latest transaction unless it is
\* only about to begin.
Makes(w, t, c) ==
    /\ w \in Writes /\ Accepted(w) /\ Apply(w) /\ t \in Txns /\ c \in Images /\ Deep(t, c)
    /\ Edge(w, t, Image(t), c) /\ Fits(w, t, Image(t))
    /\ Watched => Calm(t, c) /\ Gentle(w, t, Image(t))
    /\ c.st = journal'[t] /\ c.active = active' /\ c.ptr = ptr' /\ c.intent = intent'
    /\ c.receipt = receipt' /\ \A u \in Txns : u # t => journal'[u] = journal[u]
    /\ t = Latest \/ journal[t] = "none"
    /\ \/ Latest' = t /\ Here' = c
       \/ t # Latest /\ Latest' = Latest /\ w.file = "active" /\ journal' = journal
          /\ journal[Latest] \in TerminalStates

\* The next write of a course does.
LEMMA WriteIs ==
    ASSUME Inv, Safe, Write
    PROVE  /\ \E w, t, c : Makes(w, t, c)
           /\ CourseOK' /\ UNCHANGED <<boot, rt, mishaps, opened>> /\ job.ok # ""
<1> DEFINE ws == job.writes
           w == Head(ws)
<1>1. FilesOK /\ ProcsOK /\ LockOK /\ job \in Jobs /\ ws # <<>> /\ Accepted(w) /\ Apply(w)
  BY DEF Inv, ProcsOK, Write
<1>2. job.ok # ""
  BY <1>1 DEF LockOK
<1>3. PICK t, b : Starts(t) /\ Course(ws, t, Watched, Image(t), b)
  BY <1>2 DEF Safe, Moving, CourseOK, Courses
<1>4. w \in Writes /\ Tail(ws) \in Seq(Writes)
  <2>1. ws \in Seq(Writes) /\ ws # <<>>
    BY <1>1 DEF Jobs
  <2> HIDE DEF ws
  <2> QED BY <2>1
<1>5. w.file # "raise"
  BY <1>1, <1>4 DEF Accepted, Writes
<1> HIDE DEF w
<1>6. PICK c \in SafeNodes(t, Watched) :
        /\ <<w, Image(t), c>> \in SafeEdges(t, Watched)
        /\ Plan(Tail(ws), SafeEdges(t, Watched), SafeNodes(t, Watched), c, b)
  BY <1>1, <1>3, <1>5, PlanTail DEF w, Course
<1>7. /\ c \in Images /\ Deep(t, c) /\ (Watched => Calm(t, c))
      /\ Edge(w, t, Image(t), c) /\ Fits(w, t, Image(t)) /\ (Watched => Gentle(w, t, Image(t)))
  BY <1>6, SafeNodesAre, SafeEdgesAre
<1>8. /\ Image(t)' = c /\ Starts(t)' /\ t \in Txns /\ c.st = journal'[t]
      /\ c.active = active' /\ c.ptr = ptr' /\ c.intent = intent' /\ c.receipt = receipt'
      /\ \A u \in Txns : u # t => journal'[u] = journal[u]
      /\ IF w.file = "journal" \/ t = Latest
         THEN Latest' = t /\ Last(t)'
         ELSE /\ Latest' = Latest /\ w.file = "active" /\ journal' = journal
              /\ journal[Latest] \in TerminalStates
  BY <1>1, <1>3, <1>4, <1>7, WriteMoves
<1>9. t = Latest \/ journal[t] = "none"
  BY <1>1, <1>3, StartsAre DEF Image
<1>10. \/ Latest' = t /\ Here' = c
       \/ t # Latest /\ Latest' = Latest /\ w.file = "active" /\ journal' = journal
          /\ journal[Latest] \in TerminalStates
  <2>1. CASE w.file = "journal" \/ t = Latest
    <3>1. Latest' = t
      BY <1>8, <2>1
    <3>2. Here' = c
      BY <1>8, <3>1 DEF Here, Image
    <3> QED BY <3>1, <3>2
  <2>2. CASE ~(w.file = "journal" \/ t = Latest)
    BY <1>8, <2>2
  <2> QED BY <2>1, <2>2
<1>11. Makes(w, t, c)
  BY <1>1, <1>4, <1>7, <1>8, <1>9, <1>10 DEF Makes
<1>12. /\ job'.by = job.by /\ job'.writes = Tail(ws) /\ job'.ok = job.ok
       /\ UNCHANGED <<boot, rt, mishaps, opened>>
  BY <1>1, <1>4 DEF Write, Jobs
<1>13. CourseOK'
  <2>1. (Watched' <=> Watched) /\ Watched \in BOOLEAN /\ Watched' \in BOOLEAN
    BY <1>12 DEF Watched, Outlived
  <2>2. Course(job'.writes, t, Watched', Image(t)', b)
    BY <1>6, <1>8, <1>12, <2>1 DEF Course
  <2> QED BY <1>8, <2>2 DEF CourseOK, Courses
<1> QED BY <1>2, <1>11, <1>12, <1>13

\* Someone who watches sees calm files.
LEMMA WatchedIs == ASSUME Inv, Safe, Watched PROVE Calm(Latest, Here)
<1>1. CASE Outlived
  BY <1>1 DEF Safe, Moving, CalmOK
<1>2. CASE job.by \in Runtimes
  <2>1. PICK r \in Runtimes : job.by = r
    BY <1>2
  <2>2. rt[r].pc \in RtHolds /\ rt[r].kind = "full"
    BY <2>1 DEF Inv, LockOK
  <2>3. Past(r)
    BY <2>2 DEF Past, RtHolds
  <2> QED BY <2>3, PastIs
<1> QED BY <1>1, <1>2 DEF Watched

\* The files of a write about to begin a transaction: it changes the active file only.
LEMMA WriteBegins ==
    ASSUME Inv, Safe, Inv', NEW w, NEW t, NEW c, Makes(w, t, c), t # Latest, Latest' = Latest,
           w.file = "active"
    PROVE  /\ ptr' = ptr /\ intent' = intent /\ receipt' = receipt /\ slots' = slots
           /\ journal' = journal /\ Deep(Latest, Here)'
           /\ (Calm(Latest, Here)' <=> Calm(Latest, Here))
           /\ (Own(Latest, Here)' <=> Own(Latest, Here)) /\ (Undoable(Here)' <=> Undoable(Here))
<1> DEFINE a == Here
           b == Here'
           l == Latest
           x == active'
<1>1. /\ ptr' = ptr /\ intent' = intent /\ receipt' = receipt /\ slots' = slots
      /\ journal' = journal
  BY DEF Makes, Apply
<1>2. /\ a.st = journal[l] /\ a.active = active /\ a.ptr = ptr /\ a.intent = intent
      /\ a.receipt = receipt /\ l \in Txns /\ Deep(l, a)
  BY FilesAre DEF Here, Inv, Safe, Settled, DeepOK
<1>3. /\ b.st = journal[l] /\ b.active = x /\ b.ptr = ptr /\ b.intent = intent
      /\ b.receipt = receipt
  BY <1>1 DEF Here, Image
<1>4. journal[t] = "none" /\ journal[l] \in TerminalStates
  <2>1. journal[l] # "none"
    BY DEF Inv, FilesOK, Last
  <2>2. Latest' # t
    BY <2>1
  <2> QED BY <2>2 DEF Makes
<1>5. x = active \/ x = NoFile \/ (x.prior = NoFile /\ x.slot > x.base)
  <2>1. Image(t).st = "none" /\ Image(t).active = active /\ x = w.content
    BY <1>4 DEF Image, Makes, Apply
  <2>2. FitsActive(t, Image(t), w.content)
    BY DEF Makes, Fits
  <2> QED BY <2>1, <2>2 DEF FitsActive
<1> HIDE DEF a, b, l, x
<1>6. (Calm(l, b) <=> Calm(l, a)) /\ (Own(l, b) <=> Own(l, a)) /\ (Undoable(b) <=> Undoable(a))
  BY <1>2, <1>3 DEF Calm, Own, Undoable
<1>7. ActiveDeep(l, b)
  BY <1>2, <1>3, <1>5, <1>6 DEF Deep, ActiveDeep
<1>8. IntentDeep(l, b) /\ ReceiptDeep(l, b)
  BY <1>2, <1>3, <1>6 DEF Deep, IntentDeep, ReceiptDeep
<1>9. a.st \notin Switching /\ a.st # "activating"
  BY <1>2, <1>4 DEF Switching, TerminalStates
<1>10. ForeignDeep(l, b)
  BY <1>2, <1>3, <1>6, <1>9 DEF Deep, ForeignDeep
<1>11. OwnDeep(l, b)
  BY <1>2, <1>3, <1>6, <1>9 DEF Deep, OwnDeep, Pend
<1>12. Deep(l, b)
  BY <1>7, <1>8, <1>10, <1>11 DEF Deep
<1>13. /\ Deep(Latest, Here)' /\ (Calm(Latest, Here)' <=> Calm(Latest, Here))
       /\ (Own(Latest, Here)' <=> Own(Latest, Here)) /\ (Undoable(Here)' <=> Undoable(Here))
  BY <1>6, <1>12 DEF a, b, l
<1> QED BY <1>1, <1>13

\* The files of the transaction a write works on.
LEMMA MakesIs ==
    ASSUME Inv, Safe, NEW w, NEW t, NEW c, Makes(w, t, c)
    PROVE  /\ Image(t).st = journal[t] /\ Image(t).active = active /\ Image(t).ptr = ptr
           /\ Image(t).intent = intent /\ Image(t).receipt = receipt
           /\ t = Latest => Deep(t, Image(t)) /\ Image(t) \in Images /\ Image(t) = Here
           /\ t # Latest => journal[t] = "none"
           /\ w.file \notin {"journal", "active"} => t = Latest
<1>1. /\ Image(t).st = journal[t] /\ Image(t).active = active /\ Image(t).ptr = ptr
      /\ Image(t).intent = intent /\ Image(t).receipt = receipt
  BY DEF Image
<1>2. t = Latest => Deep(t, Image(t)) /\ Image(t) \in Images /\ Image(t) = Here
  BY DEF Inv, FilesOK, Safe, Settled, DeepOK, Here
<1>3. t # Latest => journal[t] = "none"
  BY DEF Makes
<1>4. w.file \notin {"journal", "active"} => t = Latest
  BY <1>1, <1>3 DEF Makes, Edge
<1> QED BY <1>1, <1>2, <1>3, <1>4

\* A new receipt is for the intent, or undoes the one before.
LEMMA WriteReceipts ==
    ASSUME Inv, Safe, NEW w, NEW t, NEW c, Makes(w, t, c)
    PROVE  \/ receipt' = receipt
           \/ /\ t = Latest /\ receipt' # NoFile /\ ~receipt'.barrier /\ receipt'.txn = t
              /\ UNCHANGED <<journal, active, ptr, slots, intent>>
              /\ \/ /\ Own(t, Image(t)) /\ receipt'.slot = intent.slot
                    /\ receipt'.prior = intent.prior
                    /\ \/ receipt'.state = "confirming" /\ journal[t] = "healthchecking"
                          /\ ptr.current = intent.slot
                       \/ receipt'.state = "confirmed" /\ journal[t] = "completed"
                          /\ Kept(intent, ptr)
                 \/ /\ Undoable(Image(t)) /\ receipt'.slot = receipt.slot
                    /\ receipt'.prior = receipt.prior
                    /\ \/ receipt'.state = "rollback_pending" /\ receipt.state = "confirmed"
                       \/ receipt'.state = "rolled_back_pre_data" /\ journal[t] = "rollback"
                          /\ receipt.state = "rollback_pending"
<1> DEFINE a == Image(t)
<1>1. CASE w.file # "receipt"
  BY <1>1 DEF Makes, Apply
<1>2. CASE w.file = "receipt"
  <2>1. /\ a.st = journal[t] /\ a.ptr = ptr /\ a.intent = intent /\ a.receipt = receipt
        /\ t = Latest /\ Deep(t, a) /\ a \in Images /\ t \in Txns
    BY <1>2, MakesIs DEF Makes
  <2>2. /\ receipt' = w.content /\ FitsReceipt(t, a, w.content)
        /\ UNCHANGED <<journal, active, ptr, slots, intent>>
    BY <1>2 DEF Makes, Apply, Fits
  <2>3. receipt' \in Receipts \cup {NoFile} /\ receipt \in Receipts \cup {NoFile}
    BY <2>1, ImagesAre DEF Makes
  <2> HIDE DEF a
  <2>4. CASE receipt' = receipt
    BY <2>4
  <2>5. CASE /\ Own(t, a) /\ a.st = "healthchecking" /\ a.ptr.current = a.intent.slot
             /\ receipt' = ReceiptFor(a.intent, "confirming")
    <3>1. /\ receipt'.state = "confirming" /\ receipt'.txn = intent.txn /\ ~receipt'.barrier
          /\ receipt'.slot = intent.slot /\ receipt'.prior = intent.prior /\ intent.txn = t
          /\ receipt' \in Receipts
      BY <2>1, <2>5, ReceiptForIs, IntentsAre, ImagesAre DEF Own
    <3> QED BY <2>1, <2>2, <2>5, <3>1, NoFileIs DEF a
  <2>6. CASE /\ Own(t, a) /\ a.st = "completed" /\ Kept(a.intent, a.ptr)
             /\ receipt' = ReceiptFor(a.intent, "confirmed")
    <3>1. /\ receipt'.state = "confirmed" /\ receipt'.txn = intent.txn /\ ~receipt'.barrier
          /\ receipt'.slot = intent.slot /\ receipt'.prior = intent.prior /\ intent.txn = t
          /\ receipt' \in Receipts
      BY <2>1, <2>6, ReceiptForIs, IntentsAre, ImagesAre DEF Own
    <3> QED BY <2>1, <2>2, <2>6, <3>1, NoFileIs DEF a
  <2>7. CASE /\ Undoable(a) /\ a.receipt.state = "confirmed"
             /\ receipt' = [a.receipt EXCEPT !.state = "rollback_pending"]
    <3>1. receipt \in Receipts /\ receipt.txn = t /\ ~receipt.barrier
      BY <2>1, <2>7, UndoableIs
    <3>2. /\ receipt'.state = "rollback_pending" /\ receipt'.txn = t /\ ~receipt'.barrier
          /\ receipt'.slot = receipt.slot /\ receipt'.prior = receipt.prior
          /\ receipt' \in Receipts
      <4>1. receipt' = [receipt EXCEPT !.state = "rollback_pending"]
        BY <2>1, <2>7
      <4> QED BY ONLY <3>1, <4>1, ReceiptsAre
    <3> QED BY <2>1, <2>2, <2>7, <3>2, NoFileIs DEF a
  <2>8. CASE /\ Pend(a) /\ a.st = "rollback"
             /\ receipt' = [a.receipt EXCEPT !.state = "rolled_back_pre_data"]
    <3>0. Undoable(a)
      BY <2>1, <2>3, <2>8, ReceiptsAre DEF Pend, Undoable, Deep, ReceiptDeep
    <3>1. receipt \in Receipts /\ receipt.txn = t /\ ~receipt.barrier
      BY <2>1, <3>0, UndoableIs
    <3>2. /\ receipt'.state = "rolled_back_pre_data" /\ receipt'.txn = t /\ ~receipt'.barrier
          /\ receipt'.slot = receipt.slot /\ receipt'.prior = receipt.prior
          /\ receipt' \in Receipts
      <4>1. receipt' = [receipt EXCEPT !.state = "rolled_back_pre_data"]
        BY <2>1, <2>8
      <4> QED BY ONLY <3>1, <4>1, ReceiptsAre
    <3> QED BY <2>1, <2>2, <2>8, <3>0, <3>2, NoFileIs DEF a, Pend
  <2> QED BY <2>1, <2>2, <2>4, <2>5, <2>6, <2>7, <2>8 DEF FitsReceipt
<1> QED BY <1>1, <1>2

\* A new intent is for the pointers as they are; one is removed when its switch is over.
LEMMA WriteIntents ==
    ASSUME Inv, Safe, NEW w, NEW t, NEW c, Makes(w, t, c)
    PROVE  \/ intent' = intent
           \/ /\ t = Latest /\ UNCHANGED <<journal, active, ptr, slots, receipt>>
              /\ \/ intent' = NoFile /\ Own(t, Image(t)) /\ journal[t] \notin Switching
                 \/ /\ intent = NoFile /\ intent' # NoFile /\ journal[t] = "activating"
                    /\ intent'.prior = ptr /\ Candidate(intent') /\ intent' \in Trials
<1> DEFINE a == Image(t)
<1>1. CASE w.file # "intent"
  BY <1>1 DEF Makes, Apply
<1>2. CASE w.file = "intent"
  <2>1. /\ a.st = journal[t] /\ a.ptr = ptr /\ a.intent = intent /\ a.receipt = receipt
        /\ t = Latest /\ Deep(t, a) /\ a \in Images /\ t \in Txns
    BY <1>2, MakesIs DEF Makes
  <2>2. /\ intent' = w.content /\ FitsIntent(t, a, w.content)
        /\ UNCHANGED <<journal, active, ptr, slots, receipt>>
    BY <1>2 DEF Makes, Apply, Fits
  <2>3. intent' \in Intents \cup {NoFile}
    BY ImagesAre DEF Makes
  <2> HIDE DEF a
  <2>4. CASE intent' = NoFile /\ Own(t, a) /\ a.st \notin Switching
    BY <2>1, <2>2, <2>4 DEF a
  <2>5. CASE /\ intent' # NoFile /\ a.intent = NoFile /\ a.st = "activating"
             /\ a.active # NoFile /\ intent' = IntentOf(a.active)
    <3>1. intent'.prior = ptr /\ Candidate(intent') /\ intent' \in Trials
      BY <2>1, <2>3, <2>5, IntentFresh, TrialsAre
    <3> QED BY <2>1, <2>2, <2>5, <3>1 DEF a
  <2> QED BY <2>2, <2>4, <2>5 DEF FitsIntent
<1> QED BY <1>1, <1>2

\* What is known of the pending files, at the latest transaction.
LEMMA HereSays ==
    ASSUME Inv, Safe
    PROVE  /\ Here.st = journal[Latest] /\ Here.active = active /\ Here.ptr = ptr
           /\ Here.intent = intent /\ Here.receipt = receipt /\ Deep(Latest, Here)
           /\ Here \in Images /\ Latest \in Txns /\ Here.st # "none"
BY FilesAre DEF Inv, FilesOK, Safe, Settled, DeepOK, Here

\* After the write, too.
LEMMA WriteDeep ==
    ASSUME Inv, Safe, Inv', NEW w, NEW t, NEW c, Makes(w, t, c)
    PROVE  /\ DeepOK' /\ (Watched => Calm(Latest, Here)')
<1>1. CASE Latest' = t /\ Here' = c
  BY <1>1 DEF Makes, DeepOK
<1>2. CASE /\ t # Latest /\ Latest' = Latest /\ w.file = "active" /\ journal' = journal
           /\ journal[Latest] \in TerminalStates
  BY <1>2, WriteBegins, WatchedIs DEF DeepOK
<1> QED BY <1>1, <1>2 DEF Makes

\* The fields of the files after a step.
LEMMA HereNext ==
    /\ Here'.st = journal'[Latest'] /\ Here'.active = active' /\ Here'.ptr = ptr'
    /\ Here'.intent = intent' /\ Here'.receipt = receipt'
BY DEF Here, Image

\* What has been opened stays completed and closed.
LEMMA WriteOpened ==
    ASSUME Inv, Safe, Inv', NEW w, NEW t, NEW c, Makes(w, t, c), opened' = opened
    PROVE  OpenedOK'
<1> DEFINE a == Image(t)
<1>0. OpenedOK /\ opened \subseteq Txns /\ t \in Txns
  BY DEF Safe, Settled, Inv, ProcsOK, Makes
<1>1. /\ a.st = journal[t] /\ a.active = active /\ a.ptr = ptr /\ a.intent = intent
      /\ a.receipt = receipt
      /\ t = Latest => Deep(t, a) /\ a \in Images /\ a = Here
      /\ t # Latest => journal[t] = "none"
  BY MakesIs
<1>2. ASSUME t \in opened
      PROVE  /\ t = Latest /\ a.st = "completed" /\ ~Own(t, a) /\ ~Undoable(a) /\ ~Pend(a)
  <2>1. t = Latest /\ a.st = "completed"
    BY <1>0, <1>1, <1>2 DEF OpenedOK
  <2>2. ~Own(t, a) /\ ~Undoable(a)
    BY <1>0, <1>1, <1>2, <2>1 DEF OpenedOK
  <2>3. ~Pend(a)
    <3>1. a.receipt \in Receipts \cup {NoFile}
      BY <1>1, <2>1, ImagesAre
    <3> QED BY <1>1, <2>1, <2>2, <3>1, ReceiptsAre DEF Pend, Undoable, Deep, ReceiptDeep
  <2> QED BY <2>1, <2>2, <2>3
<1>3. \A u \in opened : journal'[u] = "completed"
  <2> SUFFICES ASSUME NEW u \in opened PROVE journal'[u] = "completed"
    OBVIOUS
  <2>1. CASE u # t
    BY <1>0, <2>1 DEF Makes, OpenedOK
  <2>2. CASE u = t
    <3>1. a.st = "completed" /\ ~Own(t, a) /\ ~Pend(a) /\ journal[t] = "completed"
      BY <1>1, <1>2, <2>2
    <3>2. CASE w.file # "journal"
      BY <2>2, <3>1, <3>2 DEF Makes, Apply
    <3>3. CASE w.file = "journal"
      <4>1. journal'[t] = w.content.state /\ FitsJournal(t, a, w.content.state)
        <5>1. c.st = w.content.state
          BY <3>3 DEF Makes, Edge, Made
        <5> QED BY <3>3, <5>1 DEF Makes, Fits
      <4> HIDE DEF a
      <4> QED BY <2>2, <3>1, <4>1 DEF FitsJournal, Preparing, Switching
    <3> QED BY <3>2, <3>3
  <2> QED BY <2>1, <2>2
<1>4. \/ receipt' = receipt
      \/ /\ t = Latest /\ receipt' # NoFile /\ ~receipt'.barrier /\ receipt'.txn = t
         /\ UNCHANGED <<journal, active, ptr, slots, intent>>
         /\ Own(t, a) \/ Undoable(a)
  BY WriteReceipts
<1>5. \/ intent' = intent \/ intent' = NoFile \/ (t = Latest /\ journal[t] = "activating")
  BY WriteIntents
<1>6. Latest' \in opened => Latest' = Latest /\ Latest \in opened
  <2>1. Latest' = t \/ Latest' = Latest
    BY DEF Makes
  <2> QED BY <1>2, <2>1
<1>7. ASSUME Latest' \in opened PROVE ~Own(Latest, Here)' /\ ~Undoable(Here)'
  <2>1. Latest' = Latest /\ Latest \in opened /\ ~Own(Latest, Here) /\ ~Undoable(Here)
        /\ journal[Latest] = "completed"
    BY <1>0, <1>6, <1>7 DEF OpenedOK
  <2>2. receipt' = receipt
    <3>1. t = Latest => ~Own(t, a) /\ ~Undoable(a)
      BY <1>1, <2>1
    <3> QED BY <1>4, <3>1
  <2>3. intent' = intent \/ intent' = NoFile
    BY <1>5, <2>1
  <2>4. Here.intent = intent /\ Here.receipt = receipt
    BY HereSays
  <2> QED BY <2>1, <2>2, <2>3, <2>4, HereNext DEF Own, Undoable
<1>8. ASSUME receipt' # NoFile, receipt'.state = "confirmed"
      PROVE  journal'[receipt'.txn] = "completed"
  <2>1. CASE receipt'.txn = Latest'
    <3>1. Deep(Latest', Here')
      BY WriteDeep DEF DeepOK
    <3>2. Here'.st = "completed"
      BY <1>8, <2>1, <3>1, HereNext DEF Deep, ReceiptDeep
    <3> QED BY <2>1, <3>2, HereNext
  <2>2. CASE receipt'.txn # Latest'
    <3>1. t = Latest => Latest' = t
      BY DEF Makes
    <3>2. receipt' = receipt
      BY <1>4, <2>2, <3>1
    <3>3. receipt \in Receipts /\ receipt.txn \in Txns /\ journal[receipt.txn] = "completed"
      BY <1>0, <1>8, <3>2, HereSays, ImagesAre, ReceiptsAre DEF OpenedOK
    <3>4. CASE receipt.txn # t
      BY <3>2, <3>3, <3>4 DEF Makes
    <3>5. CASE receipt.txn = t
      BY <1>1, <2>2, <3>1, <3>2, <3>3, <3>5
    <3> QED BY <3>4, <3>5
  <2> QED BY <2>1, <2>2
<1>9. receipt' # NoFile /\ receipt'.barrier => receipt'.txn \in opened
  BY <1>0, <1>4 DEF OpenedOK
<1>10. /\ \A u \in opened' : journal'[u] = "completed"
       /\ Latest' \in opened' => ~Own(Latest, Here)' /\ ~Undoable(Here)'
       /\ receipt' # NoFile /\ receipt'.barrier => receipt'.txn \in opened'
  BY <1>3, <1>7, <1>9
<1> QED BY <1>8, <1>10 DEF OpenedOK

\* The slots pointers name are among those that are protected.
LEMMA WantedProtected == ASSUME NEW p PROVE Wanted(p) \subseteq Protected(p)
BY DEF Wanted, Protected

\* No slot that is needed is discarded.
LEMMA WriteSlots ==
    ASSUME Inv, Safe, Inv', NEW w, NEW t, NEW c, Makes(w, t, c)
    PROVE  SlotsOK'
<1> DEFINE a == Image(t)
<1>0. SlotsOK
  BY DEF Safe, Settled
<1>1. /\ a.st = journal[t] /\ a.active = active /\ a.ptr = ptr /\ a.intent = intent
      /\ a.receipt = receipt
      /\ t = Latest => Deep(t, a) /\ a \in Images /\ a = Here
      /\ w.file \notin {"journal", "active"} => t = Latest
  BY MakesIs
<1>2. Accepted(w) /\ Apply(w) /\ w \in Writes /\ Fits(w, t, a) /\ t \in Txns
  BY DEF Makes
<1>3. Protected(ptr') \subseteq slots'
  <2>1. CASE w.file = "ptr"
    BY <1>2, <2>1 DEF Accepted, Apply
  <2>2. CASE w.file # "ptr"
    <3>1. ptr' = ptr /\ Protected(ptr) \subseteq slots
      BY <1>0, <1>2, <2>2 DEF Apply, SlotsOK
    <3>2. CASE w.file = "discard"
      BY <1>2, <3>1, <3>2 DEF Accepted, Apply
    <3>3. CASE w.file # "discard"
      <4>1. Protected(ptr) \subseteq slots'
        BY <1>2, <3>1, <3>3 DEF Apply
      <4> QED BY <3>1, <4>1
    <3> QED BY <3>2, <3>3
  <2> QED BY <2>1, <2>2
<1>4. ASSUME w.file \in {"discard", "try_discard"}
      PROVE  /\ t = Latest /\ FitsSlot(t, a, w.content) /\ Deep(t, a) /\ a \in Images
             /\ \A v : v \in slots /\ v # w.content => v \in slots'
             /\ UNCHANGED <<journal, active, ptr, intent, receipt>>
  <2>1. t = Latest /\ Deep(t, a) /\ a \in Images /\ FitsSlot(t, a, w.content)
    BY <1>1, <1>2, <1>4 DEF Fits
  <2>2. /\ \A v : v \in slots /\ v # w.content => v \in slots'
        /\ UNCHANGED <<journal, active, ptr, intent, receipt>>
    BY <1>2, <1>4 DEF Apply
  <2> QED BY <2>1, <2>2
<1>5. w.file \notin {"discard", "try_discard"} => slots \subseteq slots'
  BY <1>2 DEF Apply
<1> HIDE DEF a
<1>6. ASSUME intent' # NoFile PROVE Wanted(intent'.prior) \subseteq slots'
  <2>1. CASE w.file \in {"discard", "try_discard"}
    <3>1. intent' = intent /\ ptr' = ptr /\ Wanted(intent.prior) \subseteq slots
      BY <1>0, <1>4, <1>6, <2>1 DEF SlotsOK
    <3>2. CASE Own(t, a)
      <4>1. w.content = a.intent.slot /\ a.intent \in Trials /\ Candidate(a.intent)
        BY <1>2, <1>4, <2>1, <3>2, OwnIs DEF FitsSlot
      <4>2. w.content \notin Wanted(intent.prior)
        BY <1>1, <4>1, CandidateIs
      <4> QED BY <1>4, <2>1, <3>1, <4>2
    <3>3. CASE ~Own(t, a)
      <4>1. ptr = intent.prior
        BY <1>1, <1>4, <1>6, <2>1, <3>1, <3>3 DEF Deep, ForeignDeep
      <4> QED BY <1>3, <3>1, <4>1, WantedProtected
    <3> QED BY <3>2, <3>3
  <2>2. CASE w.file \notin {"discard", "try_discard"}
    <3>1. CASE intent' = intent
      BY <1>0, <1>5, <1>6, <2>2, <3>1 DEF SlotsOK
    <3>2. CASE intent' # intent
      <4>1. intent'.prior = ptr /\ ptr' = ptr
        BY <1>6, <3>2, WriteIntents
      <4> QED BY <1>3, <4>1, WantedProtected
    <3> QED BY <3>1, <3>2
  <2> QED BY <2>1, <2>2
<1>7. Undoable(Here) <=> receipt # NoFile /\ ~receipt.barrier
                         /\ receipt.state \in {"confirmed", "rollback_pending"}
  BY HereSays DEF Undoable
<1>8. Undoable(Here)' <=> receipt' # NoFile /\ ~receipt'.barrier
                          /\ receipt'.state \in {"confirmed", "rollback_pending"}
  BY HereNext DEF Undoable
<1>9. ASSUME Undoable(Here)' PROVE Wanted(receipt'.prior) \subseteq slots'
  <2>1. CASE receipt' = receipt
    <3>1. Undoable(Here) /\ Wanted(receipt.prior) \subseteq slots
      BY <1>0, <1>7, <1>8, <1>9, <2>1 DEF SlotsOK
    <3>2. CASE w.file \in {"discard", "try_discard"}
      <4>1. Undoable(a)
        BY <1>1, <1>4, <3>1, <3>2 DEF Undoable
      <4>2. w.content = a.receipt.slot /\ a.receipt \in Trials /\ Candidate(a.receipt)
        BY <1>2, <1>4, <3>2, <4>1, UndoableIs DEF FitsSlot
      <4>3. w.content \notin Wanted(receipt.prior)
        BY <1>1, <4>2, CandidateIs
      <4> QED BY <1>4, <2>1, <3>1, <3>2, <4>3
    <3>3. CASE w.file \notin {"discard", "try_discard"}
      BY <1>5, <2>1, <3>1, <3>3
    <3> QED BY <3>2, <3>3
  <2>2. CASE receipt' # receipt
    <3>1. /\ slots' = slots
          /\ \/ Own(t, a) /\ receipt'.prior = intent.prior
             \/ Undoable(a) /\ receipt'.prior = receipt.prior
      BY <2>2, WriteReceipts DEF a
    <3>2. CASE Own(t, a) /\ receipt'.prior = intent.prior
      BY <1>0, <1>1, <3>1, <3>2 DEF Own, SlotsOK
    <3>3. CASE Undoable(a) /\ receipt'.prior = receipt.prior
      <4>1. Undoable(Here)
        BY <1>1, <1>7, <3>3 DEF Undoable
      <4> QED BY <1>0, <3>1, <3>3, <4>1 DEF SlotsOK
    <3> QED BY <3>1, <3>2, <3>3
  <2> QED BY <2>1, <2>2
<1> QED BY <1>3, <1>6, <1>9 DEF SlotsOK

\* A write keeps it all.
LEMMA WriteSafe == ASSUME Inv, Safe, Inv', Write PROVE Safe'
<1>1. /\ \E w, t, c : Makes(w, t, c)
      /\ CourseOK' /\ UNCHANGED <<boot, rt, mishaps, opened>> /\ job.ok # ""
  BY WriteIs
<1>2. PICK w, t, c : Makes(w, t, c)
  BY <1>1
<1>3. Settled'
  BY <1>1, <1>2, WriteDeep, WriteOpened, WriteSlots DEF Settled
<1>4. boot.pc = "watch" => Watched
  <2>1. job.by # "nobody"
    BY <1>1, IdleIs DEF Inv, LockOK
  <2>2. boot.pc = "watch" => job.by # "boot"
    BY DEF Inv, LockOK, BootHolds
  <2> QED BY <2>1, <2>2 DEF Watched, Inv, ProcsOK, Jobs
<1>5. rt["child"].kind = "full" => boot.pc = "watch"
  BY DEF Inv, LockOK
<1>6. Watched => Calm(Latest, Here)' /\ receipt' = receipt
  <2>1. Watched => Calm(Latest, Here)'
    BY <1>2, WriteDeep
  <2>2. Watched => receipt' = receipt
    BY <1>2, MakesIs DEF Makes, Gentle, Apply
  <2> QED BY <2>1, <2>2
<1>7. (Outlived' <=> Outlived) /\ (Past("child")' <=> Past("child")) /\ (Outlived => Watched)
      /\ (Past("child") => rt["child"].kind = "full") /\ boot' = boot /\ rt' = rt
  BY <1>1 DEF Outlived, Past, Watched
<1>8. BarrierOK'
  BY <1>4, <1>5, <1>6, <1>7 DEF Safe, Moving, BarrierOK
<1>9. CalmOK'
  BY <1>4, <1>5, <1>6, <1>7 DEF CalmOK
<1> QED BY <1>1, <1>3, <1>8, <1>9 DEF Safe, Moving

-----------------------------------------------------------------------------
(* Crossing the barrier keeps it *)

\* Pruning keeps what the pointers protect.
LEMMA PrunedKeeps ==
    ASSUME NEW s \in Pruned \cup {slots}, Protected(ptr) \subseteq slots
    PROVE  Protected(ptr) \subseteq s
<1>1. CASE s = slots
  BY <1>1
<1>2. CASE s \in Pruned
  <2>1. PICK g \in SUBSET (slots \ Protected(ptr)) : s = slots \ g
    BY <1>2 DEF Pruned
  <2> QED BY <2>1
<1> QED BY <1>1, <1>2

\* Who crosses the barrier, and what it finds: the Runtime that Bootstrap watches, and the
\* receipt it read.
LEMMA CrossIs ==
    ASSUME Inv, Safe, NEW r \in Runtimes, CrossBarrier(r)
    PROVE  /\ r = "child" /\ rt["child"].saw = receipt /\ boot.pc = "watch"
           /\ receipt \in Receipts \cup {NoFile}
           /\ receipt # NoFile => receipt.state # "rollback_pending"
           /\ Own(Latest, Here) => Calm(Latest, Here)
           /\ rt'["child"].pc = "open" /\ rt'["orphan"] = rt["orphan"]
           /\ UNCHANGED <<journal, active, ptr, intent, job, boot, mishaps>>
<1>0. rt \in [Runtimes -> Rts] /\ Runtimes = {"child", "orphan"} /\ "child" # "orphan" /\ FilesOK
  BY DEF Inv, ProcsOK, Runtimes
<1>1. r = "child"
  BY <1>0 DEF CrossBarrier, Safe, Moving, BarrierOK
<1>2. /\ rt["child"].kind = "full" /\ rt["child"].pc = "barrier"
      /\ rt' = [rt EXCEPT !["child"].pc = "open", !["child"].saw = NoFile]
      /\ UNCHANGED <<journal, active, ptr, intent, job, boot, mishaps>>
  BY <1>1 DEF CrossBarrier
<1>3. /\ boot.pc = "watch" /\ rt["child"].saw = receipt /\ receipt \in Receipts \cup {NoFile}
      /\ receipt # NoFile => receipt.state # "rollback_pending"
  BY <1>0, <1>2, FilesAre DEF Inv, LockOK, Safe, Moving, BarrierOK
<1>4. Own(Latest, Here) => Calm(Latest, Here)
  BY <1>3 DEF Safe, Moving, CalmOK
<1> DEFINE e == [rt["child"] EXCEPT !.pc = "open", !.saw = NoFile]
           g == rt'
<1>5. e \in Rts /\ e.pc = "open"
  <2>1. rt["child"] \in Rts
    BY <1>0
  <2> QED BY <2>1 DEF Rts, RtPcs
<1>6. g = [rt EXCEPT !["child"] = e]
  BY <1>2
<1> HIDE DEF e, g
<1>7. g["child"] = e /\ g["orphan"] = rt["orphan"]
  BY ONLY <1>0, <1>5, <1>6, RtReplaced
<1>8. rt'["child"].pc = "open" /\ rt'["orphan"] = rt["orphan"]
  BY <1>5, <1>7 DEF g
<1> QED BY <1>1, <1>2, <1>3, <1>4, <1>8

\* A receipt whose barrier is crossed already, or that confirms nothing, is left as it is.
LEMMA CrossAgainSafe ==
    ASSUME Inv, Safe, NEW r \in Runtimes, CrossBarrier(r),
           ~(receipt # NoFile /\ receipt.state = "confirmed" /\ ~receipt.barrier)
    PROVE  Safe' /\ UNCHANGED files
<1>1. /\ r = "child" /\ rt["child"].saw = receipt /\ boot.pc = "watch"
      /\ receipt \in Receipts \cup {NoFile}
      /\ receipt # NoFile => receipt.state # "rollback_pending"
      /\ Own(Latest, Here) => Calm(Latest, Here)
      /\ rt'["child"].pc = "open" /\ rt'["orphan"] = rt["orphan"]
      /\ UNCHANGED <<journal, active, ptr, intent, job, boot, mishaps>>
  BY CrossIs
<1>2. /\ receipt' = receipt /\ slots' = slots
      /\ opened' = IF receipt # NoFile /\ receipt.state = "confirmed"
                   THEN opened \cup {receipt.txn} ELSE opened
  BY <1>1 DEF CrossBarrier
<1>3. opened' = opened
  <2>1. receipt # NoFile /\ receipt.state = "confirmed" => receipt.txn \in opened
    BY DEF Safe, Settled, OpenedOK
  <2> QED BY <1>2, <2>1
<1>4. UNCHANGED files
  BY <1>1, <1>2 DEF files
<1>5. (Outlived' <=> Outlived) /\ (Watched' <=> Watched)
  BY <1>1 DEF Outlived, Watched
<1>6. CourseOK'
  BY <1>1, <1>4, <1>5, CourseStays
<1>7. ~Undoable(Here)
  BY <1>1, HereSays DEF Undoable
<1>8. Calm(Latest, Here)
  BY <1>1, <1>7 DEF Calm
<1> QED BY <1>1, <1>3, <1>4, <1>5, <1>6, <1>8, StepSafe DEF Safe, Moving, BarrierOK, CalmOK

\* What the first crossing finds and makes: the switch is over, and its receipt closes it.
LEMMA CrossFirst ==
    ASSUME Inv, Safe, NEW r \in Runtimes, CrossBarrier(r),
           receipt # NoFile, receipt.state = "confirmed", ~receipt.barrier
    PROVE  /\ Undoable(Here) /\ intent = NoFile /\ ~Outlived /\ job = Idle
           /\ receipt.txn = Latest /\ journal[Latest] = "completed" /\ Kept(receipt, ptr)
           /\ Candidate(receipt) /\ receipt \in Trials
           /\ receipt' # NoFile /\ receipt'.barrier /\ receipt'.state = "confirmed"
           /\ receipt'.txn = Latest /\ receipt'.slot = receipt.slot
           /\ slots' \in Pruned \cup {slots} /\ opened' = opened \cup {Latest}
           /\ Latest' = Latest
<1>1. /\ r = "child" /\ rt["child"].saw = receipt /\ boot.pc = "watch"
      /\ receipt \in Receipts /\ rt["child"].pc = "barrier"
      /\ Own(Latest, Here) => Calm(Latest, Here)
      /\ UNCHANGED <<journal, active, ptr, intent, job, boot, mishaps>>
  BY CrossIs DEF CrossBarrier
<1>2. /\ receipt' = [receipt EXCEPT !.barrier = TRUE] /\ slots' \in Pruned \cup {slots}
      /\ opened' = opened \cup {receipt.txn}
  BY <1>1 DEF CrossBarrier
<1>3. /\ Undoable(Here) /\ Deep(Latest, Here) /\ Here \in Images /\ Latest \in Txns
      /\ Here.receipt = receipt /\ Here.intent = intent /\ Here.ptr = ptr
      /\ Here.st = journal[Latest]
  BY HereSays DEF Undoable
<1>4. ~Calm(Latest, Here) /\ ~Own(Latest, Here)
  BY <1>1, <1>3 DEF Calm
<1>5. /\ receipt.txn = Latest /\ intent = NoFile /\ Candidate(receipt) /\ receipt \in Trials
  BY <1>3, <1>4, UndoableIs
<1>6. journal[Latest] = "completed" /\ Kept(receipt, ptr)
  BY <1>3, <1>5 DEF Deep, ReceiptDeep
<1>7. ~Outlived
  BY <1>4 DEF Safe, Moving, CalmOK
<1>8. job = Idle
  <2>1. job.by # "boot"
    BY <1>1 DEF Inv, LockOK, BootHolds
  <2>2. job.by # "child" /\ job.by # "orphan"
    <3>1. rt["orphan"] = NoRuntime /\ rt["orphan"].pc = ""
      BY <1>7, NoRuntimeIs DEF Outlived
    <3> QED BY <1>1, <3>1 DEF Inv, LockOK, RtHolds, Runtimes
  <2>3. job.by \in {"nobody", "boot"} \cup {"child", "orphan"}
    BY DEF Inv, ProcsOK, Jobs, Runtimes
  <2> QED BY <2>1, <2>2, <2>3 DEF Inv, LockOK
<1>9. /\ receipt' \in Receipts /\ receipt'.barrier /\ receipt'.state = "confirmed"
      /\ receipt'.txn = Latest /\ receipt'.slot = receipt.slot
  BY <1>1, <1>2, <1>5 DEF Receipts, ReceiptFiles
<1>10. Latest' = Latest
  BY <1>1 DEF Latest
<1> QED BY <1>2, <1>3, <1>5, <1>6, <1>7, <1>8, <1>9, <1>10, NoFileIs

\* The first crossing keeps it.
LEMMA CrossFirstSafe ==
    ASSUME Inv, Safe, Inv', NEW r \in Runtimes, CrossBarrier(r),
           receipt # NoFile, receipt.state = "confirmed", ~receipt.barrier
    PROVE  Safe'
<1>1. /\ Undoable(Here) /\ intent = NoFile /\ ~Outlived /\ job = Idle
      /\ receipt.txn = Latest /\ journal[Latest] = "completed"
      /\ receipt' # NoFile /\ receipt'.barrier /\ receipt'.state = "confirmed"
      /\ receipt'.txn = Latest /\ slots' \in Pruned \cup {slots}
      /\ opened' = opened \cup {Latest} /\ Latest' = Latest
  BY CrossFirst
<1>2. /\ boot.pc = "watch" /\ rt'["child"].pc = "open" /\ rt'["orphan"] = rt["orphan"]
      /\ UNCHANGED <<journal, active, ptr, intent, job, boot, mishaps>>
  BY CrossIs
<1> DEFINE a == Here
           b == Here'
           l == Latest
<1>3. /\ a.st = "completed" /\ a.active = active /\ a.ptr = ptr /\ a.intent = NoFile
      /\ Deep(l, a) /\ l \in Txns
  BY <1>1, HereSays
<1>4. /\ b.st = "completed" /\ b.active = active /\ b.ptr = ptr /\ b.intent = NoFile
      /\ b.receipt = receipt'
  BY <1>1, <1>2, HereNext
<1> HIDE DEF a, b
<1>5. ~Own(l, b) /\ ~Own(l, a) /\ ~Undoable(b)
  BY <1>1, <1>3, <1>4 DEF Own, Undoable
<1>6. Calm(l, b)
  BY <1>5 DEF Calm
<1>7. ActiveDeep(l, b)
  BY <1>3, <1>4 DEF Deep, ActiveDeep, Preparing
<1>8. IntentDeep(l, b) /\ OwnDeep(l, b)
  BY <1>4, <1>5 DEF IntentDeep, OwnDeep
<1>9. ForeignDeep(l, b)
  BY <1>3, <1>4, <1>5 DEF Deep, ForeignDeep
<1>10. ReceiptDeep(l, b)
  <2>1. l <= l
    BY <1>3, BoundsAssumption DEF Txns
  <2> QED BY <1>1, <1>4, <1>5, <2>1 DEF ReceiptDeep
<1>11. DeepOK'
  BY <1>1, <1>7, <1>8, <1>9, <1>10 DEF Deep, DeepOK, b, l
<1>12. ~Own(Latest, Here)' /\ ~Undoable(Here)' /\ Calm(Latest, Here)'
  BY <1>1, <1>5, <1>6 DEF b, l
<1>13. OpenedOK'
  <2>1. \A t \in opened' : journal'[t] = "completed"
    BY <1>1, <1>2 DEF Safe, Settled, OpenedOK
  <2> QED BY <1>1, <1>2, <1>12, <2>1 DEF OpenedOK
<1>14. SlotsOK'
  <2>1. Protected(ptr) \subseteq slots'
    BY <1>1, PrunedKeeps DEF Safe, Settled, SlotsOK
  <2> QED BY <1>1, <1>2, <1>12, <2>1 DEF SlotsOK
<1>15. CourseOK'
  BY <1>1, <1>2, IdleIs, CourseNone
<1>16. ~Outlived'
  BY <1>1, <1>2 DEF Outlived
<1>17. BarrierOK'
  BY <1>2, <1>16 DEF BarrierOK, Safe, Moving
<1>18. CalmOK'
  BY <1>12, <1>16 DEF CalmOK
<1> QED BY <1>11, <1>13, <1>14, <1>15, <1>17, <1>18 DEF Safe, Settled, Moving

\* mark_data_barrier_crossed keeps it all.
LEMMA CrossBarrierSafe ==
    ASSUME Inv, Safe, Inv', NEW r \in Runtimes, CrossBarrier(r) PROVE Safe'
BY CrossAgainSafe, CrossFirstSafe

-----------------------------------------------------------------------------
(* It holds in every reachable state *)

\* The first install.
LEMMA SafeInitially == Init => Safe
<1> SUFFICES ASSUME Init PROVE Safe
  OBVIOUS
<1>1. Inv
  BY Initially
<1>2. /\ active = NoFile /\ intent = NoFile /\ slots = {1} /\ job = Idle /\ opened = {0}
      /\ boot = BootDown /\ rt = [r \in Runtimes |-> NoRuntime]
      /\ journal = [t \in Txns |-> IF t = 0 THEN "completed" ELSE "none"]
  BY DEF Init
<1>3. ptr.current = 1 /\ ptr.previous = None /\ ptr.good = <<1>>
  BY DEF Init
<1>4. /\ receipt.state = "confirmed" /\ receipt.txn = 0 /\ receipt.slot = 1 /\ receipt.barrier
  BY DEF Init
<1>5. 0 \in Txns /\ \A u \in Txns : u \in Nat
  BY BoundsAssumption DEF Txns
<1>6. journal[0] = "completed" /\ \A u \in Txns : u > 0 => journal[u] = "none"
  BY <1>2, <1>5
<1>7. Latest = 0
  BY <1>5, <1>6, LatestIs DEF Last
<1>8. Good(ptr) = {1}
  <2> DEFINE one == <<1>>
  <2>1. DOMAIN one = {1} /\ one[1] = 1
    OBVIOUS
  <2> HIDE DEF one
  <2>2. Good(ptr) = {one[i] : i \in DOMAIN one}
    BY <1>3 DEF Good, one
  <2> QED BY <2>1, <2>2
<1>9. Trusted(ptr) /\ Protected(ptr) = {1}
  BY <1>3, <1>8 DEF Trusted, Protected, None
<1>10. /\ Here.st = "completed" /\ Here.active = NoFile /\ Here.ptr = ptr
       /\ Here.intent = NoFile /\ Here.receipt = receipt
  BY <1>2, <1>6, <1>7 DEF Here, Image
<1>11. ~Own(Latest, Here) /\ ~Undoable(Here)
  BY <1>4, <1>10 DEF Own, Undoable
<1>12. DeepOK
  <2>1. ActiveDeep(Latest, Here) /\ IntentDeep(Latest, Here) /\ OwnDeep(Latest, Here)
    BY <1>10, <1>11 DEF ActiveDeep, IntentDeep, OwnDeep
  <2>2. ForeignDeep(Latest, Here)
    BY <1>9, <1>10 DEF ForeignDeep
  <2>3. ReceiptDeep(Latest, Here)
    BY <1>4, <1>7, <1>10, <1>11 DEF ReceiptDeep
  <2> QED BY <2>1, <2>2, <2>3 DEF DeepOK, Deep
<1>13. OpenedOK
  BY <1>2, <1>4, <1>6, <1>11 DEF OpenedOK
<1>14. SlotsOK
  BY <1>2, <1>9, <1>11 DEF SlotsOK
<1>15. rt["child"] = NoRuntime /\ rt["orphan"] = NoRuntime
  BY <1>2 DEF Runtimes
<1>16. CourseOK /\ BarrierOK /\ CalmOK
  BY <1>2, <1>15, IdleIs, BootDownIs, NoRuntimeIs
     DEF CourseOK, BarrierOK, CalmOK, Outlived, Past
<1> QED BY <1>12, <1>13, <1>14, <1>16 DEF Safe, Settled, Moving

\* Every step that leaves no Runtime unattended and prepares no older release keeps it.
LEMMA SafeInductive ==
    Inv /\ Safe /\ [Next]_vars /\ [Upgrading]_vars /\ Attended' => (Inv /\ Safe)'
<1> SUFFICES ASSUME Inv, Safe, [Next]_vars, [Upgrading]_vars, Attended' PROVE Inv' /\ Safe'
  OBVIOUS
<1>0. Inv'
  BY Inductive
<1>1. CASE Locked
  BY <1>0, <1>1, WriteSafe, DoneSafe, ExceptSafe DEF Locked
<1>2. CASE Bootstrap
  BY <1>0, <1>2, BootStartSafe, SelectSafe, EnsureSafe, LaunchSafe, ReconfirmSafe,
     StopCandidateSafe, FailPendingSafe, RollbackConfirmedSafe, ProbeAnswersSafe, ConfirmSafe DEF Bootstrap
<1>3. CASE PowerLoss \/ BootKilled
  BY <1>0, <1>3, PowerLossSafe, BootKilledSafe
<1>4. ASSUME NEW r \in Runtimes,
             \/ ReadBarrier(r) \/ CrossBarrier(r) \/ Refused(r)
             \/ \E code \in ExitCodes : Exits(r, code)
      PROVE  Safe'
  BY <1>0, <1>4, ReadBarrierSafe, CrossBarrierSafe, RefusedSafe, ExitsSafe
<1>5. ASSUME NEW r \in Runtimes, Handling(r) PROVE Safe'
  BY <1>5, DropSafe, SwitchSafe, AbortSafe, ConvergeSafe DEF Handling
<1>6. ASSUME NEW r \in Runtimes, Coordinator(r), Upgrading PROVE Safe'
  BY <1>6, PrepareSafe, ResumePrepareSafe, DiscardOrphanActiveSafe, CancelSafe, ActivateSafe
     DEF Coordinator
<1>7. CASE UNCHANGED vars
  BY <1>0, <1>7, StutteringSafe
<1> QED BY <1>0, <1>1, <1>2, <1>3, <1>4, <1>5, <1>6, <1>7 DEF Next

\* The behaviours of the installation without the two.
Ordinary == Spec /\ []Attended /\ [][Upgrading]_vars

\* The invariant holds in every state of such a behaviour.
LEMMA SafeHolds == Ordinary => [](Inv /\ Safe)
BY Initially, SafeInitially, SafeInductive, PTL DEF Ordinary, Spec

-----------------------------------------------------------------------------
(* What can be undone, and to what *)

\* A switch is on trial by the intent of the latest transaction, or by a receipt that can be
\* undone; both name the same candidate.
LEMMA OnTrial ==
    ASSUME Inv, Safe
    PROVE  /\ ByIntent => Own(Latest, Here)
           /\ ByReceipt <=> Undoable(Here) /\ ptr.current = receipt.slot
           /\ intent # NoFile => intent \in Trials /\ Candidate(intent)
                                 /\ intent.slot # intent.prior.current
           /\ Undoable(Here) => receipt \in Trials /\ Candidate(receipt)
                                /\ receipt.slot # receipt.prior.current
           /\ Undoable(Here) /\ intent # NoFile => Same(intent, receipt)
           /\ ptr \in Pointers /\ ptr.current \in Versions
<1>1. /\ Here.st = journal[Latest] /\ Here.active = active /\ Here.ptr = ptr
      /\ Here.intent = intent /\ Here.receipt = receipt /\ Deep(Latest, Here)
      /\ Here \in Images /\ Latest \in Txns
  BY HereSays
<1>2. intent # NoFile => intent \in Trials /\ Candidate(intent)
  BY <1>1, ImagesAre, TrialsAre DEF Deep, IntentDeep
<1>3. intent # NoFile => intent.slot # intent.prior.current
  BY <1>2, CandidateIs
<1>4. ByIntent => Own(Latest, Here)
  BY <1>1, <1>3 DEF ByIntent, Deep, ForeignDeep
<1>6. Undoable(Here) => receipt \in Trials /\ Candidate(receipt)
  BY <1>1, UndoableIs
<1>7. Undoable(Here) => receipt.slot # receipt.prior.current
  BY <1>6, CandidateIs
<1>8. Undoable(Here) /\ intent # NoFile => Same(intent, receipt)
  BY <1>1, UndoableIs
<1>9. ByReceipt <=> Undoable(Here) /\ ptr.current = receipt.slot
  BY <1>1 DEF ByReceipt, Undoable
<1>10. ptr \in Pointers /\ ptr.current \in Versions
  BY <1>1, ImagesAre, PointersHold
<1> QED BY <1>2, <1>3, <1>4, <1>6, <1>7, <1>8, <1>9, <1>10

\* The invariant keeps the slots on disk ...
LEMMA SafeRetains == Inv /\ Safe => PriorRetained
<1> SUFFICES ASSUME Inv, Safe PROVE PriorRetained
  OBVIOUS
<1>1. ByIntent => Wanted(intent.prior) \subseteq slots
  BY DEF ByIntent, Safe, Settled, SlotsOK
<1>2. ByReceipt => Wanted(receipt.prior) \subseteq slots
  BY OnTrial DEF Safe, Settled, SlotsOK
<1> QED BY <1>1, <1>2 DEF PriorRetained, PriorValid, Wanted

\* ... and what has been opened completed.
LEMMA SafeKeepsOpened == Safe => NoRollbackPastBarrier
BY DEF Safe, Settled, OpenedOK, NoRollbackPastBarrier

-----------------------------------------------------------------------------
(* The six files implement VersionSwitch *)

\* No step but a write and the first crossing touches a file that says who owns the data.
LEMMA OwnerStays ==
    ASSUME ptr' = ptr, intent' = intent, receipt' = receipt
    PROVE  Owner' = Owner /\ Trial' = Trial
BY DEF Owner, Trial, ByIntent, ByReceipt

\* A trial begins or fails, in the terms of VersionSwitch, or nothing changes there.
LEMMA SwitchIs ==
    /\ Owner' = Owner /\ Trial' = Trial => [VS!Next]_(VS!switchVars)
    /\ Owner' = Owner /\ Trial = None /\ Trial' \in Versions /\ Trial' # Owner
          => [VS!Next]_(VS!switchVars)
    /\ Owner' = Owner /\ Trial # None /\ Trial' = None => [VS!Next]_(VS!switchVars)
    /\ Owner' = Trial /\ Trial # None /\ Trial' = None => [VS!Next]_(VS!switchVars)
BY DEF VS!Next, VS!Try, VS!Reject, VS!Adopt, VS!switchVars

\* The pointers of a switch of its own intent.
LEMMA OwnSwitches ==
    ASSUME Inv, Safe, Own(Latest, Here), journal[Latest] \in Switching,
           intent' = intent, receipt' = receipt,
           ptr' = intent.prior \/ Trying(intent, ptr') \/ Kept(intent, ptr')
    PROVE  [VS!Next]_(VS!switchVars)
<1>1. /\ Here.st = journal[Latest] /\ Here.ptr = ptr /\ Here.intent = intent
      /\ Here.receipt = receipt /\ Deep(Latest, Here) /\ Here \in Images /\ Latest \in Txns
  BY HereSays
<1>2. intent # NoFile /\ intent \in Trials /\ intent.slot # intent.prior.current
      /\ (ByReceipt <=> Undoable(Here) /\ ptr.current = receipt.slot)
  BY <1>1, OnTrial DEF Own
<1>3. ~Undoable(Here)
  BY <1>1, UndoableIs DEF Switching
<1>4. ~ByReceipt /\ ~ByReceipt'
  BY <1>1, <1>3 DEF ByReceipt, Undoable
<1>5. ptr = intent.prior \/ ptr.current = intent.slot
  BY <1>1, OwnIs, TryingIs
<1>6. ptr' = intent.prior \/ ptr'.current = intent.slot
  BY TryingIs
<1>7. intent.slot \in Versions /\ intent.slot # None
  BY <1>2, VersionsAre DEF Trials
<1>8. /\ Owner = intent.prior.current
      /\ Trial = IF ptr.current = intent.slot THEN intent.slot ELSE None
  BY <1>2, <1>4, <1>5 DEF Owner, Trial, ByIntent
<1>9. /\ Owner' = intent.prior.current
      /\ Trial' = IF ptr'.current = intent.slot THEN intent.slot ELSE None
  BY <1>2, <1>4, <1>6 DEF Owner, Trial, ByIntent
<1> QED BY <1>2, <1>7, <1>8, <1>9, SwitchIs

\* The pointers of a confirmed switch that is undone.
LEMMA UndoSwitches ==
    ASSUME Inv, Safe, Pend(Here), ptr' = receipt.prior, intent' = intent, receipt' = receipt
    PROVE  [VS!Next]_(VS!switchVars)
<1>1. /\ Here.ptr = ptr /\ Here.intent = intent /\ Here.receipt = receipt
      /\ Deep(Latest, Here) /\ Here \in Images
  BY HereSays
<1>2. receipt # NoFile /\ receipt.state = "rollback_pending"
      /\ (Kept(receipt, ptr) \/ ptr = receipt.prior)
  BY <1>1 DEF Pend, Deep, ReceiptDeep
<1>3. Undoable(Here)
  BY <1>1, <1>2, ImagesAre, ReceiptsAre DEF Undoable, Deep, ReceiptDeep
<1>4. /\ receipt \in Trials /\ receipt.slot # receipt.prior.current
      /\ intent # NoFile => intent.slot = receipt.slot /\ intent.prior = receipt.prior
      /\ ByReceipt <=> ptr.current = receipt.slot
  BY <1>3, OnTrial DEF Same
<1>5. CASE ptr = receipt.prior
  BY <1>5, OwnerStays, SwitchIs
<1>6. CASE Kept(receipt, ptr)
  <2>1. ptr.current = receipt.slot /\ receipt.slot # None
    BY <1>4, <1>6, TryingIs, VersionsAre DEF Trials
  <2>2. Owner = receipt.prior.current /\ Trial # None
    BY <1>4, <2>1 DEF Owner, Trial, ByIntent
  <2>3. ~ByIntent' /\ ~ByReceipt'
    BY <1>4 DEF ByIntent, ByReceipt
  <2>4. Owner' = receipt.prior.current /\ Trial' = None
    BY <2>3 DEF Owner, Trial
  <2> QED BY <2>2, <2>4, SwitchIs
<1> QED BY <1>2, <1>5, <1>6

\* The intent is written before its switch, and removed after.
LEMMA IntentSwitches ==
    ASSUME Inv, Safe, NEW w, NEW t, NEW c, Makes(w, t, c), intent' # intent
    PROVE  [VS!Next]_(VS!switchVars)
<1>1. /\ t = Latest /\ Image(t) = Here /\ ptr' = ptr /\ receipt' = receipt
      /\ \/ intent' = NoFile /\ Own(t, Here) /\ journal[t] \notin Switching
         \/ /\ intent = NoFile /\ intent' # NoFile /\ journal[t] = "activating"
            /\ intent'.prior = ptr /\ Candidate(intent') /\ intent' \in Trials
  <2>1. t = Latest
    BY WriteIntents
  <2> QED BY <2>1, MakesIs, WriteIntents
<1>2. /\ Here.st = journal[Latest] /\ Here.ptr = ptr /\ Here.intent = intent
      /\ Here.receipt = receipt /\ Deep(Latest, Here) /\ Here \in Images /\ Latest \in Txns
  BY HereSays
<1>3. (ByReceipt <=> Undoable(Here) /\ ptr.current = receipt.slot) /\ (ByReceipt' <=> ByReceipt)
  BY <1>1, OnTrial DEF ByReceipt
<1>4. CASE intent' = NoFile /\ Own(Latest, Here) /\ journal[Latest] \notin Switching
  <2>1. /\ intent # NoFile /\ intent \in Trials /\ intent.slot # intent.prior.current
        /\ Undoable(Here) => intent.slot = receipt.slot /\ intent.prior = receipt.prior
    BY <1>2, <1>4, OnTrial DEF Own, Same
  <2>2. ptr = intent.prior \/ ptr.current = intent.slot
    BY <1>2, <1>4, OwnIs, TryingIs
  <2>3. ~ByIntent'
    BY <1>4 DEF ByIntent
  <2>4. CASE ptr = intent.prior
    <3>1. ~ByIntent /\ ~ByReceipt
      BY <1>3, <2>1, <2>4 DEF ByIntent
    <3>2. Owner' = Owner /\ Trial' = Trial
      BY <1>1, <1>3, <2>3, <3>1 DEF Owner, Trial
    <3> QED BY <3>2, SwitchIs
  <2>5. CASE ptr.current = intent.slot
    <3>1. Owner = intent.prior.current /\ Trial = intent.slot /\ Trial # None
      BY <2>1, <2>5, VersionsAre DEF Owner, Trial, ByIntent, Trials
    <3>2. CASE Undoable(Here)
      <4>1. ByReceipt'
        BY <1>3, <2>1, <2>5, <3>2
      <4>2. Owner' = receipt.prior.current /\ Trial' = ptr.current
        BY <1>1, <2>3, <4>1 DEF Owner, Trial
      <4> QED BY <2>1, <2>5, <3>1, <3>2, <4>2, SwitchIs
    <3>3. CASE ~Undoable(Here)
      <4>1. ~ByReceipt'
        BY <1>3, <3>3
      <4>2. Owner' = ptr.current /\ Trial' = None
        BY <1>1, <2>3, <4>1 DEF Owner, Trial
      <4> QED BY <2>5, <3>1, <4>2, SwitchIs
    <3> QED BY <3>2, <3>3
  <2> QED BY <2>2, <2>4, <2>5
<1>5. CASE intent = NoFile /\ intent'.prior = ptr /\ Candidate(intent') /\ intent' \in Trials
  <2>1. intent'.slot # ptr.current
    BY <1>5, CandidateIs
  <2>2. ~ByIntent /\ ~ByIntent'
    BY <1>1, <1>5, <2>1 DEF ByIntent
  <2>3. Owner' = Owner /\ Trial' = Trial
    BY <1>1, <1>3, <2>2 DEF Owner, Trial
  <2> QED BY <2>3, SwitchIs
<1> QED BY <1>1, <1>4, <1>5

\* A receipt is written for the candidate on trial.
LEMMA ReceiptSwitches ==
    ASSUME Inv, Safe, NEW w, NEW t, NEW c, Makes(w, t, c), receipt' # receipt
    PROVE  [VS!Next]_(VS!switchVars)
<1>1. /\ t = Latest /\ Image(t) = Here /\ ptr' = ptr /\ intent' = intent
      /\ receipt' # NoFile /\ ~receipt'.barrier
      /\ \/ /\ Own(t, Here)
            /\ ptr.current = intent.slot \/ Kept(intent, ptr)
         \/ /\ Undoable(Here) /\ receipt'.slot = receipt.slot
            /\ receipt'.prior = receipt.prior
            /\ \/ receipt'.state = "rollback_pending"
               \/ receipt'.state = "rolled_back_pre_data" /\ journal[t] = "rollback"
                  /\ receipt.state = "rollback_pending"
  <2>1. t = Latest
    BY WriteReceipts
  <2>2. Image(t) = Here
    BY <2>1, MakesIs
  <2> QED BY <2>1, <2>2, WriteReceipts
<1>2. /\ Here.st = journal[Latest] /\ Here.ptr = ptr /\ Here.intent = intent
      /\ Here.receipt = receipt /\ Deep(Latest, Here) /\ Here \in Images /\ Latest \in Txns
  BY HereSays
<1>3. CASE Own(Latest, Here) /\ (ptr.current = intent.slot \/ Kept(intent, ptr))
  <2>1. intent # NoFile /\ ptr.current = intent.slot
    BY <1>2, <1>3, TryingIs DEF Own
  <2>2. ByIntent /\ ByIntent'
    BY <1>1, <2>1 DEF ByIntent
  <2>3. Owner' = Owner /\ Trial' = Trial
    BY <1>1, <2>2 DEF Owner, Trial
  <2> QED BY <2>3, SwitchIs
<1>4. CASE /\ Undoable(Here) /\ receipt'.slot = receipt.slot /\ receipt'.prior = receipt.prior
           /\ receipt'.state = "rollback_pending"
  <2>1. ByReceipt <=> ByReceipt'
    BY <1>1, <1>4, OnTrial DEF ByReceipt
  <2>2. ByIntent <=> ByIntent'
    BY <1>1 DEF ByIntent
  <2>3. Owner' = Owner /\ Trial' = Trial
    BY <1>1, <1>4, <2>1, <2>2 DEF Owner, Trial
  <2> QED BY <2>3, SwitchIs
<1>5. CASE /\ Undoable(Here) /\ receipt'.state = "rolled_back_pre_data"
           /\ journal[Latest] = "rollback" /\ receipt.state = "rollback_pending"
  <2>1. receipt # NoFile
    BY <1>2, <1>5 DEF Undoable
  <2>2. ptr = receipt.prior
    BY <1>2, <1>5, <2>1 DEF Deep, ReceiptDeep
  <2>3. ~ByReceipt
    BY <1>5, <2>2, OnTrial
  <2>4. ~ByReceipt'
    BY <1>5 DEF ByReceipt
  <2>5. ByIntent <=> ByIntent'
    BY <1>1 DEF ByIntent
  <2>6. Owner' = Owner /\ Trial' = Trial
    BY <1>1, <2>3, <2>4, <2>5 DEF Owner, Trial
  <2> QED BY <2>6, SwitchIs
<1> QED BY <1>1, <1>3, <1>4, <1>5

\* A write is a step of VersionSwitch or changes nothing in it.
LEMMA WriteSwitches == ASSUME Inv, Safe, Write PROVE [VS!Next]_(VS!switchVars)
<1>1. PICK w, t, c : Makes(w, t, c)
  BY WriteIs
<1>2. CASE intent' # intent
  BY <1>1, <1>2, IntentSwitches
<1>3. CASE receipt' # receipt
  BY <1>1, <1>3, ReceiptSwitches
<1>4. CASE intent' = intent /\ receipt' = receipt /\ w.file # "ptr"
  <2>1. ptr' = ptr
    BY <1>1, <1>4 DEF Makes, Apply
  <2> QED BY <1>4, <2>1, OwnerStays, SwitchIs
<1>5. CASE intent' = intent /\ receipt' = receipt /\ w.file = "ptr"
  <2>1. /\ t = Latest /\ Image(t) = Here /\ Here.st = journal[t] /\ Here.intent = intent
        /\ Here.receipt = receipt
    BY <1>1, <1>5, MakesIs, HereSays
  <2>2. FitsPtr(Latest, Here, ptr')
    BY <1>1, <1>5, <2>1 DEF Makes, Apply, Fits
  <2>3. CASE /\ Own(Latest, Here) /\ journal[Latest] \in Switching
             /\ ptr' = intent.prior \/ Trying(intent, ptr') \/ Kept(intent, ptr')
    BY <1>5, <2>3, OwnSwitches
  <2>4. CASE Pend(Here) /\ ptr' = receipt.prior
    BY <1>5, <2>4, UndoSwitches
  <2> QED BY <2>1, <2>2, <2>3, <2>4 DEF FitsPtr
<1> QED BY <1>2, <1>3, <1>4, <1>5

\* So is crossing the barrier: the candidate becomes the owner.
LEMMA CrossSwitches ==
    ASSUME Inv, Safe, NEW r \in Runtimes, CrossBarrier(r) PROVE [VS!Next]_(VS!switchVars)
<1>1. CASE ~(receipt # NoFile /\ receipt.state = "confirmed" /\ ~receipt.barrier)
  <2>1. ptr' = ptr /\ intent' = intent /\ receipt' = receipt
    BY <1>1, CrossAgainSafe DEF files
  <2> QED BY <2>1, OwnerStays, SwitchIs
<1>2. CASE receipt # NoFile /\ receipt.state = "confirmed" /\ ~receipt.barrier
  <2>1. /\ intent = NoFile /\ Kept(receipt, ptr) /\ receipt'.barrier /\ receipt \in Trials
        /\ Undoable(Here)
    BY <1>2, CrossFirst
  <2>2. ptr' = ptr /\ intent' = intent
    BY CrossIs
  <2>3. ptr.current = receipt.slot /\ receipt.slot # None
    BY <2>1, TryingIs, VersionsAre DEF Trials
  <2>4. ~ByIntent /\ ByReceipt
    BY <2>1, <2>3, OnTrial DEF ByIntent
  <2>5. ~ByIntent' /\ ~ByReceipt'
    BY <2>1, <2>2 DEF ByIntent, ByReceipt
  <2>6. Trial = ptr.current /\ Trial # None /\ Owner' = ptr.current /\ Trial' = None
    BY <2>2, <2>3, <2>4, <2>5 DEF Owner, Trial
  <2> QED BY <2>6, SwitchIs
<1> QED BY <1>1, <1>2

\* No other step writes a file.
LEMMA OthersKeep ==
    ASSUME [Next]_vars
    PROVE  Write \/ (\E r \in Runtimes : CrossBarrier(r)) \/ UNCHANGED files
<1>1. CASE Done \/ Except
  BY <1>1 DEF Done, Except
<1>2. CASE Bootstrap
  BY <1>2 DEF Bootstrap, BootStart, Select, Ensure, Launch, Reconfirm, StopCandidate,
     FailPending, RollbackConfirmed, ProbeAnswers, Confirm
<1>3. CASE PowerLoss \/ BootKilled
  BY <1>3 DEF PowerLoss, BootKilled
<1>4. ASSUME NEW r \in Runtimes,
             ReadBarrier(r) \/ Refused(r) \/ \E code \in ExitCodes : Exits(r, code)
      PROVE  UNCHANGED files
  BY <1>4 DEF ReadBarrier, Refused, Exits
<1>5. ASSUME NEW r \in Runtimes, Handling(r) PROVE UNCHANGED files
  BY <1>5 DEF Handling, Drop, Switch, Abort, Converge, RuntimeRuns
<1>6. ASSUME NEW r \in Runtimes, Coordinator(r) PROVE UNCHANGED files
  BY <1>6 DEF Coordinator, Prepare, ResumePrepare, DiscardOrphanActive, Cancel, Activate,
     RuntimeRuns
<1>7. CASE UNCHANGED vars
  BY <1>7 DEF vars
<1> QED BY <1>1, <1>2, <1>3, <1>4, <1>5, <1>6, <1>7 DEF Next, Locked

\* Every step is one of VersionSwitch, or changes nothing in it.
LEMMA StepSwitches == Inv /\ Safe /\ [Next]_vars => [VS!Next]_(VS!switchVars)
<1> SUFFICES ASSUME Inv, Safe, [Next]_vars PROVE [VS!Next]_(VS!switchVars)
  OBVIOUS
<1>1. CASE UNCHANGED files
  <2>1. ptr' = ptr /\ intent' = intent /\ receipt' = receipt
    BY <1>1 DEF files
  <2> QED BY <2>1, OwnerStays, SwitchIs
<1> QED BY <1>1, OthersKeep, WriteSwitches, CrossSwitches

\* It begins as VersionSwitch does.
LEMMA InitSwitches == Init => VS!Init
<1> SUFFICES ASSUME Init PROVE VS!Init
  OBVIOUS
<1>1. intent = NoFile /\ ptr.current = 1 /\ receipt.barrier
  BY DEF Init
<1>2. ~ByIntent /\ ~ByReceipt
  BY <1>1 DEF ByIntent, ByReceipt
<1>3. Owner = 1 /\ Trial = None
  BY <1>1, <1>2 DEF Owner, Trial
<1> QED BY <1>3, BoundsAssumption DEF VS!Init, Versions

-----------------------------------------------------------------------------
(* Theorems *)

\* As long as no Runtime has outlived its Bootstrap before its data barrier and no older
\* release was prepared: for any number of releases, updates, crashes and failed writes,
\* every slot the prior pointers of an intent or of an uncrossed receipt need is on disk
\* while the candidate can still be undone. SlotStore.prune and SlotStore.discard never
\* take one, so fail_pre_data and rollback_confirmed_pre_data can restore it.
THEOREM PriorRetainedCorrect ==
    Spec /\ []Attended /\ [][Upgrading]_vars => []PriorRetained
BY SafeHolds, SafeRetains, PTL DEF Ordinary

\* The unattended Runtime is the only way past the barrier (but for older releases): in
\* every behaviour without one, once mark_data_barrier_crossed has returned for a
\* transaction and its Runtime has opened live storage, nothing journals a rollback of
\* that transaction, in whatever order Bootstrap and the coordinator crash, restart and
\* replay their recoveries. The run update_orphan shows what an unattended one does.
THEOREM NoRollbackPastBarrierCorrect ==
    Spec /\ []Attended /\ [][Upgrading]_vars => []NoRollbackPastBarrier
BY SafeHolds, SafeKeepsOpened, PTL DEF Ordinary

\* Under the same two conditions the six files implement VersionSwitch (but for its
\* fairness): after every single durable write, and so after a crash at any of them, they
\* name one owner of the data and at most one candidate on trial; the owner changes only
\* to the candidate that was on trial, and a trial that is undone gives the data back to
\* the owner it began with.
THEOREM SwitchesVersionsSafely ==
    Spec /\ []Attended /\ [][Upgrading]_vars => VS!Init /\ [][VS!Next]_(VS!switchVars)
BY SafeHolds, StepSwitches, InitSwitches, PTL DEF Ordinary, Spec
=============================================================================
