----------------------- MODULE WebhookDeliveryProofs -----------------------
(***************************************************************************)
(* Proofs about WebhookDelivery for any events, webhooks, handlers, rows,  *)
(* batch size, attempts and threshold, with any faults: types, what is     *)
(* sent, recorded outcomes and the failure threshold; that the fan-out     *)
(* skips no event, and that every duplicate is accounted for.              *)
(***************************************************************************)
EXTENDS WebhookDelivery, WellFoundedInduction, FiniteSetTheorems, TLAPS

(* The inductive invariant *)

\* What a row has to do with its job: a row that is not there has none, and a row
\* that is has been sent once more than its handlers died.
RowsOK ==
    \A d \in Deliveries :
        /\ dlv[d].st = "none" => dlv[d].hook = None /\ job[d] = "none" /\ posts[d] = 0
        /\ dlv[d].st # "none" => dlv[d].hook \in Hooks
        /\ posts[d] <= 1 + reruns[d]

Busy(w) == snd[w].pc # "idle"

\* A handler has a row to itself, and until it has sent it the row has been sent
\* only by handlers that died.
SendersOK ==
    /\ \A w \in Senders :
          Busy(w) => /\ snd[w].d \in Deliveries /\ job[snd[w].d] = "running"
                     /\ snd[w].hook \in Hooks
    /\ \A w, v \in Senders : Busy(w) /\ Busy(v) /\ snd[w].d = snd[v].d => w = v
    /\ \A w \in Senders : snd[w].pc = "post" => posts[snd[w].d] <= reruns[snd[w].d]
    /\ \A d \in Deliveries : job[d] = "queued" => posts[d] <= reruns[d]
    /\ \A w \in Senders :
          snd[w].pc \in {"post", "mark"} => dlv[snd[w].d].st \in {"pending", "failed_retry", "gone"}

\* The row a fan-out is about to queue is its own and has never been queued.
QueuersOK ==
    /\ \A f \in Fanouts :
          fan[f].pc = "enqueue" =>
              /\ fan[f].d \in Deliveries /\ dlv[fan[f].d].st # "none"
              /\ job[fan[f].d] = "none" /\ posts[fan[f].d] = 0
    /\ \A f, g \in Fanouts :
          fan[f].pc = "enqueue" /\ fan[g].pc = "enqueue" /\ fan[f].d = fan[g].d => f = g

Working(f) == fan[f].pc \in {"match", "create", "enqueue"}

\* A batch is what is still to do, and before it is listed nothing is done.
BatchesOK ==
    \A f \in Fanouts :
        /\ Working(f) => fan[f].batch # {}
        /\ ~Working(f) => fan[f].batch = {}
        /\ \A x \in fan[f].batch : fan[f].last < x
        /\ fan[f].pc \in {"idle", "list"} => ~fan[f].processed

TypeInv == TypeOK /\ RowsOK /\ SendersOK /\ QueuersOK /\ BatchesOK

-----------------------------------------------------------------------------
(* Fan-outs *)

Below == {p \in Nat \X Nat : p[1] < p[2]}

\* A set of ids has a least one.
LEMMA Least ==
    ASSUME NEW S, S \subseteq Nat, S # {}
    PROVE  \E e \in S : \A x \in S : e <= x
<1>. IsWellFoundedOn(Below, Nat)
  BY NatLessThanWellFounded, Zenon DEF OpToRel, Below
<1>. PICK e \in S : \A y \in S : ~(<<y, e>> \in Below)
  BY WFMin, Zenon
<1>. \A y \in S : ~(y < e)
  BY Zenon DEF Below
<1>. QED
  BY SMTT(40)

\* The current event of a fan-out is the first of its batch.
LEMMA CurrentIsFirst ==
    ASSUME TypeInv, NEW f \in Fanouts, Working(f)
    PROVE  /\ Current(f) \in fan[f].batch /\ Current(f) \in Events
           /\ \A x \in fan[f].batch : Current(f) <= x
           /\ fan[f].last < Current(f)
<1>. fan[f].batch # {} /\ fan[f].batch \subseteq Events /\ fan[f].batch \subseteq Nat
  BY WebhookAssumption, Zenon DEF TypeInv, TypeOK, BatchesOK, FanoutWork
<1>. \E e \in fan[f].batch : \A x \in fan[f].batch : e <= x
  BY Least, Zenon
<1>. Current(f) \in fan[f].batch /\ \A x \in fan[f].batch : Current(f) <= x
  BY Zenon DEF Current
<1>. QED
  BY Zenon DEF TypeInv, BatchesOK

\* Ids are natural numbers, and so is where a fan-out is.
LEMMA Numbers ==
    ASSUME TypeInv, NEW f \in Fanouts
    PROVE  Events \subseteq Nat /\ fan[f].last \in Nat /\ fan[f].batch \subseteq Events
<1>. Events \subseteq Nat
  BY WebhookAssumption, Zenon
<1>. fan[f].last \in Events \cup {0} /\ fan[f].batch \subseteq Events
  BY Zenon DEF TypeInv, TypeOK, FanoutWork
<1>. CASE fan[f].last \in Events
  BY Zenon
<1>. CASE fan[f].last = 0
  BY SMTT(40)
<1>. QED
  BY Zenon

\* The fields of a fan-out.
Stage(w, pc, last, batch, subs, d, processed) ==
    /\ w.pc = pc /\ w.last = last /\ w.batch = batch
    /\ w.subs = subs /\ w.d = d /\ w.processed = processed

\* A fan-out at rest.
LEMMA AtRest ==
    /\ Stage(Resting, "idle", 0, {}, {}, 0, FALSE)
    /\ Resting \in FanoutWork
BY Zenon DEF Resting, Stage, FanoutWork

\* One fan-out moves.
LEMMA FanSet ==
    ASSUME TypeOK, NEW f \in Fanouts, NEW w \in FanoutWork, fan' = [fan EXCEPT ![f] = w]
    PROVE  /\ fan' \in [Fanouts -> FanoutWork] /\ fan'[f] = w
           /\ \A g \in Fanouts \ {f} : fan'[g] = fan[g]
BY Zenon DEF TypeOK

\* What each step of a fan-out makes of it.
LEMMA ReadEffect ==
    ASSUME TypeInv, NEW f \in Fanouts, FanoutRead(f)
    PROVE  /\ fan' \in [Fanouts -> FanoutWork]
           /\ Stage(fan'[f], "list", cursor, {}, {}, 0, FALSE)
           /\ \A g \in Fanouts \ {f} : fan'[g] = fan[g]
<1> DEFINE w == [Resting EXCEPT !.pc = "list", !.last = cursor]
<1>. w \in FanoutWork /\ Stage(w, "list", cursor, {}, {}, 0, FALSE)
  BY AtRest, Zenon DEF Stage, FanoutWork, TypeInv, TypeOK
<1>. fan' = [fan EXCEPT ![f] = w]
  BY Zenon DEF FanoutRead
<1>. HIDE DEF w
<1>. QED
  BY FanSet, Zenon DEF TypeInv

\* The list is empty, or it becomes the batch.
LEMMA ListEffect ==
    ASSUME TypeInv, NEW f \in Fanouts, FanoutList(f)
    PROVE  /\ fan' \in [Fanouts -> FanoutWork]
           /\ IF Listed(fan[f].last) = {} THEN fan'[f] = Resting
                        ELSE Stage(fan'[f], "match", fan[f].last, Listed(fan[f].last), fan[f].subs,
                                   fan[f].d, fan[f].processed)
           /\ Listed(fan[f].last) \subseteq Events
           /\ \A g \in Fanouts \ {f} : fan'[g] = fan[g]
<1> DEFINE w == IF Listed(fan[f].last) = {} THEN Resting
                ELSE [fan[f] EXCEPT !.pc = "match", !.batch = Listed(fan[f].last)]
<1>. Listed(fan[f].last) \subseteq Events
  BY Zenon DEF Listed
<1>. fan[f] \in FanoutWork
  BY Zenon DEF TypeInv, TypeOK
<1>. w \in FanoutWork
  BY AtRest, Zenon DEF FanoutWork
<1>. IF Listed(fan[f].last) = {} THEN w = Resting
          ELSE Stage(w, "match", fan[f].last, Listed(fan[f].last), fan[f].subs,
                     fan[f].d, fan[f].processed)
  BY Zenon DEF FanoutWork, Stage
<1>. fan' = [fan EXCEPT ![f] = w]
  BY Zenon DEF FanoutList
<1>. HIDE DEF w
<1>. QED
  BY FanSet, Zenon DEF TypeInv

\* The webhooks that want the current event, or those of the repository alone.
LEMMA MatchEffect ==
    ASSUME TypeInv, NEW f \in Fanouts, FanoutMatch(f)
    PROVE  /\ fan' \in [Fanouts -> FanoutWork]
           /\ \E subs \in SUBSET Hooks :
                 /\ Stage(fan'[f], "create", fan[f].last, fan[f].batch, subs, fan[f].d, fan[f].processed)
                 /\ \A h \in Hooks : Wants(h, Current(f)) =>
                       h \in subs \/ (h \in OrgHooks /\ Current(f) \in unowned')
           /\ \A g \in Fanouts \ {f} : fan'[g] = fan[g]
<1>1. PICK subs \in SUBSET Hooks :
          /\ fan' = [fan EXCEPT ![f].pc = "create", ![f].subs = subs]
          /\ \A h \in Hooks : Wants(h, Current(f)) =>
                h \in subs \/ (h \in OrgHooks /\ Current(f) \in unowned')
  <2> DEFINE all == {h \in Hooks : Wants(h, Current(f))}
  <2>1. CASE fan' = [fan EXCEPT ![f].pc = "create", ![f].subs = all]
    <3>. all \in SUBSET Hooks /\ \A h \in Hooks : Wants(h, Current(f)) => h \in all
      BY Zenon
    <3>. HIDE DEF all
    <3>. QED
      BY <2>1, Zenon
  <2>2. CASE /\ fan' = [fan EXCEPT ![f].pc = "create", ![f].subs = all \ OrgHooks]
             /\ unowned' = unowned \cup {Current(f)}
    <3>. /\ all \ OrgHooks \in SUBSET Hooks
         /\ \A h \in Hooks : Wants(h, Current(f)) => h \in all \ OrgHooks \/ h \in OrgHooks
      BY Zenon
    <3>. Current(f) \in unowned'
      BY <2>2, Zenon
    <3>. HIDE DEF all
    <3>. QED
      BY <2>2, Zenon
  <2>. QED
    BY <2>1, <2>2, Zenon DEF FanoutMatch
<1> DEFINE w == [fan[f] EXCEPT !.pc = "create", !.subs = subs]
<1>. fan[f] \in FanoutWork
  BY Zenon DEF TypeInv, TypeOK
<1>. fan' = [fan EXCEPT ![f] = w]
  BY <1>1, Zenon DEF TypeInv, TypeOK
<1>. w \in FanoutWork /\ Stage(w, "create", fan[f].last, fan[f].batch, subs, fan[f].d, fan[f].processed)
  BY Zenon DEF FanoutWork, Stage
<1>. HIDE DEF w
<1>. /\ fan' \in [Fanouts -> FanoutWork]
     /\ fan'[f] = w
     /\ \A g \in Fanouts \ {f} : fan'[g] = fan[g]
  BY FanSet, Zenon DEF TypeInv
<1>. QED
  BY <1>1, Zenon

\* One row for one of them.
LEMMA CreateEffect ==
    ASSUME TypeInv, NEW f \in Fanouts, NEW h \in Hooks, NEW d \in Deliveries, FanoutCreate(f, h, d)
    PROVE  /\ fan' \in [Fanouts -> FanoutWork]
           /\ Stage(fan'[f], "enqueue", fan[f].last, fan[f].batch, fan[f].subs \ {h}, d, fan[f].processed)
           /\ \A g \in Fanouts \ {f} : fan'[g] = fan[g]
<1> DEFINE w == [fan[f] EXCEPT !.pc = "enqueue", !.subs = @ \ {h}, !.d = d]
<1>. fan[f] \in FanoutWork
  BY Zenon DEF TypeInv, TypeOK
<1>. fan' = [fan EXCEPT ![f] = w]
  BY Zenon DEF FanoutCreate, TypeInv, TypeOK
<1>. w \in FanoutWork
      /\ Stage(w, "enqueue", fan[f].last, fan[f].batch, fan[f].subs \ {h}, d, fan[f].processed)
  BY Zenon DEF FanoutWork, Stage
<1>. HIDE DEF w
<1>. QED
  BY FanSet, Zenon DEF TypeInv

\* The loop ends early.
LEMMA BreakEffect ==
    ASSUME TypeInv, NEW f \in Fanouts, NEW h \in Hooks, FanoutBreak(f, h)
    PROVE  /\ fan' \in [Fanouts -> FanoutWork]
           /\ IF fan[f].processed
              THEN Stage(fan'[f], "cursor", fan[f].last, {}, {}, fan[f].d, fan[f].processed)
              ELSE fan'[f] = Resting
           /\ \A g \in Fanouts \ {f} : fan'[g] = fan[g]
<1> DEFINE w == IF fan[f].processed
                THEN [fan[f] EXCEPT !.pc = "cursor", !.batch = {}, !.subs = {}] ELSE Resting
<1>. fan[f] \in FanoutWork
  BY Zenon DEF TypeInv, TypeOK
<1>. fan' = [fan EXCEPT ![f] = w]
  BY Zenon DEF FanoutBreak, TypeInv, TypeOK
<1>. w \in FanoutWork
      /\ IF fan[f].processed
         THEN Stage(w, "cursor", fan[f].last, {}, {}, fan[f].d, fan[f].processed)
         ELSE w = Resting
  BY AtRest, Zenon DEF FanoutWork, Stage
<1>. HIDE DEF w
<1>. QED
  BY FanSet, Zenon DEF TypeInv

\* The row is queued, or not.
LEMMA EnqueueEffect ==
    ASSUME TypeInv, NEW f \in Fanouts, FanoutEnqueue(f)
    PROVE  /\ fan' \in [Fanouts -> FanoutWork]
           /\ Stage(fan'[f], "create", fan[f].last, fan[f].batch, fan[f].subs, 0, fan[f].processed)
           /\ \A g \in Fanouts \ {f} : fan'[g] = fan[g]
<1> DEFINE w == [fan[f] EXCEPT !.pc = "create", !.d = 0]
<1>. fan[f] \in FanoutWork
  BY Zenon DEF TypeInv, TypeOK
<1>. fan' = [fan EXCEPT ![f] = w]
  BY Zenon DEF FanoutEnqueue, TypeInv, TypeOK
<1>. w \in FanoutWork
      /\ Stage(w, "create", fan[f].last, fan[f].batch, fan[f].subs, 0, fan[f].processed)
  BY Zenon DEF FanoutWork, Stage
<1>. HIDE DEF w
<1>. QED
  BY FanSet, Zenon DEF TypeInv

\* The next event, or none.
LEMMA NextEffect ==
    ASSUME TypeInv, NEW f \in Fanouts, FanoutNext(f)
    PROVE  /\ fan' \in [Fanouts -> FanoutWork]
           /\ Stage(fan'[f], IF fan[f].batch \ {Current(f)} = {} THEN "cursor" ELSE "match",
                              Current(f), fan[f].batch \ {Current(f)}, fan[f].subs, fan[f].d, TRUE)
           /\ \A g \in Fanouts \ {f} : fan'[g] = fan[g]
<1> DEFINE c == Current(f)
           pc == IF fan[f].batch \ {c} = {} THEN "cursor" ELSE "match"
           w == [fan[f] EXCEPT !.pc = pc, !.last = c, !.batch = fan[f].batch \ {c}, !.processed = TRUE]
<1>. fan[f] \in FanoutWork /\ c \in Events /\ pc \in {"cursor", "match"}
  BY CurrentIsFirst, Zenon DEF TypeInv, TypeOK, FanoutNext, Working
<1>. fan' = [fan EXCEPT ![f] = w]
  BY Zenon DEF FanoutNext, TypeInv, TypeOK
<1>. HIDE DEF c, pc
<1>. w \in FanoutWork
      /\ Stage(w, pc, c, fan[f].batch \ {c}, fan[f].subs, fan[f].d, TRUE)
  BY Zenon DEF FanoutWork, Stage
<1>. HIDE DEF w
<1>. /\ fan' \in [Fanouts -> FanoutWork]
     /\ fan'[f] = w
     /\ \A g \in Fanouts \ {f} : fan'[g] = fan[g]
  BY FanSet, Zenon DEF TypeInv
<1>. QED
  BY Zenon DEF c, pc

\* A fan-out that ends.
LEMMA RestEffect ==
    ASSUME TypeInv, NEW f \in Fanouts, fan' = [fan EXCEPT ![f] = Resting]
    PROVE  /\ fan' \in [Fanouts -> FanoutWork]
           /\ fan'[f] = Resting
           /\ \A g \in Fanouts \ {f} : fan'[g] = fan[g]
BY AtRest, FanSet, Zenon DEF TypeInv

-----------------------------------------------------------------------------
(* Types *)

\* A fault leaves the count in bounds, and so does one more overlap.
LEMMA FaultType ==
    ASSUME TypeOK
    PROVE  /\ \A kind : Fault(kind) => faults' \in 0 .. MaxFaults
           /\ Redone \in 0 .. MaxDeliveries
BY WebhookAssumption, SMTT(40) DEF TypeOK, Fault, Redone

\* A fan-out moves without touching rows or jobs.
LEMMA FanTypes ==
    ASSUME TypeInv, NEW f \in Fanouts,
           fan' \in [Fanouts -> FanoutWork], \A g \in Fanouts \ {f} : fan'[g] = fan[g],
           fan'[f].pc # "enqueue",
           Working(f)' => fan'[f].batch # {}, ~Working(f)' => fan'[f].batch = {},
           \A x \in fan'[f].batch : fan'[f].last < x,
           fan'[f].pc \in {"idle", "list"} => ~fan'[f].processed,
           cursor' \in Events \cup {0}, again' \in 0 .. MaxDeliveries,
           late' \subseteq Events, unowned' \subseteq Events, faults' \in 0 .. MaxFaults,
           UNCHANGED <<event, owed, hook, dlv, job, sending, undone>>
    PROVE  TypeInv'
<1>. UNCHANGED <<event, owed, hook, dlv, job, snd, posts, reruns, undone>>
  BY Zenon DEF sending
<1>. TypeOK'
  BY Zenon DEF TypeInv, TypeOK
<1>. RowsOK'
  BY DEF TypeInv, RowsOK
<1>. SendersOK'
  BY Zenon DEF TypeInv, SendersOK, Busy
<1>. QueuersOK'
  BY DEF TypeInv, QueuersOK
<1>. BatchesOK'
  BY Zenon DEF TypeInv, BatchesOK, Working
<1>. QED
  BY Zenon DEF TypeInv

\* A fan-out starts.
LEMMA ReadTypes == ASSUME TypeInv, NEW f \in Fanouts, FanoutRead(f) PROVE TypeInv'
<1>. again' \in 0 .. MaxDeliveries
  BY FaultType, Zenon DEF FanoutRead, TypeInv, TypeOK
<1>. UNCHANGED <<event, late, unowned, cursor, faults, owed, hook, dlv, job, sending, undone>>
  BY Zenon DEF FanoutRead, log
<1>. late' \subseteq Events /\ unowned' \subseteq Events /\ cursor' \in Events \cup {0} /\ faults' \in 0 .. MaxFaults
  BY Zenon DEF TypeInv, TypeOK
<1>. QED
  BY ReadEffect, FanTypes, Zenon DEF Stage, Working

\* A fan-out lists its batch.
LEMMA ListTypes == ASSUME TypeInv, NEW f \in Fanouts, FanoutList(f) PROVE TypeInv'
<1>. UNCHANGED <<event, unowned, cursor, again, faults, owed, hook, dlv, job, sending, undone>>
  BY Zenon DEF FanoutList
<1>. late' \subseteq Events /\ unowned' \subseteq Events
  BY Zenon DEF FanoutList, TypeInv, TypeOK
<1>3. cursor' \in Events \cup {0} /\ faults' \in 0 .. MaxFaults /\ again' \in 0 .. MaxDeliveries
  BY Zenon DEF TypeInv, TypeOK
<1>4. \A x \in Listed(fan[f].last) : fan[f].last < x
  BY Zenon DEF Listed
<1>5. /\ fan'[f].pc # "enqueue"
      /\ Working(f)' => fan'[f].batch # {}
      /\ ~Working(f)' => fan'[f].batch = {}
      /\ \A x \in fan'[f].batch : fan'[f].last < x
      /\ fan'[f].pc \in {"idle", "list"} => ~fan'[f].processed
  BY <1>4, ListEffect, AtRest, Zenon DEF Stage, Working
<1>. QED
  BY <1>3, <1>5, ListEffect, FanTypes, Zenon

\* A fan-out matches, goes on to the next event, breaks off, writes or dies.
LEMMA GoesOnTypes ==
    ASSUME TypeInv, NEW f \in Fanouts,
           \/ FanoutMatch(f) \/ FanoutNext(f) \/ FanoutCursor(f) \/ FanoutLost(f)
           \/ \E h \in Hooks : FanoutBreak(f, h)
    PROVE  TypeInv'
<1>. UNCHANGED <<event, late, owed, hook, dlv, job, sending, undone>>
  BY Zenon DEF FanoutMatch, FanoutNext, FanoutCursor, FanoutLost, FanoutBreak, log
<1>. late' \subseteq Events
  BY Zenon DEF TypeInv, TypeOK
<1>7. unowned' \subseteq Events
  <2>1. unowned \subseteq Events
    BY Zenon DEF TypeInv, TypeOK
  <2>2. UNCHANGED unowned \/ (FanoutMatch(f) /\ unowned' = unowned \cup {Current(f)})
    BY Zenon DEF FanoutMatch, FanoutNext, FanoutCursor, FanoutLost, FanoutBreak, log
  <2>3. FanoutMatch(f) => Current(f) \in Events
    BY CurrentIsFirst, Zenon DEF FanoutMatch, Working
  <2>. QED
    BY <2>1, <2>2, <2>3, Zenon
<1>. cursor' \in Events \cup {0}
  <2>1. fan[f].last \in Events \cup {0} /\ cursor \in Events \cup {0}
    BY Zenon DEF TypeInv, TypeOK, FanoutWork
  <2>2. cursor' = cursor \/ cursor' = fan[f].last
    BY Zenon DEF FanoutMatch, FanoutNext, FanoutCursor, FanoutLost, FanoutBreak
  <2>. QED
    BY <2>1, <2>2, Zenon
<1>4. again' \in 0 .. MaxDeliveries
  BY FaultType, Zenon DEF FanoutMatch, FanoutNext, FanoutCursor, FanoutLost, FanoutBreak, TypeInv, TypeOK
<1>5. faults' \in 0 .. MaxFaults
  BY FaultType, Zenon DEF FanoutMatch, FanoutNext, FanoutCursor, FanoutLost, FanoutBreak, TypeInv, TypeOK
<1>6. /\ fan' \in [Fanouts -> FanoutWork]
      /\ \A g \in Fanouts \ {f} : fan'[g] = fan[g]
      /\ fan'[f].pc # "enqueue"
      /\ Working(f)' => fan'[f].batch # {}
      /\ ~Working(f)' => fan'[f].batch = {}
      /\ \A x \in fan'[f].batch : fan'[f].last < x
      /\ fan'[f].pc \in {"idle", "list"} => ~fan'[f].processed
  <2>. CASE FanoutMatch(f)
    BY MatchEffect, Zenon DEF Stage, Working, FanoutMatch, TypeInv, BatchesOK
  <2>. CASE FanoutNext(f)
    <3>1. Working(f)
      BY Zenon DEF FanoutNext, Working
    <3>2. fan[f].batch \subseteq Nat
      BY WebhookAssumption, Zenon DEF TypeInv, TypeOK, FanoutWork
    <3>3. /\ Current(f) \in fan[f].batch
          /\ \A x \in fan[f].batch : Current(f) <= x
      BY <3>1, CurrentIsFirst, Zenon
    <3>4. \A x \in fan[f].batch \ {Current(f)} : Current(f) < x
      BY <3>2, <3>3, SMTT(40)
    <3>. QED
      BY <3>4, NextEffect, Zenon DEF Stage, Working
  <2>3. CASE FanoutCursor(f) \/ FanoutLost(f)
    BY <2>3, RestEffect, AtRest, Zenon DEF Stage, Working, FanoutCursor, FanoutLost
  <2>4. CASE \E h \in Hooks : FanoutBreak(f, h)
    BY <2>4, BreakEffect, AtRest, Zenon DEF Stage, Working
  <2>. QED
    BY <2>3, <2>4, Zenon
<1>. QED
  BY <1>4, <1>5, <1>6, <1>7, FanTypes, Zenon

\* A new row.
LEMMA PendingRow ==
    ASSUME TypeOK, NEW h \in Hooks, NEW e \in Events \cup {Ping}, NEW max \in Nat, NEW copy \in BOOLEAN
    PROVE  /\ Pending(h, e, max, copy) \in Row
           /\ Pending(h, e, max, copy).st = "pending" /\ Pending(h, e, max, copy).hook = h
           /\ Pending(h, e, max, copy).event = e /\ Pending(h, e, max, copy).copy = copy
<1>. 1 \in Nat /\ 1 # 0
  BY SMTT(40)
<1>. QED
  BY Zenon DEF Pending, Row

\* A fan-out writes a row.
LEMMA CreateTypes ==
    ASSUME TypeInv, NEW f \in Fanouts, NEW h \in Hooks, NEW d \in Deliveries, FanoutCreate(f, h, d)
    PROVE  TypeInv'
<1> DEFINE r == Pending(h, Current(f), EventAttempts, FALSE)
<1>. UNCHANGED <<event, late, unowned, cursor, again, hook, job, snd, posts, reruns, faults, owed, undone>>
  BY Zenon DEF FanoutCreate, log, sending
<1>. Working(f) /\ Current(f) \in Events
  BY CurrentIsFirst, Zenon DEF FanoutCreate, Working
<1>. r \in Row /\ r.st = "pending" /\ r.hook = h
  <2>. EventAttempts \in Nat /\ TypeOK
    BY WebhookAssumption, Zenon DEF TypeInv
  <2>. 1 \in Nat /\ 1 # 0
    BY SMTT(40)
  <2>. QED
    BY Zenon DEF Pending, Row
<1>. dlv' = [dlv EXCEPT ![d] = r]
  BY Zenon DEF FanoutCreate
<1>. HIDE DEF r
<1>. /\ dlv' \in [Deliveries -> Row]
     /\ dlv'[d] = r
     /\ \A x \in Deliveries \ {d} : dlv'[x] = dlv[x]
  BY Zenon DEF TypeInv, TypeOK
<1>. dlv[d].st = "none"
  BY Zenon DEF FanoutCreate, Fresh
<1>. TypeOK'
  BY CreateEffect, Zenon DEF TypeInv, TypeOK
<1>. RowsOK'
  BY Zenon DEF TypeInv, RowsOK
<1>. SendersOK'
  BY DEF TypeInv, SendersOK, RowsOK, Busy
<1>. QueuersOK'
  <2>. job[d] = "none" /\ posts[d] = 0
    BY Zenon DEF TypeInv, RowsOK
  <2>. fan'[f].pc = "enqueue" /\ fan'[f].d = d
    BY CreateEffect, SMTT(40) DEF Stage
  <2>. \A g \in Fanouts \ {f} : fan'[g] = fan[g]
    BY CreateEffect, Zenon
  <2>. \A g \in Fanouts \ {f} : fan[g].pc = "enqueue" => fan[g].d # d
    BY SMTT(40) DEF TypeInv, QueuersOK
  <2>. fan' \in [Fanouts -> FanoutWork]
    BY CreateEffect, Zenon
  <2>. QED
    BY SMTT(40) DEF TypeInv, QueuersOK
<1>. BatchesOK'
  BY CreateEffect, SMTT(40) DEF TypeInv, BatchesOK, Working, Stage
<1>. QED
  BY Zenon DEF TypeInv

\* A fan-out queues a row.
LEMMA EnqueueTypes == ASSUME TypeInv, NEW f \in Fanouts, FanoutEnqueue(f) PROVE TypeInv'
<1> DEFINE d == fan[f].d
<1>1. UNCHANGED <<event, late, unowned, cursor, again, hook, dlv, snd, posts, reruns, owed, undone>>
  BY Zenon DEF FanoutEnqueue, log, sending
<1>2. d \in Deliveries /\ dlv[d].st # "none" /\ job[d] = "none" /\ posts[d] = 0
  BY Zenon DEF FanoutEnqueue, TypeInv, QueuersOK
<1>3. /\ job' \in [Deliveries -> {"none", "queued", "running"}]
      /\ job'[d] \in {"none", "queued"}
      /\ \A x \in Deliveries \ {d} : job'[x] = job[x]
  BY <1>2 DEF FanoutEnqueue, TypeInv, TypeOK
<1>4. faults' \in 0 .. MaxFaults
  BY FaultType, Zenon DEF FanoutEnqueue, TypeInv, TypeOK
<1>. HIDE DEF d
<1>5. TypeOK'
  BY <1>1, <1>3, <1>4, EnqueueEffect, Zenon DEF TypeInv, TypeOK
<1>6. RowsOK'
  BY <1>1, <1>2, <1>3, Zenon DEF TypeInv, RowsOK
<1>7. reruns[d] \in Nat
  BY <1>2, Zenon DEF TypeInv, TypeOK
<1>8. \A w \in Senders : Busy(w) => snd[w].d # d
  BY <1>2, Zenon DEF TypeInv, SendersOK
<1>9. SendersOK'
  BY <1>1, <1>2, <1>3, <1>7, <1>8, SMTT(40) DEF TypeInv, SendersOK, Busy
<1>10. QueuersOK'
  <2>1. \A g \in Fanouts \ {f} : fan'[g] = fan[g]
    BY EnqueueEffect, Zenon
  <2>2. fan'[f].pc = "create"
    BY EnqueueEffect, Zenon DEF Stage
  <2>3. \A g \in Fanouts \ {f} : fan[g].pc = "enqueue" => fan[g].d # d
    BY Zenon DEF FanoutEnqueue, TypeInv, QueuersOK, d
  <2>. QED
    BY <1>1, <1>3, <2>1, <2>2, <2>3, SMTT(40) DEF TypeInv, QueuersOK
<1>11. BatchesOK'
  <2>1. fan[f].batch # {} /\ \A x \in fan[f].batch : fan[f].last < x
    BY Zenon DEF FanoutEnqueue, TypeInv, BatchesOK, Working
  <2>2. /\ fan'[f].pc = "create" /\ fan'[f].batch = fan[f].batch /\ fan'[f].last = fan[f].last
        /\ \A g \in Fanouts \ {f} : fan'[g] = fan[g]
    BY EnqueueEffect, Zenon DEF Stage
  <2>3. \A g \in Fanouts \ {f} :
          /\ fan'[g].pc \in {"match", "create", "enqueue"} => fan'[g].batch # {}
          /\ fan'[g].pc \notin {"match", "create", "enqueue"} => fan'[g].batch = {}
          /\ \A x \in fan'[g].batch : fan'[g].last < x
          /\ fan'[g].pc \in {"idle", "list"} => ~fan'[g].processed
    BY <2>2, Zenon DEF TypeInv, BatchesOK, Working
  <2>. QED
    BY <2>1, <2>2, <2>3, Zenon DEF BatchesOK, Working
<1>. QED
  BY <1>5, <1>6, <1>9, <1>10, <1>11, Zenon DEF TypeInv

\* One handler and the one row it is about change.
LEMMA SenderFrame ==
    ASSUME TypeInv, NEW w \in Senders, NEW d \in Deliveries,
           job[d] # "none", \A v \in Senders \ {w} : Busy(v) => snd[v].d # d,
           snd' \in [Senders -> SenderWork], \A v \in Senders \ {w} : snd'[v] = snd[v],
           Busy(w)' => snd'[w].d = d /\ job'[d] = "running" /\ snd'[w].hook \in Hooks,
           \A x \in Deliveries \ {d} : /\ job'[x] = job[x] /\ dlv'[x] = dlv[x]
                                       /\ posts'[x] = posts[x] /\ reruns'[x] = reruns[x],
           dlv'[d].st # "none", dlv'[d].hook = dlv[d].hook,
           UNCHANGED <<posts, reruns>> \/ posts'[d] <= 1 + reruns'[d],
           snd'[w].pc = "post" \/ job'[d] = "queued" => posts'[d] <= reruns'[d],
           snd'[w].pc \in {"post", "mark"} => dlv'[d].st \in {"pending", "failed_retry", "gone"},
           UNCHANGED fan
    PROVE  RowsOK' /\ SendersOK' /\ QueuersOK' /\ BatchesOK'
<1>. dlv[d].st # "none" /\ dlv[d].hook \in Hooks
  BY Zenon DEF TypeInv, RowsOK
<1>. RowsOK'
  BY DEF TypeInv, RowsOK
<1>. \A v \in Senders \ {w} : Busy(v)' <=> Busy(v)
  BY Zenon DEF Busy
<1>. \A v \in Senders : snd'[v].pc # "idle" <=> Busy(v)'
  BY Zenon DEF Busy
<1>. SendersOK'
  <2>. \A v \in Senders :
          Busy(v)' => /\ snd'[v].d \in Deliveries /\ job'[snd'[v].d] = "running"
                      /\ snd'[v].hook \in Hooks
    BY SMTT(40) DEF TypeInv, SendersOK
  <2>. \A u, v \in Senders : Busy(u)' /\ Busy(v)' /\ snd'[u].d = snd'[v].d => u = v
    BY SMTT(40) DEF TypeInv, SendersOK
  <2>. \A v \in Senders : snd'[v].pc = "post" => posts'[snd'[v].d] <= reruns'[snd'[v].d]
    <3>. ASSUME NEW v \in Senders \ {w}, snd'[v].pc = "post"
         PROVE  posts'[snd'[v].d] <= reruns'[snd'[v].d]
      BY SMTT(40) DEF TypeInv, SendersOK, Busy
    <3>. snd'[w].pc = "post" => snd'[w].d = d
      BY Zenon DEF Busy
    <3>. QED
      BY Zenon
  <2>. \A x \in Deliveries : job'[x] = "queued" => posts'[x] <= reruns'[x]
    BY DEF TypeInv, SendersOK
  <2>. \A v \in Senders : snd'[v].pc \in {"post", "mark"} =>
                              dlv'[snd'[v].d].st \in {"pending", "failed_retry", "gone"}
    <3>. ASSUME NEW v \in Senders \ {w}, snd'[v].pc \in {"post", "mark"}
         PROVE  dlv'[snd'[v].d].st \in {"pending", "failed_retry", "gone"}
      BY SMTT(40) DEF TypeInv, SendersOK, Busy
    <3>. snd'[w].pc \in {"post", "mark"} => snd'[w].d = d
      BY Zenon DEF Busy
    <3>. QED
      OBVIOUS
  <2>. QED
    BY Zenon DEF SendersOK
<1>. \A f \in Fanouts : fan[f].pc = "enqueue" => fan[f].d # d
  BY Zenon DEF TypeInv, QueuersOK
<1>. QueuersOK'
  BY DEF TypeInv, QueuersOK
<1>. BatchesOK'
  BY Zenon DEF TypeInv, BatchesOK, Working
<1>. QED
  BY Zenon

\* One handler moves.
LEMMA SndSet ==
    ASSUME TypeOK, NEW w \in Senders, NEW x \in SenderWork, snd' = [snd EXCEPT ![w] = x]
    PROVE  /\ snd' \in [Senders -> SenderWork] /\ snd'[w] = x
           /\ \A v \in Senders \ {w} : snd'[v] = snd[v]
BY Zenon DEF TypeOK

\* A handler that waits.
LEMMA WaitingWork == Waiting \in SenderWork /\ Waiting.pc = "idle"
BY Zenon DEF Waiting, SenderWork, Posted

\* A busy handler has a row that is there, to itself.
LEMMA HasRow ==
    ASSUME TypeInv, NEW w \in Senders, Busy(w)
    PROVE  /\ snd[w].d \in Deliveries /\ job[snd[w].d] = "running"
           /\ dlv[snd[w].d] \in Row /\ dlv[snd[w].d].st # "none" /\ snd[w].hook \in Hooks
           /\ \A v \in Senders \ {w} : Busy(v) => snd[v].d # snd[w].d
           /\ snd[w] \in SenderWork
BY Zenon DEF TypeInv, TypeOK, SendersOK, RowsOK

\* The handler goes one step further.
LEMMA StepEffect ==
    ASSUME TypeInv, NEW w \in Senders, Busy(w), NEW pc \in {"mark", "record", "disable"},
           NEW out \in Posted \cup NotPosted \cup {"off"},
           snd' = [snd EXCEPT ![w] = [snd[w] EXCEPT !.pc = pc, !.out = out]]
    PROVE  /\ snd' \in [Senders -> SenderWork]
           /\ \A v \in Senders \ {w} : snd'[v] = snd[v]
           /\ snd'[w].pc = pc /\ snd'[w].d = snd[w].d /\ snd'[w].hook = snd[w].hook
           /\ snd'[w].out = out
<1> DEFINE x == [snd[w] EXCEPT !.pc = pc, !.out = out]
<1>. snd[w] \in SenderWork
  BY HasRow, Zenon
<1>. x \in SenderWork /\ x.pc = pc /\ x.d = snd[w].d /\ x.hook = snd[w].hook /\ x.out = out
  BY Zenon DEF SenderWork
<1>. snd' = [snd EXCEPT ![w] = x]
  BY Zenon
<1>. HIDE DEF x
<1>. QED
  BY SndSet, Zenon DEF TypeInv

\* The handler returns and the job is off the queue.
LEMMA FinishEffect ==
    ASSUME TypeInv, NEW w \in Senders, Busy(w), Finish(w)
    PROVE  /\ snd' \in [Senders -> SenderWork]
           /\ \A v \in Senders \ {w} : snd'[v] = snd[v]
           /\ snd'[w] = Waiting /\ snd'[w].pc = "idle"
           /\ job' \in [Deliveries -> {"none", "queued", "running"}]
           /\ job'[snd[w].d] = "none"
           /\ \A x \in Deliveries \ {snd[w].d} : job'[x] = job[x]
<1>. job' = [job EXCEPT ![snd[w].d] = "none"] /\ snd' = [snd EXCEPT ![w] = Waiting]
  BY Zenon DEF Finish
<1>. QED
  BY SndSet, WaitingWork, HasRow DEF TypeInv, TypeOK

\* The row and its webhook are read.
LEMMA LoadTypes ==
    ASSUME TypeInv, NEW w \in Senders, NEW d \in Deliveries, Load(w, d)
    PROVE  TypeInv'
<1>. UNCHANGED <<event, late, unowned, cursor, fan, again, hook, dlv, posts, reruns, faults, owed, undone>>
  BY Zenon DEF Load, log, fanning
<1>. snd[w].pc = "idle" /\ job[d] = "queued" /\ dlv[d] \in Row
  BY Zenon DEF Load, TypeInv, TypeOK
<1>. dlv[d].st # "none" /\ dlv[d].hook \in Hooks
  BY Zenon DEF TypeInv, RowsOK
<1>. \A v \in Senders \ {w} : Busy(v) => snd[v].d # d
  BY Zenon DEF TypeInv, SendersOK
<1>. posts[d] <= reruns[d]
  BY Zenon DEF TypeInv, SendersOK
<1>. CASE Terminal(dlv[d].st) \/ dlv[d].st = "gone"
  <2>. job' = [job EXCEPT ![d] = "none"] /\ snd' = snd
    BY Zenon DEF Load
  <2>. /\ job' \in [Deliveries -> {"none", "queued", "running"}] /\ job'[d] = "none"
       /\ \A x \in Deliveries \ {d} : job'[x] = job[x]
    BY Zenon DEF TypeInv, TypeOK
  <2>. TypeOK'
    BY Zenon DEF TypeInv, TypeOK
  <2>. RowsOK' /\ SendersOK' /\ QueuersOK' /\ BatchesOK'
    <3>. snd' \in [Senders -> SenderWork] /\ ~Busy(w)' /\ snd'[w].pc = "idle"
      BY Zenon DEF TypeInv, TypeOK, Busy
    <3>. QED
      BY SenderFrame, Zenon
  <2>. QED
    BY Zenon DEF TypeInv
<1>. CASE ~(Terminal(dlv[d].st) \/ dlv[d].st = "gone")
  <2> DEFINE x == [pc |-> IF On(dlv[d].hook) THEN "post" ELSE "mark", d |-> d,
                   out |-> "off", attempt |-> dlv[d].attempt, hook |-> dlv[d].hook]
  <2>. job' = [job EXCEPT ![d] = "running"] /\ snd' = [snd EXCEPT ![w] = x]
    BY Zenon DEF Load
  <2>. /\ job' \in [Deliveries -> {"none", "queued", "running"}] /\ job'[d] = "running"
       /\ \A y \in Deliveries \ {d} : job'[y] = job[y]
    BY Zenon DEF TypeInv, TypeOK
  <2>. x \in SenderWork /\ x.d = d /\ x.hook = dlv[d].hook /\ x.pc \in {"post", "mark"}
    BY Zenon DEF SenderWork, Row
  <2>. HIDE DEF x
  <2>. /\ snd' \in [Senders -> SenderWork] /\ snd'[w] = x
       /\ \A v \in Senders \ {w} : snd'[v] = snd[v]
    BY SndSet, Zenon DEF TypeInv
  <2>. TypeOK'
    BY Zenon DEF TypeInv, TypeOK
  <2>. dlv[d].st \in {"pending", "failed_retry", "gone"}
    BY Zenon DEF Row, Terminal
  <2>. RowsOK' /\ SendersOK' /\ QueuersOK' /\ BatchesOK'
    BY SenderFrame, Zenon
  <2>. QED
    BY Zenon DEF TypeInv
<1>. QED
  BY Zenon

\* The POST.
LEMMA PostTypes ==
    ASSUME TypeInv, NEW w \in Senders, NEW out \in Posted \cup NotPosted, Post(w, out)
    PROVE  TypeInv'
<1> DEFINE d == snd[w].d
<1>. UNCHANGED <<event, late, unowned, cursor, fan, again, hook, dlv, job, reruns, faults, owed, undone>>
  BY Zenon DEF Post, log, fanning
<1>. Busy(w) /\ snd[w].pc = "post"
  BY Zenon DEF Post, Busy
<1>. d \in Deliveries /\ job[d] = "running" /\ dlv[d].st # "none"
  BY HasRow, Zenon
<1>4. snd' = [snd EXCEPT ![w] = [snd[w] EXCEPT !.pc = "mark", !.out = out]]
  BY HasRow, Zenon DEF Post, TypeInv, TypeOK
<1>. /\ posts' \in [Deliveries -> Nat]
     /\ \A x \in Deliveries \ {d} : posts'[x] = posts[x]
  BY SMTT(40) DEF Post, TypeInv, TypeOK
<1>6. /\ snd' \in [Senders -> SenderWork]
      /\ \A v \in Senders \ {w} : snd'[v] = snd[v]
      /\ snd'[w].pc = "mark" /\ snd'[w].d = d /\ snd'[w].hook = snd[w].hook
  BY <1>4, StepEffect, Zenon
<1>7. TypeOK'
  BY <1>6, Zenon DEF TypeInv, TypeOK
<1>8. dlv[d].st \in {"pending", "failed_retry", "gone"}
  BY Zenon DEF TypeInv, SendersOK
<1>9. RowsOK' /\ SendersOK' /\ QueuersOK' /\ BatchesOK'
  <2>. \A v \in Senders \ {w} : Busy(v) => snd[v].d # d
    BY HasRow, Zenon
  <2>. snd[w].hook \in Hooks
    BY HasRow, Zenon
  <2>. posts'[d] <= 1 + reruns'[d]
    <3>. posts[d] \in Nat /\ reruns[d] \in Nat /\ posts[d] <= reruns[d]
      BY Zenon DEF TypeInv, TypeOK, SendersOK
    <3>. posts'[d] \in {posts[d], posts[d] + 1}
      BY Zenon DEF Post, TypeInv, TypeOK
    <3>. QED
      BY SMTT(40)
  <2>. HIDE DEF d
  <2>. QED
    BY <1>6, <1>8, SenderFrame
<1>. QED
  BY <1>7, <1>9, Zenon DEF TypeInv

\* What is written of a row is a row, with the same webhook, event and origin.
LEMMA MarkedIsRow ==
    ASSUME NEW w, NEW r \in Row
    PROVE  /\ MarkedRow(w, r) \in Row
           /\ MarkedRow(w, r).st # "none" /\ MarkedRow(w, r).hook = r.hook
           /\ MarkedRow(w, r).event = r.event /\ MarkedRow(w, r).copy = r.copy
<1>1. PICK st \in {"succeeded", "failed_retry", "failed_permanent"}, n \in Nat \ {0} :
          MarkedRow(w, r) = [r EXCEPT !.st = st, !.attempt = n]
  <2>. r.attempt \in Nat \ {0} /\ r.attempt + 1 \in Nat \ {0} /\ r = [r EXCEPT !.attempt = r.attempt]
    BY SMTT(40) DEF Row
  <2>2. CASE snd[w].out = "ok"
    <3>. MarkedRow(w, r) = [r EXCEPT !.st = "succeeded", !.attempt = r.attempt]
      BY <2>2, Zenon DEF MarkedRow, Row
    <3>. QED
      BY Zenon
  <2>. CASE snd[w].out # "ok" /\ Retries(w)
    <3>. MarkedRow(w, r) = [r EXCEPT !.st = "failed_retry", !.attempt = r.attempt + 1]
      BY Zenon DEF MarkedRow
    <3>. QED
      BY Zenon
  <2>. CASE snd[w].out # "ok" /\ ~Retries(w)
    <3>. MarkedRow(w, r) = [r EXCEPT !.st = "failed_permanent", !.attempt = r.attempt]
      BY Zenon DEF MarkedRow, Row
    <3>. QED
      BY Zenon
  <2>. QED
    BY <2>2, Zenon
<1>. QED
  BY <1>1, Zenon DEF Row

\* What a Mark does to the handler and its job.
LEMMA MarkGoes ==
    ASSUME TypeInv, NEW w \in Senders, Mark(w)
    PROVE  /\ snd' \in [Senders -> SenderWork]
           /\ \A v \in Senders \ {w} : snd'[v] = snd[v]
           /\ snd'[w].pc \in {"idle", "record", "disable"}
           /\ Busy(w)' => /\ snd'[w].d = snd[w].d /\ snd'[w].hook = snd[w].hook
                          /\ job'[snd[w].d] = "running"
           /\ job' \in [Deliveries -> {"none", "queued", "running"}]
           /\ job'[snd[w].d] # "queued"
           /\ \A x \in Deliveries \ {snd[w].d} : job'[x] = job[x]
<1>. Busy(w) /\ snd[w] \in SenderWork
  BY HasRow, Zenon DEF Mark, Busy
<1>2. /\ snd[w].out \in Posted \cup NotPosted \cup {"off"}
      /\ snd[w] = [snd[w] EXCEPT !.out = snd[w].out]
  BY Zenon DEF SenderWork
<1>3. CASE Finish(w)
  BY <1>3, FinishEffect, Zenon DEF Busy
<1>4. CASE /\ \E pc \in {"record", "disable"} : snd' = [snd EXCEPT ![w].pc = pc]
           /\ UNCHANGED job
  <2>1. PICK pc \in {"record", "disable"} : snd' = [snd EXCEPT ![w].pc = pc]
    BY <1>4, Zenon
  <2>2. snd' = [snd EXCEPT ![w] = [snd[w] EXCEPT !.pc = pc, !.out = snd[w].out]]
    BY <1>2, <2>1, Zenon DEF TypeInv, TypeOK
  <2>3. /\ snd' \in [Senders -> SenderWork]
        /\ \A v \in Senders \ {w} : snd'[v] = snd[v]
        /\ snd'[w].pc = pc /\ snd'[w].d = snd[w].d /\ snd'[w].hook = snd[w].hook
    BY <1>2, <2>2, StepEffect, Zenon
  <2>. QED
    BY <1>4, <2>3, HasRow, Zenon DEF TypeInv, TypeOK
<1>5. Finish(w) \/ /\ \E pc \in {"record", "disable"} : snd' = [snd EXCEPT ![w].pc = pc]
                   /\ UNCHANGED job
  <2>. CASE Retries(w) \/ snd[w].out \in {"off", "size"}
    BY Zenon DEF Mark
  <2>. CASE ~(Retries(w) \/ snd[w].out \in {"off", "size"}) /\ snd[w].out = "secret"
    BY Zenon DEF Mark
  <2>. CASE ~(Retries(w) \/ snd[w].out \in {"off", "size"}) /\ snd[w].out # "secret"
    BY Zenon DEF Mark
  <2>. QED
    BY Zenon
<1>. QED
  BY <1>3, <1>4, <1>5, Zenon

\* The outcome is written.
LEMMA MarkTypes == ASSUME TypeInv, NEW w \in Senders, Mark(w) PROVE TypeInv'
<1> DEFINE d == snd[w].d
           r == IF dlv[d].st = "gone" THEN dlv[d] ELSE MarkedRow(w, dlv[d])
<1>1. UNCHANGED <<event, late, unowned, cursor, fan, again, hook, posts, reruns, owed>>
  BY Zenon DEF Mark, log, fanning
<1>2. Busy(w) /\ snd[w].pc = "mark"
  BY Zenon DEF Mark, Busy
<1>3. d \in Deliveries /\ job[d] = "running" /\ dlv[d].st # "none" /\ dlv[d] \in Row
      /\ snd[w].hook \in Hooks /\ \A v \in Senders \ {w} : Busy(v) => snd[v].d # d
  BY <1>2, HasRow, Zenon
<1>4. r \in Row /\ r.st # "none" /\ r.hook = dlv[d].hook
  BY <1>3, MarkedIsRow, Zenon
<1>5. \/ dlv' = [dlv EXCEPT ![d] = r] /\ UNCHANGED <<faults, undone>>
      \/ faults' \in 0 .. MaxFaults /\ undone' = undone \cup {d} /\ UNCHANGED dlv
  BY FaultType, Zenon DEF Mark, TypeInv
<1>. HIDE DEF r
<1>6. /\ dlv' \in [Deliveries -> Row] /\ dlv'[d].st # "none" /\ dlv'[d].hook = dlv[d].hook
      /\ \A x \in Deliveries \ {d} : dlv'[x] = dlv[x]
  BY <1>3, <1>4, <1>5 DEF TypeInv, TypeOK
<1>7. faults' \in 0 .. MaxFaults /\ undone' \subseteq Hooks \cup Deliveries
  BY <1>3, <1>5, Zenon DEF TypeInv, TypeOK
<1>8. TypeOK'
  BY <1>1, <1>6, <1>7, MarkGoes, Zenon DEF TypeInv, TypeOK
<1>9. RowsOK' /\ SendersOK' /\ QueuersOK' /\ BatchesOK'
  <2>1. /\ snd' \in [Senders -> SenderWork]
        /\ \A v \in Senders \ {w} : snd'[v] = snd[v]
        /\ snd'[w].pc \notin {"post", "mark"}
        /\ Busy(w)' => snd'[w].d = d /\ snd'[w].hook = snd[w].hook /\ job'[d] = "running"
        /\ job'[d] # "queued"
        /\ \A x \in Deliveries \ {d} : job'[x] = job[x]
    BY MarkGoes, Zenon
  <2>. HIDE DEF d
  <2>. QED
    BY <1>1, <1>3, <1>6, <2>1, SenderFrame, Zenon
<1>. QED
  BY <1>8, <1>9, Zenon DEF TypeInv

\* The count of a webhook after a delivery.
Fails(w) == IF snd[w].out = "ok" THEN 0 ELSE hook[snd[w].hook].fails + 1

\* What a Record does to the handler, its job and its webhook.
LEMMA RecordEffect ==
    ASSUME TypeInv, NEW w \in Senders, Record(w)
    PROVE  /\ Busy(w) /\ snd[w].pc = "record"
           /\ \/ Finish(w)
              \/ /\ snd' = [snd EXCEPT ![w] = [snd[w] EXCEPT !.pc = "disable", !.out = snd[w].out]]
                 /\ UNCHANGED job
           /\ \/ UNCHANGED hook
              \/ /\ Exists(snd[w].hook)
                 /\ hook' = [hook EXCEPT ![snd[w].hook] = [hook[snd[w].hook] EXCEPT !.fails = Fails(w)]]
                 /\ Fails(w) \in Nat
                 /\ Fails(w) >= Threshold => snd'[w].pc = "disable" /\ snd'[w].hook = snd[w].hook
           /\ faults' \in 0 .. MaxFaults
           /\ UNCHANGED <<event, late, unowned, cursor, fan, again, dlv, posts, reruns, owed, undone>>
<1>1. Busy(w) /\ snd[w].pc = "record"
  BY Zenon DEF Record, Busy
<1>2. snd[w] \in SenderWork /\ snd[w].hook \in Hooks /\ hook[snd[w].hook] \in Webhook
  BY <1>1, HasRow, Zenon DEF TypeInv, TypeOK
<1>. snd[w] = [snd[w] EXCEPT !.out = snd[w].out]
  BY <1>2, Zenon DEF SenderWork
<1>. Fails(w) \in Nat
  BY <1>2, SMTT(40) DEF Fails, Webhook
<1>5. UNCHANGED <<event, late, unowned, cursor, fan, again, dlv, posts, reruns, owed, undone>>
  BY Zenon DEF Record, log, fanning
<1>. faults' \in 0 .. MaxFaults
  BY FaultType, Zenon DEF Record, TypeInv, TypeOK
<1>. ASSUME snd' = [snd EXCEPT ![w].pc = "disable"]
     PROVE  /\ snd' = [snd EXCEPT ![w] = [snd[w] EXCEPT !.pc = "disable", !.out = snd[w].out]]
            /\ snd'[w].pc = "disable" /\ snd'[w].hook = snd[w].hook
  BY <1>2, Zenon DEF TypeInv, TypeOK, SenderWork
<1>. CASE Finish(w) /\ UNCHANGED hook
  BY <1>1, <1>5, Zenon
<1>9. CASE /\ Exists(snd[w].hook)
           /\ hook' = [hook EXCEPT ![snd[w].hook].fails = Fails(w)]
           /\ IF Fails(w) >= Threshold THEN snd' = [snd EXCEPT ![w].pc = "disable"] /\ UNCHANGED job
              ELSE Finish(w)
  <2>1. hook' = [hook EXCEPT ![snd[w].hook] = [hook[snd[w].hook] EXCEPT !.fails = Fails(w)]]
    BY <1>2, <1>9, Zenon DEF TypeInv, TypeOK
  <2>2. CASE Fails(w) >= Threshold
    BY <1>1, <1>5, <1>9, <2>1, <2>2, Zenon
  <2>3. CASE ~(Fails(w) >= Threshold)
    BY <1>1, <1>5, <1>9, <2>1, <2>3, Zenon
  <2>. QED
    BY <2>2, <2>3, Zenon
<1>. QED
  BY <1>9, Zenon DEF Record, Fails

\* The count is written.
LEMMA RecordTypes == ASSUME TypeInv, NEW w \in Senders, Record(w) PROVE TypeInv'
<1> DEFINE d == snd[w].d
           x == [hook[snd[w].hook] EXCEPT !.fails = Fails(w)]
<1>1. Busy(w) /\ snd[w].pc = "record"
  BY RecordEffect, Zenon
<1>2. UNCHANGED <<event, late, unowned, cursor, fan, again, dlv, posts, reruns, owed, undone>>
  BY RecordEffect, ZenonT(30)
<1>3. d \in Deliveries /\ job[d] = "running" /\ dlv[d].st # "none" /\ snd[w].hook \in Hooks
      /\ (\A v \in Senders \ {w} : Busy(v) => snd[v].d # d)
      /\ snd[w].out \in Posted \cup NotPosted \cup {"off"}
  BY <1>1, HasRow, Zenon DEF SenderWork
<1>4. /\ snd' \in [Senders -> SenderWork]
      /\ \A v \in Senders \ {w} : snd'[v] = snd[v]
      /\ snd'[w].pc \in {"idle", "disable"}
      /\ Busy(w)' => snd'[w].d = d /\ snd'[w].hook = snd[w].hook /\ job'[d] = "running"
      /\ job' \in [Deliveries -> {"none", "queued", "running"}]
      /\ job'[d] # "queued"
      /\ \A y \in Deliveries \ {d} : job'[y] = job[y]
  <2>. CASE Finish(w)
    BY <1>1, FinishEffect, Zenon DEF Busy
  <2>. CASE /\ snd' = [snd EXCEPT ![w] = [snd[w] EXCEPT !.pc = "disable", !.out = snd[w].out]]
            /\ UNCHANGED job
    <3>. /\ snd' \in [Senders -> SenderWork]
         /\ \A v \in Senders \ {w} : snd'[v] = snd[v]
         /\ snd'[w].pc = "disable" /\ snd'[w].d = d /\ snd'[w].hook = snd[w].hook
      BY <1>1, <1>3, StepEffect, Zenon
    <3>. QED
      BY <1>3, SMTT(40) DEF TypeInv, TypeOK
  <2>. QED
    BY RecordEffect, Zenon
<1>. hook' \in [Hooks -> Webhook]
  <2>. hook[snd[w].hook] \in Webhook
    BY <1>3, Zenon DEF TypeInv, TypeOK
  <2>. Fails(w) \in Nat => x \in Webhook
    BY Zenon DEF Webhook
  <2>. HIDE DEF x
  <2>. UNCHANGED hook \/ (Fails(w) \in Nat /\ hook' = [hook EXCEPT ![snd[w].hook] = x])
    BY RecordEffect, Zenon DEF x
  <2>. QED
    BY DEF TypeInv, TypeOK
<1>. faults' \in 0 .. MaxFaults
  BY RecordEffect, Zenon
<1>. TypeOK'
  BY <1>2, <1>4, Zenon DEF TypeInv, TypeOK
<1>. RowsOK' /\ SendersOK' /\ QueuersOK' /\ BatchesOK'
  <2>. HIDE DEF d
  <2>. QED
    BY <1>2, <1>3, <1>4, SenderFrame, Zenon
<1>. QED
  BY Zenon DEF TypeInv

\* What a Disable does to the webhook and to what it is owed.
LEMMA DisableEffect ==
    ASSUME TypeInv, NEW w \in Senders, Disable(w)
    PROVE  /\ Busy(w) /\ snd[w].pc = "disable" /\ Finish(w)
           /\ \/ /\ hook' = [hook EXCEPT ![snd[w].hook] =
                                [hook[snd[w].hook] EXCEPT !.disabled = @ \/ Exists(snd[w].hook)]]
                 /\ owed' = {p \in owed : p[2] # snd[w].hook}
                 /\ UNCHANGED undone
              \/ undone' = undone \cup {snd[w].hook} /\ UNCHANGED <<hook, owed>>
           /\ faults' \in 0 .. MaxFaults
           /\ UNCHANGED <<event, late, unowned, cursor, fan, again, dlv, posts, reruns>>
<1>. Busy(w) /\ snd[w].pc = "disable" /\ Finish(w)
  BY Zenon DEF Disable, Busy
<1>. snd[w].hook \in Hooks
  BY HasRow, Zenon
<1>. faults' \in 0 .. MaxFaults
  BY FaultType, Zenon DEF Disable, TypeInv, TypeOK
<1>. UNCHANGED <<event, late, unowned, cursor, fan, again, dlv, posts, reruns>>
  BY Zenon DEF Disable, log, fanning
<1>. CASE /\ hook' = [hook EXCEPT ![snd[w].hook].disabled = @ \/ Exists(snd[w].hook)]
          /\ Keep({p \in owed : p[2] # snd[w].hook})
          /\ UNCHANGED <<faults, undone>>
  <2>. owed' = {p \in owed : p[2] # snd[w].hook}
    BY Zenon DEF Keep
  <2>. hook' = [hook EXCEPT ![snd[w].hook] =
                   [hook[snd[w].hook] EXCEPT !.disabled = @ \/ Exists(snd[w].hook)]]
    BY Zenon DEF TypeInv, TypeOK
  <2>. QED
    BY Zenon
<1>. CASE undone' = undone \cup {snd[w].hook} /\ UNCHANGED <<hook, owed>>
  BY Zenon
<1>. QED
  BY Zenon DEF Disable

\* The webhook is switched off.
LEMMA DisableTypes == ASSUME TypeInv, NEW w \in Senders, Disable(w) PROVE TypeInv'
<1> DEFINE d == snd[w].d
           h == snd[w].hook
           x == [hook[h] EXCEPT !.disabled = @ \/ Exists(h)]
<1>1. Busy(w) /\ Finish(w)
  BY DisableEffect, Zenon
<1>2. UNCHANGED <<event, late, unowned, cursor, fan, again, dlv, posts, reruns>>
  BY DisableEffect, Zenon
<1>3. d \in Deliveries /\ job[d] = "running" /\ dlv[d].st # "none" /\ h \in Hooks
      /\ (\A v \in Senders \ {w} : Busy(v) => snd[v].d # d)
  BY <1>1, HasRow, Zenon
<1>4. /\ snd' \in [Senders -> SenderWork]
      /\ \A v \in Senders \ {w} : snd'[v] = snd[v]
      /\ snd'[w].pc = "idle"
      /\ job' \in [Deliveries -> {"none", "queued", "running"}]
      /\ job'[d] # "queued"
      /\ \A y \in Deliveries \ {d} : job'[y] = job[y]
  BY <1>1, FinishEffect, Zenon
<1>. hook' \in [Hooks -> Webhook] /\ owed' \subseteq Events \X Hooks
      /\ undone' \subseteq Hooks \cup Deliveries
  <2>1. hook[h] \in Webhook
    BY <1>3, Zenon DEF TypeInv, TypeOK
  <2>2. x \in Webhook
    BY <2>1, Zenon DEF Webhook
  <2>. HIDE DEF x
  <2>3. \/ hook' = [hook EXCEPT ![h] = x] /\ owed' \subseteq owed /\ UNCHANGED undone
        \/ undone' = undone \cup {h} /\ UNCHANGED <<hook, owed>>
    BY DisableEffect, Zenon DEF x
  <2>. HIDE DEF h
  <2>. QED
    BY <1>3, <2>2, <2>3, Zenon DEF TypeInv, TypeOK
<1>. faults' \in 0 .. MaxFaults
  BY DisableEffect, Zenon
<1>. TypeOK'
  BY <1>2, <1>4, Zenon DEF TypeInv, TypeOK
<1>. RowsOK' /\ SendersOK' /\ QueuersOK' /\ BatchesOK'
  <2>1. ~Busy(w)'
    BY <1>4, Zenon DEF Busy
  <2>. HIDE DEF d
  <2>. QED
    BY <1>2, <1>3, <1>4, <2>1, SenderFrame, Zenon
<1>. QED
  BY Zenon DEF TypeInv

\* A handler dies.
LEMMA LostTypes == ASSUME TypeInv, NEW w \in Senders, SenderLost(w) PROVE TypeInv'
<1> DEFINE d == snd[w].d
<1>. Busy(w)
  BY Zenon DEF SenderLost, Busy
<1>. UNCHANGED <<event, late, unowned, cursor, fan, again, hook, dlv, posts, owed>>
  BY Zenon DEF SenderLost, log, fanning
<1>. d \in Deliveries /\ job[d] = "running" /\ dlv[d].st # "none" /\ snd[w].hook \in Hooks
      /\ (\A v \in Senders \ {w} : Busy(v) => snd[v].d # d)
  BY HasRow, Zenon
<1>4. /\ snd' \in [Senders -> SenderWork]
      /\ \A v \in Senders \ {w} : snd'[v] = snd[v]
      /\ snd'[w].pc = "idle"
  BY SndSet, WaitingWork, Zenon DEF SenderLost, TypeInv
<1>5. /\ job' \in [Deliveries -> {"none", "queued", "running"}]
      /\ \A y \in Deliveries \ {d} : job'[y] = job[y]
  BY Zenon DEF SenderLost, TypeInv, TypeOK
<1>6. /\ reruns' \in [Deliveries -> Nat] /\ reruns'[d] = reruns[d] + 1
      /\ \A y \in Deliveries \ {d} : reruns'[y] = reruns[y]
  BY SMTT(40) DEF SenderLost, TypeInv, TypeOK
<1>. faults' \in 0 .. MaxFaults /\ undone' \subseteq Hooks \cup Deliveries
  BY FaultType, Zenon DEF SenderLost, TypeInv, TypeOK
<1>. TypeOK'
  BY <1>4, <1>5, <1>6, Zenon DEF TypeInv, TypeOK
<1>. posts'[d] <= reruns'[d] /\ posts'[d] <= 1 + reruns'[d]
  <2>. posts[d] \in Nat /\ reruns[d] \in Nat /\ posts[d] <= 1 + reruns[d]
    BY Zenon DEF TypeInv, TypeOK, RowsOK
  <2>. QED
    BY <1>6, SMTT(40)
<1>. RowsOK' /\ SendersOK' /\ QueuersOK' /\ BatchesOK'
  <2>. ~Busy(w)'
    BY <1>4, Zenon DEF Busy
  <2>. HIDE DEF d
  <2>. QED
    BY <1>4, <1>5, <1>6, SenderFrame
<1>. QED
  BY Zenon DEF TypeInv

\* The parts of the invariant that are about rows and handlers.
LEMMA LinksUnchanged ==
    ASSUME TypeInv, UNCHANGED <<dlv, job, fan, snd, posts, reruns>>
    PROVE  RowsOK' /\ SendersOK' /\ QueuersOK' /\ BatchesOK'
<1>1. RowsOK' /\ QueuersOK'
  BY Zenon DEF TypeInv, RowsOK, QueuersOK
<1>2. SendersOK'
  BY Zenon DEF TypeInv, SendersOK, Busy
<1>3. BatchesOK'
  BY Zenon DEF TypeInv, BatchesOK, Working
<1>. QED
  BY <1>1, <1>2, <1>3, Zenon

\* An emitter's steps.
LEMMA EmitterTypes ==
    ASSUME TypeInv, NEW e \in Events, Emit(e) \/ CommitEvent(e) \/ RollbackEvent(e)
    PROVE  TypeInv'
<1>. UNCHANGED <<late, unowned, cursor, fan, again, hook, dlv, job, snd, posts, reruns, faults, undone>>
  BY Zenon DEF Emit, CommitEvent, RollbackEvent, fanning, sending
<1>. event' \in [Events -> {"none", "open", "visible", "aborted"}]
  BY Zenon DEF Emit, CommitEvent, RollbackEvent, TypeInv, TypeOK
<1>. owed' \subseteq Events \X Hooks
  BY SMTT(40) DEF Emit, CommitEvent, RollbackEvent, TypeInv, TypeOK
<1>. TypeOK'
  BY Zenon DEF TypeInv, TypeOK
<1>. QED
  BY LinksUnchanged, Zenon DEF TypeInv

\* A new row and its job.
LEMMA SubmitEffect ==
    ASSUME TypeInv, NEW d \in Deliveries, NEW r \in Row, r.st = "pending", r.hook \in Hooks,
           Submit(d, r), UNCHANGED <<fan, snd, posts, reruns>>
    PROVE  /\ dlv[d].st = "none" /\ dlv'[d] = r
           /\ dlv' \in [Deliveries -> Row] /\ \A x \in Deliveries \ {d} : dlv'[x] = dlv[x]
           /\ job' \in [Deliveries -> {"none", "queued", "running"}]
           /\ faults' \in 0 .. MaxFaults
           /\ RowsOK' /\ SendersOK' /\ QueuersOK' /\ BatchesOK'
<1>. dlv[d].st = "none" /\ dlv' = [dlv EXCEPT ![d] = r]
  BY DEF Submit, Fresh
<1>. /\ dlv' \in [Deliveries -> Row] /\ dlv'[d] = r
     /\ \A x \in Deliveries \ {d} : dlv'[x] = dlv[x]
  BY Zenon DEF TypeInv, TypeOK
<1>. job[d] = "none" /\ posts[d] = 0 /\ reruns[d] \in Nat
  BY Zenon DEF TypeInv, RowsOK, TypeOK
<1>. /\ job' \in [Deliveries -> {"none", "queued", "running"}]
     /\ job'[d] \in {"none", "queued"}
     /\ \A x \in Deliveries \ {d} : job'[x] = job[x]
  BY DEF Submit, TypeInv, TypeOK
<1>. faults' \in 0 .. MaxFaults
  BY FaultType, Zenon DEF Submit, TypeInv, TypeOK
<1>. RowsOK'
  BY DEF TypeInv, RowsOK
<1>. \A w \in Senders : Busy(w) => snd[w].d # d
  BY Zenon DEF TypeInv, SendersOK
<1>. SendersOK'
  <2>. \A w \in Senders : Busy(w)' <=> Busy(w)
    BY Zenon DEF Busy
  <2>. \A w \in Senders : snd[w].pc \in {"post", "mark"} => Busy(w)
    BY Zenon DEF Busy
  <2>. \A w \in Senders :
          Busy(w) => /\ snd[w].d \in Deliveries \ {d} /\ job'[snd[w].d] = "running"
                     /\ snd[w].hook \in Hooks
    BY Zenon DEF TypeInv, SendersOK
  <2>. \A x \in Deliveries : job'[x] = "queued" => posts[x] <= reruns[x]
    BY SMTT(40) DEF TypeInv, SendersOK
  <2>. \A w \in Senders :
          snd[w].pc \in {"post", "mark"} => dlv'[snd[w].d].st \in {"pending", "failed_retry", "gone"}
    BY Zenon DEF TypeInv, SendersOK
  <2>. QED
    BY Zenon DEF TypeInv, SendersOK
<1>. \A f \in Fanouts : fan[f].pc = "enqueue" => fan[f].d \in Deliveries \ {d}
  BY DEF TypeInv, QueuersOK
<1>. QueuersOK'
  BY DEF TypeInv, QueuersOK
<1>. BatchesOK'
  BY Zenon DEF TypeInv, BatchesOK, Working
<1>. QED
  BY Zenon

\* The rows of the owner's requests.
LEMMA SubmittedRow ==
    ASSUME TypeInv
    PROVE  /\ \A h \in Hooks : LET r == Pending(h, Ping, PingAttempts, FALSE)
                               IN  r \in Row /\ r.st = "pending" /\ r.hook = h /\ r.event = Ping
           /\ \A o \in Deliveries : dlv[o].st # "none" =>
                 LET r == Pending(dlv[o].hook, dlv[o].event, dlv[o].max, TRUE)
                 IN  r \in Row /\ r.st = "pending" /\ r.hook \in Hooks /\ r.copy = TRUE
<1>. PingAttempts \in Nat
  BY WebhookAssumption, Zenon
<1>. 1 \in Nat /\ 1 # 0
  BY SMTT(40)
<1>. ASSUME NEW o \in Deliveries, dlv[o].st # "none"
     PROVE  /\ dlv[o].hook \in Hooks /\ dlv[o].event \in Events \cup {Ping}
            /\ dlv[o].max \in Nat
  BY Zenon DEF TypeInv, TypeOK, RowsOK, Row
<1>. QED
  BY Zenon DEF Pending, Row

\* A webhook is made, with its ping.
LEMMA CreateHookTypes ==
    ASSUME TypeInv, NEW h \in Hooks, NEW d \in Deliveries, NEW active \in BOOLEAN, NEW kinds \in Filters,
           CreateHook(h, d, active, kinds)
    PROVE  TypeInv'
<1> DEFINE r == Pending(h, Ping, PingAttempts, FALSE)
<1>. UNCHANGED <<event, late, unowned, cursor, fan, again, snd, posts, reruns, owed, undone>>
  BY Zenon DEF CreateHook, log, fanning, sending
<1>. hook' \in [Hooks -> Webhook]
  <2>. NewHook(active, kinds) \in Webhook
    BY WebhookAssumption, Zenon DEF NewHook, Webhook
  <2>. QED
    BY Zenon DEF CreateHook, TypeInv, TypeOK
<1>. r \in Row /\ r.st = "pending" /\ r.hook \in Hooks
  BY SubmittedRow, Zenon
<1>. CASE Submit(d, r)
  <2>. HIDE DEF r
  <2>. /\ dlv' \in [Deliveries -> Row]
       /\ job' \in [Deliveries -> {"none", "queued", "running"}]
       /\ faults' \in 0 .. MaxFaults
       /\ RowsOK' /\ SendersOK' /\ QueuersOK' /\ BatchesOK'
    BY SubmitEffect, Zenon
  <2>. TypeOK'
    BY Zenon DEF TypeInv, TypeOK
  <2>. QED
    BY Zenon DEF TypeInv
<1>. CASE Fault("db") /\ UNCHANGED <<dlv, job>>
  <2>. faults' \in 0 .. MaxFaults
    BY FaultType, Zenon DEF TypeInv
  <2>. TypeOK'
    BY Zenon DEF TypeInv, TypeOK
  <2>. QED
    BY LinksUnchanged, Zenon DEF TypeInv
<1>. QED
  BY Zenon DEF CreateHook

\* A ping or a redelivery.
LEMMA SubmitTypes ==
    ASSUME TypeInv, NEW d \in Deliveries,
           \/ \E h \in Hooks : SendPing(h, d)
           \/ \E o \in Deliveries : Redeliver(o, d)
    PROVE  TypeInv'
<1>. UNCHANGED <<event, late, unowned, cursor, fan, again, hook, snd, posts, reruns, owed, undone>>
  BY Zenon DEF SendPing, Redeliver, log, fanning, sending
<1>. PICK r \in Row : Submit(d, r) /\ r.st = "pending" /\ r.hook \in Hooks
  <2>. CASE \E h \in Hooks : SendPing(h, d)
    BY SubmittedRow, ZenonT(30) DEF SendPing
  <2>. CASE \E o \in Deliveries : Redeliver(o, d)
    BY SubmittedRow, Zenon DEF Redeliver
  <2>. QED
    BY Zenon
<1>. /\ dlv' \in [Deliveries -> Row]
     /\ job' \in [Deliveries -> {"none", "queued", "running"}]
     /\ faults' \in 0 .. MaxFaults
     /\ RowsOK' /\ SendersOK' /\ QueuersOK' /\ BatchesOK'
  BY SubmitEffect, Zenon
<1>. TypeOK'
  BY Zenon DEF TypeInv, TypeOK
<1>. QED
  BY Zenon DEF TypeInv

\* One webhook changes.
LEMMA HookSet ==
    ASSUME TypeInv, NEW h \in Hooks, NEW x \in Webhook, hook' = [hook EXCEPT ![h] = x]
    PROVE  /\ hook' \in [Hooks -> Webhook] /\ hook'[h] = x
           /\ \A g \in Hooks \ {h} : hook'[g] = hook[g]
BY Zenon DEF TypeInv, TypeOK

\* What an Update makes of it.
LEMMA UpdateEffect ==
    ASSUME TypeInv, NEW h \in Hooks, NEW active \in BOOLEAN, NEW kinds \in Filters,
           UpdateHook(h, active, kinds)
    PROVE  /\ hook' \in [Hooks -> Webhook]
           /\ hook'[h].st = "row" /\ hook[h].st = "row"
           /\ hook'[h].active = active /\ hook'[h].kinds = kinds
           /\ hook'[h].disabled = hook[h].disabled /\ hook'[h].fails = hook[h].fails
           /\ \A g \in Hooks \ {h} : hook'[g] = hook[g]
<1> DEFINE x == [hook[h] EXCEPT !.active = active, !.kinds = kinds]
<1>. hook[h] \in Webhook /\ hook[h].st = "row" /\ kinds \in SUBSET Kinds
  BY WebhookAssumption, Zenon DEF TypeInv, TypeOK, UpdateHook, Exists
<1>. /\ x \in Webhook /\ x.st = "row" /\ x.active = active /\ x.kinds = kinds
     /\ x.disabled = hook[h].disabled /\ x.fails = hook[h].fails
  BY Zenon DEF Webhook
<1>. hook' = [hook EXCEPT ![h] = x]
  BY Zenon DEF UpdateHook, TypeInv, TypeOK
<1>. HIDE DEF x
<1>. QED
  BY HookSet, Zenon

\* What SetActive makes of it.
LEMMA ActiveEffect ==
    ASSUME TypeInv, NEW h \in Hooks, NEW active \in BOOLEAN, SetActive(h, active)
    PROVE  /\ hook' \in [Hooks -> Webhook]
           /\ hook'[h].st = "row" /\ hook[h].st = "row"
           /\ hook'[h].active = active /\ hook'[h].kinds = hook[h].kinds
           /\ hook'[h].disabled = FALSE /\ hook'[h].fails = 0
           /\ \A g \in Hooks \ {h} : hook'[g] = hook[g]
<1> DEFINE x == [hook[h] EXCEPT !.active = active, !.disabled = FALSE, !.fails = 0]
<1>. hook[h] \in Webhook /\ hook[h].st = "row"
  BY Zenon DEF TypeInv, TypeOK, SetActive, Exists
<1>. /\ x \in Webhook /\ x.st = "row" /\ x.active = active /\ x.kinds = hook[h].kinds
     /\ x.disabled = FALSE /\ x.fails = 0
  BY Zenon DEF Webhook
<1>. hook' = [hook EXCEPT ![h] = x]
  BY Zenon DEF SetActive, TypeInv, TypeOK
<1>. HIDE DEF x
<1>. QED
  BY HookSet, Zenon

\* What a deletion makes of it.
LEMMA DeleteEffect ==
    ASSUME TypeInv, NEW h \in Hooks, DeleteHook(h)
    PROVE  /\ hook' \in [Hooks -> Webhook] /\ hook'[h].st = "gone"
           /\ \A g \in Hooks \ {h} : hook'[g] = hook[g]
<1> DEFINE x == [hook[h] EXCEPT !.st = "gone"]
<1>. hook[h] \in Webhook
  BY Zenon DEF TypeInv, TypeOK
<1>. x \in Webhook /\ x.st = "gone"
  BY Zenon DEF Webhook
<1>. hook' = [hook EXCEPT ![h] = x]
  BY Zenon DEF DeleteHook, TypeInv, TypeOK
<1>. HIDE DEF x
<1>. QED
  BY HookSet, Zenon

\* An owner changes a webhook.
LEMMA ChangeTypes ==
    ASSUME TypeInv, NEW h \in Hooks, NEW active \in BOOLEAN,
           SetActive(h, active) \/ \E kinds \in Filters : UpdateHook(h, active, kinds)
    PROVE  TypeInv'
<1>. UNCHANGED <<event, late, unowned, cursor, fan, again, dlv, job, snd, posts, reruns, faults>>
  BY Zenon DEF SetActive, UpdateHook, log, fanning, sending
<1>. owed' \subseteq owed /\ undone' \subseteq undone
  BY Zenon DEF SetActive, UpdateHook, Keep
<1>. hook' \in [Hooks -> Webhook]
  BY UpdateEffect, ActiveEffect, Zenon
<1>. TypeOK'
  BY Zenon DEF TypeInv, TypeOK
<1>. QED
  BY LinksUnchanged, Zenon DEF TypeInv

\* Rows end as gone: nobody has anything else to expect of them.
LEMMA RowsGone ==
    ASSUME TypeInv, dlv' \in [Deliveries -> Row],
           \A d \in Deliveries :
               \/ dlv'[d] = dlv[d]
               \/ dlv[d].st # "none" /\ dlv'[d].st = "gone" /\ dlv'[d].hook = dlv[d].hook,
           UNCHANGED <<job, fan, snd, posts, reruns>>
    PROVE  RowsOK' /\ SendersOK' /\ QueuersOK' /\ BatchesOK'
<1>. \A d \in Deliveries : /\ dlv'[d].st = "none" <=> dlv[d].st = "none"
                            /\ dlv'[d].hook = dlv[d].hook
                            /\ dlv'[d].st \in {dlv[d].st, "gone"}
  BY Zenon
<1>. RowsOK'
  BY Zenon DEF TypeInv, RowsOK
<1>. QueuersOK'
  BY Zenon DEF TypeInv, QueuersOK
<1>. SendersOK'
  <2>. \A w \in Senders : snd[w].pc \in {"post", "mark"} => snd[w].d \in Deliveries
    BY Zenon DEF TypeInv, SendersOK, Busy
  <2>. \A w \in Senders :
          snd[w].pc \in {"post", "mark"} => dlv'[snd[w].d].st \in {"pending", "failed_retry", "gone"}
    BY Zenon DEF TypeInv, SendersOK
  <2>. QED
    BY ZenonT(30) DEF TypeInv, SendersOK, Busy
<1>. BatchesOK'
  BY Zenon DEF TypeInv, BatchesOK, Working
<1>. QED
  BY Zenon

\* What a deletion makes of the rows.
LEMMA DeleteRows ==
    ASSUME TypeInv, NEW h \in Hooks, DeleteHook(h)
    PROVE  /\ dlv' \in [Deliveries -> Row]
           /\ \A d \in Deliveries :
                 \/ dlv'[d] = dlv[d]
                 \/ /\ dlv[d].st # "none" /\ dlv'[d].st = "gone" /\ dlv'[d].hook = dlv[d].hook
                    /\ dlv'[d].event = dlv[d].event /\ dlv'[d].copy = dlv[d].copy
<1>. ASSUME NEW d \in Deliveries
     PROVE  /\ dlv'[d] \in Row
            /\ \/ dlv'[d] = dlv[d]
               \/ /\ dlv[d].st # "none" /\ dlv'[d].st = "gone" /\ dlv'[d].hook = dlv[d].hook
                  /\ dlv'[d].event = dlv[d].event /\ dlv'[d].copy = dlv[d].copy
  <2>. dlv[d] \in Row
    BY Zenon DEF TypeInv, TypeOK
  <2>. dlv'[d] = IF dlv[d].hook = h THEN [dlv[d] EXCEPT !.st = "gone"] ELSE dlv[d]
    BY Zenon DEF DeleteHook
  <2>. dlv[d].hook = h => dlv[d].st # "none"
    BY WebhookAssumption DEF TypeInv, RowsOK
  <2>. QED
    BY DEF Row
<1>. DOMAIN dlv' = Deliveries /\ dlv' = [d \in Deliveries |-> dlv'[d]]
  BY Zenon DEF DeleteHook
<1>. QED
  BY Zenon

\* An owner deletes a webhook.
LEMMA DeleteTypes == ASSUME TypeInv, NEW h \in Hooks, DeleteHook(h) PROVE TypeInv'
<1>. UNCHANGED <<event, late, unowned, cursor, fan, again, job, snd, posts, reruns, faults, undone>>
  BY Zenon DEF DeleteHook, log, fanning, sending
<1>. owed' \subseteq owed
  BY Zenon DEF DeleteHook, Keep
<1>. hook' \in [Hooks -> Webhook]
  BY DeleteEffect, Zenon
<1>. dlv' \in [Deliveries -> Row]
  BY DeleteRows, Zenon
<1>. TypeOK'
  BY Zenon DEF TypeInv, TypeOK
<1>. RowsOK' /\ SendersOK' /\ QueuersOK' /\ BatchesOK'
  BY DeleteRows, RowsGone, Zenon
<1>. QED
  BY Zenon DEF TypeInv

\* What the retention sweep makes of a row.
LEMMA PurgedRow ==
    ASSUME TypeInv, NEW d \in Deliveries, PurgeOld(d)
    PROVE  /\ dlv' \in [Deliveries -> Row]
           /\ dlv[d].st # "none" /\ dlv'[d].st = "gone" /\ dlv'[d].hook = dlv[d].hook
           /\ dlv'[d].event = dlv[d].event /\ dlv'[d].copy = dlv[d].copy
           /\ \A x \in Deliveries \ {d} : dlv'[x] = dlv[x]
<1> DEFINE r == [dlv[d] EXCEPT !.st = "gone"]
<1>. dlv[d] \in Row /\ dlv[d].st # "none"
  BY Zenon DEF PurgeOld, Terminal, TypeInv, TypeOK
<1>. /\ r \in Row /\ r.st = "gone" /\ r.hook = dlv[d].hook
     /\ r.event = dlv[d].event /\ r.copy = dlv[d].copy
  BY Zenon DEF Row
<1>. dlv' = [dlv EXCEPT ![d] = r]
  BY Zenon DEF PurgeOld, TypeInv, TypeOK
<1>. HIDE DEF r
<1>. QED
  BY Zenon DEF TypeInv, TypeOK

\* The retention sweep.
LEMMA PurgeTypes == ASSUME TypeInv, NEW d \in Deliveries, PurgeOld(d) PROVE TypeInv'
<1>. UNCHANGED <<event, late, unowned, cursor, fan, again, hook, job, snd, posts, reruns, faults, owed, undone>>
  BY Zenon DEF PurgeOld, log, fanning, sending
<1>. TypeOK'
  BY PurgedRow, Zenon DEF TypeInv, TypeOK
<1>. RowsOK' /\ SendersOK' /\ QueuersOK' /\ BatchesOK'
  BY PurgedRow, RowsGone, Zenon
<1>. QED
  BY Zenon DEF TypeInv

\* Types and links at the start.
LEMMA TypeInit == Init => TypeInv
<1>. SUFFICES ASSUME Init PROVE TypeInv
  BY Zenon
<1>. 1 \in Nat /\ 1 # 0
  BY SMTT(40)
<1>. NoRow \in Row /\ NoRow.st = "none" /\ NoRow.hook = None
  BY Zenon DEF NoRow, Row
<1>. NoHook \in Webhook /\ NewHook(TRUE, Kinds) \in Webhook
  BY Zenon DEF NoHook, NewHook, Webhook
<1>. 0 \in 0 .. MaxFaults /\ 0 \in 0 .. MaxDeliveries
  BY WebhookAssumption, SMTT(40)
<1>. TypeOK
  BY AtRest, WaitingWork, ZenonT(30) DEF Init, TypeOK
<1>. RowsOK
  BY SMTT(40) DEF Init, RowsOK
<1>. SendersOK
  BY WaitingWork, Zenon DEF Init, SendersOK, Busy
<1>. QueuersOK
  BY AtRest, Zenon DEF Init, QueuersOK, Stage
<1>. BatchesOK
  BY AtRest, Zenon DEF Init, BatchesOK, Working, Stage
<1>. QED
  BY Zenon DEF TypeInv

\* No step breaks them.
LEMMA TypeStep == TypeInv /\ [Next]_vars => TypeInv'
<1>. SUFFICES ASSUME TypeInv, [Next]_vars PROVE TypeInv'
  BY Zenon
<1>. CASE UNCHANGED vars
  <2>. TypeOK'
    BY Zenon DEF vars, TypeInv, TypeOK
  <2>. QED
    BY LinksUnchanged, Zenon DEF vars, TypeInv
<1>. CASE \E e \in Events : Emit(e) \/ CommitEvent(e) \/ RollbackEvent(e)
  BY EmitterTypes, Zenon
<1>. CASE \E f \in Fanouts : FanoutStep(f)
  BY ReadTypes, ListTypes, GoesOnTypes, CreateTypes, EnqueueTypes, Zenon DEF FanoutStep
<1>. CASE \E w \in Senders : Deliver(w) \/ SenderLost(w)
  BY LoadTypes, PostTypes, MarkTypes, RecordTypes, DisableTypes, LostTypes, Zenon DEF Deliver
<1>. CASE Manage
  BY CreateHookTypes, SubmitTypes, ChangeTypes, DeleteTypes, PurgeTypes, Zenon DEF Manage
<1>. QED
  BY Zenon DEF Next

\* The tables, the jobs, the handlers and the history keep their types, for any
\* number of events, webhooks, handlers and rows.
THEOREM TypeCorrect == Spec => []TypeOK
<1>. TypeInv => TypeOK
  BY Zenon DEF TypeInv
<1>. QED
  BY TypeInit, TypeStep, PTL DEF Spec

\* A row is POSTed at most once for each attempt it records and once more for each
\* handler of it that died, for any number of handlers and rows.
THEOREM PostedOnce == Spec => []OnePostPerAttempt
<1>. TypeInv => OnePostPerAttempt
  <2>. SUFFICES ASSUME TypeInv, NEW d \in Deliveries PROVE posts[d] <= dlv[d].attempt + reruns[d]
    BY Zenon DEF OnePostPerAttempt
  <2>. posts[d] \in Nat /\ reruns[d] \in Nat /\ dlv[d].attempt \in Nat \ {0}
    BY Zenon DEF TypeInv, TypeOK, Row
  <2>. posts[d] <= 1 + reruns[d]
    BY Zenon DEF TypeInv, RowsOK
  <2>. QED
    BY SMTT(40)
<1>. QED
  BY TypeInit, TypeStep, PTL DEF Spec

-----------------------------------------------------------------------------
(* Outcomes and the threshold *)

\* No step changes an outcome.
LEMMA OutcomeStep ==
    ASSUME TypeInv, Next, NEW d \in Deliveries, Terminal(dlv[d].st)
    PROVE  dlv'[d].st \in {dlv[d].st, "gone"}
<1>. CASE UNCHANGED dlv
  BY Zenon
<1>. ASSUME NEW x \in Deliveries, dlv[x].st = "none", NEW r, dlv' = [dlv EXCEPT ![x] = r]
     PROVE  dlv'[d] = dlv[d]
  BY Zenon DEF Terminal, TypeInv, TypeOK
<1>. ASSUME NEW f \in Fanouts, NEW h \in Hooks, NEW x \in Deliveries, FanoutCreate(f, h, x)
     PROVE  dlv'[d] = dlv[d]
  BY Zenon DEF FanoutCreate, Fresh
<1>. ASSUME NEW x \in Deliveries, NEW r, Submit(x, r)
     PROVE  dlv'[d] = dlv[d]
  BY Zenon DEF Submit, Fresh
<1>. ASSUME NEW w \in Senders, Mark(w)
     PROVE  dlv'[d] = dlv[d]
  <2>. dlv[snd[w].d].st \in {"pending", "failed_retry", "gone"}
    BY Zenon DEF Mark, TypeInv, SendersOK
  <2>. snd[w].d # d
    BY Zenon DEF Terminal
  <2>. QED
    BY Zenon DEF Mark, TypeInv, TypeOK
<1>. ASSUME NEW x \in Deliveries, PurgeOld(x)
     PROVE  dlv'[d].st \in {dlv[d].st, "gone"}
  BY PurgedRow, Zenon
<1>. ASSUME NEW h \in Hooks, DeleteHook(h)
     PROVE  dlv'[d].st \in {dlv[d].st, "gone"}
  BY DeleteRows, Zenon
<1>. CASE \E e \in Events : Emit(e) \/ CommitEvent(e) \/ RollbackEvent(e)
  BY Zenon DEF Emit, CommitEvent, RollbackEvent
<1>. CASE \E f \in Fanouts : FanoutStep(f)
  BY Zenon DEF FanoutStep, FanoutRead, FanoutList, FanoutMatch, FanoutEnqueue,
                          FanoutNext, FanoutCursor, FanoutLost, FanoutBreak
<1>. CASE \E w \in Senders : Deliver(w) \/ SenderLost(w)
  BY Zenon DEF Deliver, Load, Post, Record, Disable, SenderLost
<1>. CASE Manage
  <2>. ASSUME NEW h \in Hooks, NEW x \in Deliveries, NEW active, NEW kinds, CreateHook(h, x, active, kinds)
       PROVE  dlv'[d] = dlv[d]
    BY Zenon DEF CreateHook
  <2>. ASSUME NEW h \in Hooks, NEW x \in Deliveries, SendPing(h, x)
       PROVE  dlv'[d] = dlv[d]
    BY Zenon DEF SendPing
  <2>. ASSUME NEW o \in Deliveries, NEW x \in Deliveries, Redeliver(o, x)
       PROVE  dlv'[d] = dlv[d]
    BY Zenon DEF Redeliver
  <2>. ASSUME NEW h \in Hooks, NEW active, NEW kinds, UpdateHook(h, active, kinds) \/ SetActive(h, active)
       PROVE  dlv'[d] = dlv[d]
    BY Zenon DEF UpdateHook, SetActive
  <2>. QED
    BY Zenon DEF Manage
<1>. QED
  BY ZenonT(30) DEF Next

\* A row that has succeeded or failed for good keeps its outcome until it goes,
\* through crashes and whatever its owner does.
THEOREM OutcomeKept == Spec => OutcomeStays
<1> DEFINE Kept == \A d \in Deliveries : Terminal(dlv[d].st) => dlv'[d].st \in {dlv[d].st, "gone"}
<1>. TypeInv /\ Next => Kept
  BY OutcomeStep, Zenon
<1>. TypeInv /\ [Next]_vars => [Kept]_vars
  BY Zenon
<1>. OutcomeStays <=> [][Kept]_vars
  BY Zenon DEF OutcomeStays
<1>. HIDE DEF Kept
<1>. QED
  BY TypeInit, TypeStep, PTL DEF Spec

\* The threshold's condition for one webhook.
Watched(h) ==
    Exists(h) /\ hook[h].fails >= Threshold =>
        \/ hook[h].disabled \/ h \in undone
        \/ \E w \in Senders : snd[w].pc = "disable" /\ snd[w].hook = h

\* A step that leaves a webhook alone, and whoever is about to switch it off.
LEMMA WatchedFrame ==
    ASSUME ThresholdEnforced, NEW h \in Hooks, hook'[h] = hook[h], h \in undone => h \in undone',
           \A w \in Senders : snd[w].pc = "disable" /\ snd[w].hook = h =>
               \/ snd'[w].pc = "disable" /\ snd'[w].hook = h
               \/ hook'[h].disabled \/ h \in undone'
    PROVE  Watched(h)'
BY Zenon DEF ThresholdEnforced, Watched, Exists

\* No step of a handler breaks it.
LEMMA DeliverWatched ==
    ASSUME TypeInv, ThresholdEnforced, NEW w \in Senders, Deliver(w) \/ SenderLost(w), NEW h \in Hooks
    PROVE  Watched(h)'
<1>. CASE \E d \in Deliveries : Load(w, d)
  <2>. UNCHANGED <<hook, undone>> /\ snd[w].pc = "idle"
    BY Zenon DEF Load
  <2>. \A v \in Senders \ {w} : snd'[v] = snd[v]
    BY Zenon DEF Load, TypeInv, TypeOK
  <2>. QED
    BY WatchedFrame, Zenon
<1>2. CASE \E out \in Posted \cup NotPosted : Post(w, out)
  <2>1. UNCHANGED <<hook, undone>> /\ snd[w].pc = "post"
    BY <1>2, Zenon DEF Post
  <2>2. \A v \in Senders \ {w} : snd'[v] = snd[v]
    BY <1>2, Zenon DEF Post, TypeInv, TypeOK
  <2>. QED
    BY <2>1, <2>2, WatchedFrame, Zenon
<1>3. CASE Mark(w)
  <2>. UNCHANGED hook /\ snd[w].pc = "mark" /\ undone \subseteq undone'
    BY <1>3, Zenon DEF Mark
  <2>. \A v \in Senders \ {w} : snd'[v] = snd[v]
    BY <1>3, MarkGoes, Zenon
  <2>. QED
    BY WatchedFrame, Zenon
<1>. CASE Record(w)
  <2>. snd[w].pc = "record" /\ Busy(w) /\ UNCHANGED undone
    BY RecordEffect, Zenon
  <2>2. \A v \in Senders \ {w} : snd'[v] = snd[v]
    <3>. CASE Finish(w)
      BY FinishEffect, Zenon
    <3>. CASE snd' = [snd EXCEPT ![w] = [snd[w] EXCEPT !.pc = "disable", !.out = snd[w].out]]
      BY Zenon DEF TypeInv, TypeOK
    <3>. QED
      BY RecordEffect, ZenonT(30)
  <2>. CASE hook'[h] = hook[h]
    BY <2>2, WatchedFrame, Zenon
  <2>4. CASE hook'[h] # hook[h]
    <3>1. /\ h = snd[w].hook /\ Fails(w) \in Nat
          /\ hook' = [hook EXCEPT ![h] = [hook[h] EXCEPT !.fails = Fails(w)]]
          /\ Fails(w) >= Threshold => snd'[w].pc = "disable" /\ snd'[w].hook = h
      BY <2>4, RecordEffect, Zenon DEF TypeInv, TypeOK
    <3>2. hook'[h].fails = Fails(w)
      BY <3>1 DEF TypeInv, TypeOK, Webhook
    <3>. QED
      BY <3>1, <3>2, Zenon DEF Watched
  <2>. QED
    BY <2>4, Zenon
<1>. CASE Disable(w)
  <2>. Busy(w) /\ snd[w].hook \in Hooks /\ Finish(w) /\ undone \subseteq undone'
    BY DisableEffect, HasRow, ZenonT(30)
  <2>. \A v \in Senders \ {w} : snd'[v] = snd[v]
    BY FinishEffect, Zenon
  <2>. CASE h # snd[w].hook
    <3>1. hook'[h] = hook[h]
      BY DisableEffect, Zenon DEF TypeInv, TypeOK
    <3>. QED
      BY <3>1, WatchedFrame
  <2>. CASE h = snd[w].hook
    <3>. hook[h] \in Webhook
      BY Zenon DEF TypeInv, TypeOK
    <3>. CASE hook' = [hook EXCEPT ![h] = [hook[h] EXCEPT !.disabled = @ \/ Exists(h)]]
      <4>1. /\ hook'[h].disabled = (hook[h].disabled \/ Exists(h))
            /\ hook'[h].st = hook[h].st
        BY Zenon DEF TypeInv, TypeOK, Webhook
      <4>. QED
        BY <4>1, Zenon DEF Watched, Exists
    <3>. CASE undone' = undone \cup {h}
      BY Zenon DEF Watched
    <3>. QED
      BY DisableEffect, Zenon
  <2>. QED
    BY Zenon
<1>6. CASE SenderLost(w)
  <2>1. UNCHANGED hook /\ undone \subseteq undone'
        /\ (snd[w].pc = "disable" /\ snd[w].hook = h => h \in undone')
    BY <1>6, Zenon DEF SenderLost
  <2>2. \A v \in Senders \ {w} : snd'[v] = snd[v]
    BY <1>6, Zenon DEF SenderLost, TypeInv, TypeOK
  <2>. QED
    BY <2>1, <2>2, WatchedFrame, Zenon
<1>. QED
  BY <1>2, <1>3, <1>6, Zenon DEF Deliver

\* No step of the owner breaks it.
LEMMA ManageWatched ==
    ASSUME TypeInv, ThresholdEnforced, Manage, NEW h \in Hooks
    PROVE  Watched(h)'
<1>. UNCHANGED snd
  BY Zenon DEF Manage, CreateHook, SendPing, Redeliver, UpdateHook, SetActive, DeleteHook, PurgeOld, sending
<1>. CASE hook'[h] = hook[h] /\ (h \in undone => h \in undone')
  BY WatchedFrame, Zenon
<1>. ASSUME NEW d, NEW active, NEW kinds, CreateHook(h, d, active, kinds)
     PROVE  Watched(h)'
  <2>. hook'[h].fails = 0
    BY Zenon DEF CreateHook, NewHook, TypeInv, TypeOK
  <2>. QED
    BY WebhookAssumption, SMTT(40) DEF Watched
<1>. ASSUME NEW active \in BOOLEAN, NEW kinds \in Filters, UpdateHook(h, active, kinds)
     PROVE  Watched(h)'
  <2>. /\ hook'[h].fails = hook[h].fails /\ hook'[h].disabled = hook[h].disabled
       /\ hook'[h].st = hook[h].st /\ UNCHANGED undone
    BY UpdateEffect, Zenon DEF UpdateHook
  <2>. QED
    BY Zenon DEF ThresholdEnforced, Watched, Exists
<1>. ASSUME NEW active \in BOOLEAN, SetActive(h, active)
     PROVE  Watched(h)'
  <2>. hook'[h].fails = 0
    BY ActiveEffect, Zenon
  <2>. QED
    BY WebhookAssumption, SMTT(40) DEF Watched
<1>. ASSUME DeleteHook(h)
     PROVE  Watched(h)'
  <2>. hook'[h].st = "gone"
    BY DeleteEffect, Zenon
  <2>. QED
    BY Zenon DEF Watched, Exists
<1>. ASSUME NEW g \in Hooks, g # h, NEW active, NEW kinds, NEW d,
            \/ CreateHook(g, d, active, kinds) \/ UpdateHook(g, active, kinds)
            \/ SetActive(g, active) \/ DeleteHook(g)
     PROVE  Watched(h)'
  <2>. hook'[h] = hook[h] /\ (h \in undone => h \in undone')
    BY Zenon DEF CreateHook, UpdateHook, SetActive, DeleteHook, TypeInv, TypeOK
  <2>. QED
    BY Zenon
<1>. ASSUME NEW g, NEW o, NEW d, SendPing(g, d) \/ Redeliver(o, d) \/ PurgeOld(d)
     PROVE  Watched(h)'
  BY Zenon DEF SendPing, Redeliver, PurgeOld
<1>. QED
  BY Zenon DEF Manage

\* No step breaks it.
LEMMA ThresholdStep == TypeInv /\ ThresholdEnforced /\ [Next]_vars => ThresholdEnforced'
<1>. SUFFICES ASSUME TypeInv, ThresholdEnforced, [Next]_vars, NEW h \in Hooks PROVE Watched(h)'
  BY Zenon DEF ThresholdEnforced, Watched
<1>1. CASE UNCHANGED <<hook, snd, undone>>
  BY <1>1, WatchedFrame, Zenon
<1>2. CASE \E e \in Events : Emit(e) \/ CommitEvent(e) \/ RollbackEvent(e)
  BY <1>1, <1>2, Zenon DEF Emit, CommitEvent, RollbackEvent, sending
<1>3. CASE \E f \in Fanouts : FanoutStep(f)
  <2>. PICK f \in Fanouts : FanoutStep(f)
    BY <1>3, Zenon
  <2>1. CASE FanoutRead(f) \/ FanoutList(f) \/ FanoutMatch(f) \/ FanoutNext(f)
    BY <1>1, <2>1, Zenon DEF FanoutRead, FanoutList, FanoutMatch, FanoutNext, sending
  <2>2. CASE FanoutEnqueue(f) \/ \E h1 \in Hooks, d \in Deliveries : FanoutCreate(f, h1, d)
    BY <1>1, <2>2, Zenon DEF FanoutCreate, FanoutEnqueue, sending
  <2>3. CASE FanoutCursor(f) \/ FanoutLost(f) \/ \E h1 \in Hooks : FanoutBreak(f, h1)
    BY <1>1, <2>3, Zenon DEF FanoutCursor, FanoutLost, FanoutBreak, sending
  <2>. QED
    BY <2>1, <2>2, <2>3, Zenon DEF FanoutStep
<1>4. CASE \E w \in Senders : Deliver(w) \/ SenderLost(w)
  BY <1>4, DeliverWatched, Zenon
<1>5. CASE Manage
  BY <1>5, ManageWatched, Zenon
<1>6. CASE UNCHANGED vars
  BY <1>1, <1>6 DEF vars
<1>. QED
  BY <1>2, <1>3, <1>4, <1>5, <1>6, Zenon DEF Next

\* A webhook at its threshold is switched off or about to be, for any threshold
\* and any number of deliveries in progress, unless that statement failed.
THEOREM ThresholdKept == Spec => []ThresholdEnforced
<1>. Init => ThresholdEnforced
  <2>. SUFFICES ASSUME Init, NEW h \in Hooks PROVE hook[h].fails = 0
    BY WebhookAssumption, SMTT(40) DEF ThresholdEnforced
  <2>. QED
    BY Zenon DEF Init, NewHook, NoHook
<1>. QED
  BY TypeInit, TypeStep, ThresholdStep, PTL DEF Spec

-----------------------------------------------------------------------------
(* The fan-out: the inductive invariants *)

\* Ids are drawn in order, and only a committed event that is wanted is owed.
LogOK ==
    /\ \A e, x \in Events : event[e] # "none" /\ x < e => event[x] # "none"
    /\ \A e \in Events, h \in Hooks : <<e, h>> \in owed => event[e] = "visible" /\ Wants(h, e)

\* The lookup that would have listed webhook h for event e failed.
Unlisted(h, e) == h \in OrgHooks /\ e \in unowned

\* Nothing more is to be done for e: it is an exception, or it will never be, or
\* everyone it is owed to has it or was not listed.
Covered(e) ==
    \/ e \in late
    \/ event[e] = "aborted"
    \/ event[e] = "visible" /\ \A h \in Hooks : <<e, h>> \in owed => Sent(h, e) # {} \/ Unlisted(h, e)

\* The events up to the cursor, and up to where a fan-out is, are covered; what a
\* fan-out has not listed between there and the end of its batch needs no delivery,
\* and who has not got the current event is still on the list.
CoverInv ==
    /\ LogOK
    /\ \A e \in Events : e <= cursor => Covered(e)
    /\ \A f \in Fanouts, e \in Events : e <= fan[f].last => Covered(e)
    /\ \A f \in Fanouts : \A x \in fan[f].batch :
          /\ event[x] = "visible"
          /\ \A e \in Events : fan[f].last < e /\ e < x =>
                e \in fan[f].batch \/ e \in late \/ event[e] = "aborted"
    /\ \A f \in Fanouts, h \in Hooks :
          fan[f].pc \in {"create", "enqueue"} /\ <<Current(f), h>> \in owed =>
              h \in fan[f].subs \/ Sent(h, Current(f)) # {} \/ Unlisted(h, Current(f))

\* A fan-out under way has e behind it for webhook h, and will write so.
Passed(f, e, h) ==
    /\ fan[f].pc # "idle"
    /\ \/ e <= fan[f].last /\ fan[f].processed
       \/ fan[f].pc \in {"create", "enqueue"} /\ e = Current(f) /\ h \notin fan[f].subs

\* Or it may still deliver it, or make the next one do so.
Ahead(f, e, h) == fan[f].pc # "idle" /\ fan[f].last < e /\ ~Passed(f, e, h)

Claims(e, h) == {f \in Fanouts : Ahead(f, e, h)}
Hope(e, h) == IF cursor < e /\ \A f \in Fanouts : ~Passed(f, e, h) THEN 1 ELSE 0

\* Deliveries made and deliveries to come are accounted for.
CountInv ==
    \A e \in Events, h \in Hooks :
        \/ again = MaxDeliveries
        \/ /\ Cardinality(Sent(h, e)) + Cardinality(Claims(e, h)) <= 1 + again
           /\ Cardinality(Sent(h, e)) + Hope(e, h) <= 1 + again

-----------------------------------------------------------------------------
(* The deliveries of an event *)

\* Two rows for the same purpose.
SameUse(r, q) ==
    /\ r.st = "none" <=> q.st = "none"
    /\ r.hook = q.hook /\ r.event = q.event /\ r.copy = q.copy

\* Neither a row that moves on nor a row that is a ping or a copy counts as a
\* delivery of an event that was not there before.
LEMMA SentAlike ==
    ASSUME \A d \in Deliveries :
               \/ SameUse(dlv'[d], dlv[d])
               \/ dlv[d].st = "none" /\ (dlv'[d].copy = TRUE \/ dlv'[d].event = Ping)
    PROVE  \A e \in Events, h \in Hooks : Sent(h, e)' = Sent(h, e)
<1>. \A e \in Events : e # Ping
  BY WebhookAssumption, Zenon DEF Ping
<1>. ASSUME NEW e \in Events, NEW h \in Hooks, NEW d \in Deliveries
     PROVE  d \in Sent(h, e)' <=> d \in Sent(h, e)
  <2>. CASE SameUse(dlv'[d], dlv[d])
    BY Zenon DEF Sent, SameUse
  <2>. CASE dlv[d].st = "none" /\ (dlv'[d].copy = TRUE \/ dlv'[d].event = Ping)
    BY Zenon DEF Sent
  <2>. QED
    BY ZenonT(30)
<1>. \A e \in Events, h \in Hooks : Sent(h, e) \subseteq Deliveries /\ Sent(h, e)' \subseteq Deliveries
  BY Zenon DEF Sent
<1>. QED
  BY Zenon

\* What a fan-out's row adds.
LEMMA SentCreated ==
    ASSUME TypeInv, NEW f \in Fanouts, NEW h \in Hooks, NEW d \in Deliveries, FanoutCreate(f, h, d)
    PROVE  \A e \in Events, g \in Hooks :
               /\ d \notin Sent(g, e)
               /\ e = Current(f) /\ g = h => Sent(g, e)' = Sent(g, e) \cup {d}
               /\ ~(e = Current(f) /\ g = h) => Sent(g, e)' = Sent(g, e)
<1> DEFINE r == Pending(h, Current(f), EventAttempts, FALSE)
<1>. dlv[d].st = "none" /\ dlv' = [dlv EXCEPT ![d] = r]
  BY Zenon DEF FanoutCreate, Fresh
<1>. r.st = "pending" /\ r.hook = h /\ r.event = Current(f) /\ r.copy = FALSE
  BY DEF Pending
<1>. HIDE DEF r
<1>. dlv'[d] = r /\ \A x \in Deliveries \ {d} : dlv'[x] = dlv[x]
  BY Zenon DEF TypeInv, TypeOK
<1>. ASSUME NEW e, NEW g
     PROVE  /\ d \notin Sent(g, e)
            /\ d \in Sent(g, e)' <=> (g = h /\ e = Current(f))
            /\ \A x \in Deliveries \ {d} : x \in Sent(g, e)' <=> x \in Sent(g, e)
  BY Zenon DEF Sent
<1>. \A e, g : Sent(g, e) \subseteq Deliveries /\ Sent(g, e)' \subseteq Deliveries
  BY Zenon DEF Sent
<1>. QED
  BY SMTT(40)

\* No other step adds or takes away a delivery of an event.
LEMMA SentUnchanged == ASSUME UNCHANGED dlv PROVE \A e, h : Sent(h, e)' = Sent(h, e)
BY Zenon DEF Sent

\* A handler's steps leave deliveries what they are.
LEMMA DeliverSent ==
    ASSUME TypeInv, NEW w \in Senders, Deliver(w) \/ SenderLost(w)
    PROVE  \A e \in Events, h \in Hooks : Sent(h, e)' = Sent(h, e)
<1>. CASE UNCHANGED dlv
  BY SentUnchanged, Zenon
<1>. CASE Mark(w)
  <2> DEFINE d == snd[w].d
             r == IF dlv[d].st = "gone" THEN dlv[d] ELSE MarkedRow(w, dlv[d])
  <2>. Busy(w)
    BY Zenon DEF Mark, Busy
  <2>. d \in Deliveries /\ dlv[d] \in Row /\ dlv[d].st # "none"
    BY HasRow, Zenon
  <2>. SameUse(r, dlv[d])
    BY MarkedIsRow, Zenon DEF SameUse
  <2>. UNCHANGED dlv \/ dlv' = [dlv EXCEPT ![d] = r]
    BY Zenon DEF Mark
  <2>. HIDE DEF r, d
  <2>. \A x \in Deliveries : SameUse(dlv'[x], dlv[x])
    <3>. \A x \in Deliveries : SameUse(dlv[x], dlv[x])
      BY Zenon DEF SameUse
    <3>. QED
      BY Zenon DEF TypeInv, TypeOK
  <2>. QED
    BY SentAlike, Zenon
<1>. QED
  BY Zenon DEF Deliver, Load, Post, Record, Disable, SenderLost

\* And so do the owner's.
LEMMA ManageSent ==
    ASSUME TypeInv, Manage
    PROVE  \A e \in Events, h \in Hooks : Sent(h, e)' = Sent(h, e)
<1>. CASE UNCHANGED dlv
  BY SentUnchanged, Zenon
<1>. \A x \in Deliveries : SameUse(dlv[x], dlv[x])
  BY Zenon DEF SameUse
<1>. ASSUME NEW d \in Deliveries, NEW r, Submit(d, r), r.copy = TRUE \/ r.event = Ping
     PROVE  \A e \in Events, h \in Hooks : Sent(h, e)' = Sent(h, e)
  <2>. dlv[d].st = "none" /\ dlv' = [dlv EXCEPT ![d] = r]
    BY Zenon DEF Submit, Fresh
  <2>. dlv'[d] = r /\ \A x \in Deliveries \ {d} : dlv'[x] = dlv[x]
    BY Zenon DEF TypeInv, TypeOK
  <2>. QED
    BY SentAlike, Zenon
<1>. ASSUME NEW h \in Hooks, NEW d \in Deliveries, NEW active \in BOOLEAN, NEW kinds \in Filters,
            CreateHook(h, d, active, kinds)
     PROVE  \A e \in Events, g \in Hooks : Sent(g, e)' = Sent(g, e)
  <2>. Pending(h, Ping, PingAttempts, FALSE).event = Ping
    BY Zenon DEF Pending
  <2>. QED
    BY Zenon DEF CreateHook
<1>. ASSUME NEW o \in Deliveries, NEW d \in Deliveries, Redeliver(o, d)
     PROVE  \A e \in Events, h \in Hooks : Sent(h, e)' = Sent(h, e)
  <2>. Pending(dlv[o].hook, dlv[o].event, dlv[o].max, TRUE).copy = TRUE
    BY Zenon DEF Pending
  <2>. QED
    BY Zenon DEF Redeliver
<1>6. ASSUME NEW h \in Hooks, DeleteHook(h)
      PROVE  \A e \in Events, g \in Hooks : Sent(g, e)' = Sent(g, e)
  <2>. \A d \in Deliveries : SameUse(dlv'[d], dlv[d])
    BY <1>6, DeleteRows, Zenon DEF SameUse
  <2>. QED
    BY SentAlike, Zenon
<1>7. ASSUME NEW d \in Deliveries, PurgeOld(d)
      PROVE  \A e \in Events, h \in Hooks : Sent(h, e)' = Sent(h, e)
  <2>. \A x \in Deliveries : SameUse(dlv'[x], dlv[x])
    BY <1>7, PurgedRow, Zenon DEF SameUse
  <2>. QED
    BY SentAlike, Zenon
<1>8. ASSUME \/ \E h \in Hooks, active \in BOOLEAN, kinds \in Filters : UpdateHook(h, active, kinds)
             \/ \E h \in Hooks, active \in BOOLEAN : SetActive(h, active)
      PROVE  \A e \in Events, g \in Hooks : Sent(g, e)' = Sent(g, e)
  BY <1>8, Zenon DEF UpdateHook, SetActive
<1>9. CASE \E h \in Hooks, d \in Deliveries, active \in BOOLEAN, kinds \in Filters :
              CreateHook(h, d, active, kinds)
  BY <1>9, Zenon
<1>10. CASE \E h \in Hooks, d \in Deliveries : SendPing(h, d)
  BY <1>10, Zenon DEF SendPing, Pending
<1>. QED
  BY <1>6, <1>7, <1>8, <1>9, <1>10, Zenon DEF Manage

-----------------------------------------------------------------------------
(* Nothing is skipped *)

\* What the log, the debts and the rows may do while everything covered stays so.
Onward ==
    /\ late \subseteq late' /\ unowned \subseteq unowned'
    /\ \A e \in Events : event[e] \in {"aborted", "visible"} => event'[e] = event[e]
    /\ \A e \in Events, h \in Hooks : event[e] = "visible" /\ <<e, h>> \in owed' => <<e, h>> \in owed
    /\ \A e \in Events, h \in Hooks : Sent(h, e) # {} => Sent(h, e)' # {}

\* Covered events stay covered.
LEMMA CoverStable == ASSUME Onward, NEW e \in Events, Covered(e) PROVE Covered(e)'
BY Zenon DEF Onward, Covered, Unlisted

\* A fan-out's current event depends on its batch alone.
LEMMA CurrentSame ==
    ASSUME NEW f, fan'[f].batch = fan[f].batch
    PROVE  Current(f)' = Current(f)
BY Zenon DEF Current

\* One fan-out's part of the invariant.
FanCover(f) ==
    /\ \A e \in Events : e <= fan[f].last => Covered(e)
    /\ \A x \in fan[f].batch :
          /\ event[x] = "visible"
          /\ \A e \in Events : fan[f].last < e /\ e < x =>
                e \in fan[f].batch \/ e \in late \/ event[e] = "aborted"
    /\ \A h \in Hooks :
          fan[f].pc \in {"create", "enqueue"} /\ <<Current(f), h>> \in owed =>
              h \in fan[f].subs \/ Sent(h, Current(f)) # {} \/ Unlisted(h, Current(f))

\* The invariant, fan-out by fan-out.
LEMMA CoverParts ==
    /\ CoverInv <=> /\ LogOK
                    /\ \A e \in Events : e <= cursor => Covered(e)
                    /\ \A f \in Fanouts : FanCover(f)
    /\ CoverInv' <=> /\ LogOK'
                     /\ (\A e \in Events : e <= cursor => Covered(e))'
                     /\ \A f \in Fanouts : FanCover(f)'
BY Zenon DEF CoverInv, FanCover

\* A fan-out that does not move keeps its part.
LEMMA FanKeeps ==
    ASSUME TypeInv, Onward, NEW f \in Fanouts, fan'[f] = fan[f], FanCover(f)
    PROVE  FanCover(f)'
<1>. fan[f].batch \subseteq Events
  BY Zenon DEF TypeInv, TypeOK, FanoutWork
<1>. \A e \in Events : e <= fan'[f].last => Covered(e)'
  BY CoverStable, Zenon DEF FanCover
<1>. \A x \in fan'[f].batch :
          /\ event'[x] = "visible"
          /\ \A e \in Events : fan'[f].last < e /\ e < x =>
                e \in fan'[f].batch \/ e \in late' \/ event'[e] = "aborted"
  BY Zenon DEF FanCover, Onward
<1>. Current(f)' = Current(f)
  BY CurrentSame, Zenon
<1>. ASSUME NEW h \in Hooks, fan[f].pc \in {"create", "enqueue"}, <<Current(f), h>> \in owed'
     PROVE  h \in fan[f].subs \/ Sent(h, Current(f))' # {} \/ Unlisted(h, Current(f))'
  <2> DEFINE c == Current(f)
  <2>. c \in fan[f].batch /\ c \in Events
    BY CurrentIsFirst, Zenon DEF Working
  <2>. event[c] = "visible"
    BY Zenon DEF FanCover
  <2>. <<c, h>> \in owed
    BY Zenon DEF Onward
  <2>. h \in fan[f].subs \/ Sent(h, c) # {} \/ Unlisted(h, c)
    BY Zenon DEF FanCover
  <2>. Unlisted(h, c) => h \in OrgHooks /\ c \in unowned'
    BY Zenon DEF Unlisted, Onward
  <2>. HIDE DEF c
  <2>. Sent(h, c) # {} => \A y : y = c => Sent(h, y)' # {}
    BY Zenon DEF Onward
  <2>. QED
    BY Zenon DEF c, Unlisted
<1>. QED
  BY Zenon DEF FanCover

\* Fan-outs and cursor stay.
LEMMA CoverFrame ==
    ASSUME TypeInv, CoverInv, Onward, LogOK', UNCHANGED <<fan, cursor>>
    PROVE  CoverInv'
<1>. \A f \in Fanouts : FanCover(f)'
  BY FanKeeps, CoverParts, Zenon
<1>. (\A e \in Events : e <= cursor => Covered(e))'
  BY CoverStable, CoverParts
<1>. QED
  BY CoverParts, Zenon

\* One fan-out moves.
LEMMA CoverMove ==
    ASSUME TypeInv, CoverInv, Onward, UNCHANGED <<event, owed, hook>>,
           NEW f \in Fanouts, \A g \in Fanouts \ {f} : fan'[g] = fan[g], FanCover(f)',
           UNCHANGED cursor \/ cursor' = fan[f].last
    PROVE  CoverInv'
<1>. \A g \in Fanouts : FanCover(g)'
  BY FanKeeps, CoverParts, Zenon
<1>. (\A e \in Events : e <= cursor => Covered(e))'
  BY CoverStable, CoverParts, Zenon DEF FanCover
<1>. LogOK'
  BY Zenon DEF CoverInv, LogOK, Wants, On, Exists
<1>. QED
  BY CoverParts, Zenon

\* Nothing about events happens.
LEMMA OnwardSame == ASSUME UNCHANGED <<event, late, unowned, owed, dlv>> PROVE Onward
BY SentUnchanged, Zenon DEF Onward

\* A fan-out at rest has its part of the invariant.
LEMMA RestCover == ASSUME NEW f \in Fanouts, fan'[f] = Resting PROVE FanCover(f)'
<1>. \A e \in Events : e \in Nat /\ e # 0
  BY WebhookAssumption, Zenon
<1>. fan'[f].last = 0 /\ fan'[f].batch = {} /\ fan'[f].pc = "idle"
  BY AtRest, Zenon DEF Stage
<1>. \A e \in Events : ~(e <= fan'[f].last)
  BY SMTT(40)
<1>. QED
  BY Zenon DEF FanCover

\* A fan-out starts at the cursor.
LEMMA ReadCover == ASSUME TypeInv, CoverInv, NEW f \in Fanouts, FanoutRead(f) PROVE CoverInv'
<1>. UNCHANGED <<event, late, unowned, cursor, hook, dlv, owed>>
  BY Zenon DEF FanoutRead, log
<1>. Onward
  BY OnwardSame, Zenon
<1>. fan'[f].last = cursor /\ fan'[f].batch = {} /\ fan'[f].pc = "list"
  BY ReadEffect, Zenon DEF Stage
<1>. FanCover(f)'
  BY CoverStable, Zenon DEF FanCover, CoverInv
<1>. QED
  BY ReadEffect, CoverMove, Zenon

\* A batch leaves out no visible event below one of its own.
LEMMA ListedClosed ==
    ASSUME TypeInv, NEW last \in Events \cup {0}, NEW x \in Listed(last), NEW e \in Events,
           last < e, e < x, event[e] = "visible"
    PROVE  e \in Listed(last)
<1> DEFINE new == {y \in Events : y > last /\ event[y] = "visible"}
           upto(z) == {y \in new : y < z}
<1>. x \in new /\ e \in new /\ x \in Nat /\ e \in Nat /\ new \subseteq Nat
      /\ Cardinality(upto(x)) < FanoutBatch
  BY WebhookAssumption, Zenon DEF Listed
<1>. upto(x) \in SUBSET Nat /\ \A y \in upto(x) : y <= x
  BY SMTT(40)
<1>. upto(e) \in SUBSET upto(x)
  BY SMTT(40)
<1>. HIDE DEF upto, new
<1>. IsFiniteSet(upto(x))
  BY FS_BoundedSetOfNaturals, Zenon
<1>. Cardinality(upto(e)) <= Cardinality(upto(x)) /\ IsFiniteSet(upto(e))
  BY FS_Subset, Zenon
<1>. Cardinality(upto(e)) \in Nat /\ Cardinality(upto(x)) \in Nat
  BY FS_CardinalityType, Zenon
<1>. Cardinality(upto(e)) < FanoutBatch
  BY WebhookAssumption, SMTT(40)
<1>. QED
  BY Zenon DEF Listed, new, upto

\* A fan-out lists its batch; whoever is still open below it is late.
LEMMA ListCover == ASSUME TypeInv, CoverInv, NEW f \in Fanouts, FanoutList(f) PROVE CoverInv'
<1> DEFINE last == fan[f].last
           batch == Listed(last)
<1>. UNCHANGED <<event, unowned, cursor, hook, dlv, owed>>
  BY Zenon DEF FanoutList
<1>. late' = late \cup {e \in Events : event[e] = "open" /\ \E x \in batch : e < x}
  BY Zenon DEF FanoutList
<1>. Onward
  BY SentUnchanged, Zenon DEF Onward
<1>. CASE batch = {}
  BY ListEffect, RestCover, CoverMove, Zenon
<1>. CASE batch # {}
  <2>. fan'[f].last = last /\ fan'[f].batch = batch /\ fan'[f].pc = "match"
    BY ListEffect, Zenon DEF Stage
  <2>. batch \subseteq Events /\ (\A x \in batch : event[x] = "visible") /\ last \in Events \cup {0}
    BY Zenon DEF Listed, TypeInv, TypeOK, FanoutWork
  <2>. ASSUME NEW x \in batch, NEW e \in Events, last < e, e < x
       PROVE  e \in batch \/ e \in late' \/ event[e] = "aborted"
    <3>. event[e] # "none"
      BY Zenon DEF CoverInv, LogOK
    <3>. event[e] = "visible" => e \in batch
      BY ListedClosed, Zenon
    <3>. event[e] = "open" => e \in late'
      BY Zenon
    <3>. event[e] \in {"none", "open", "visible", "aborted"}
      BY Zenon DEF TypeInv, TypeOK
    <3>. QED
      BY Zenon
  <2>. HIDE DEF batch
  <2>. \A e \in Events : e <= last => Covered(e)'
    BY CoverStable, Zenon DEF CoverInv
  <2>. FanCover(f)'
    BY Zenon DEF FanCover
  <2>. QED
    BY ListEffect, CoverMove, Zenon
<1>. QED
  BY Zenon

\* A fan-out reads who wants the current event: whoever it is owed to is listed or
\* the lookup failed.
LEMMA MatchCover == ASSUME TypeInv, CoverInv, NEW f \in Fanouts, FanoutMatch(f) PROVE CoverInv'
<1>. UNCHANGED <<event, late, cursor, hook, dlv, owed>> /\ unowned \subseteq unowned'
  BY Zenon DEF FanoutMatch
<1>. Onward
  BY SentUnchanged, Zenon DEF Onward
<1>. /\ fan'[f].last = fan[f].last /\ fan'[f].batch = fan[f].batch
     /\ \A h \in Hooks : Wants(h, Current(f)) =>
           h \in fan'[f].subs \/ (h \in OrgHooks /\ Current(f) \in unowned')
  BY MatchEffect, Zenon DEF Stage
<1>. Current(f)' = Current(f) /\ Current(f) \in Events
  BY CurrentSame, CurrentIsFirst, Zenon DEF FanoutMatch, Working
<1>. \A h \in Hooks : <<Current(f), h>> \in owed => Wants(h, Current(f))
  BY Zenon DEF CoverInv, LogOK
<1>. \A e \in Events : e <= fan'[f].last => Covered(e)'
  BY CoverStable, Zenon DEF CoverInv
<1>. \A h \in Hooks : <<Current(f), h>> \in owed' => h \in fan'[f].subs \/ Unlisted(h, Current(f))'
  BY Zenon DEF Unlisted
<1>. FanCover(f)'
  BY Zenon DEF FanCover, CoverInv
<1>. QED
  BY MatchEffect, CoverMove, Zenon

\* A fan-out writes a row for one of them.
LEMMA CreateCover ==
    ASSUME TypeInv, CoverInv, NEW f \in Fanouts, NEW h \in Hooks, NEW d \in Deliveries,
           FanoutCreate(f, h, d)
    PROVE  CoverInv'
<1> DEFINE c == Current(f)
<1>. UNCHANGED <<event, late, unowned, cursor, hook, owed>>
  BY Zenon DEF FanoutCreate, log
<1>. \A e \in Events, g \in Hooks : Sent(g, e) # {} => Sent(g, e)' # {}
  BY SentCreated
<1>. Onward
  BY Zenon DEF Onward
<1>. /\ fan'[f].last = fan[f].last /\ fan'[f].batch = fan[f].batch
     /\ fan'[f].subs = fan[f].subs \ {h} /\ fan[f].pc = "create"
  BY CreateEffect, Zenon DEF Stage, FanoutCreate
<1>. Current(f)' = c /\ c \in Events
  BY CurrentSame, CurrentIsFirst, ZenonT(30) DEF Working
<1>. \A e \in Events : e <= fan'[f].last => Covered(e)'
  BY CoverStable, Zenon DEF CoverInv
<1>. \A x \in Events : x = c => Sent(h, x)' # {}
  BY SentCreated, SMTT(40)
<1>. \A g \in Hooks : <<c, g>> \in owed => g \in fan[f].subs \/ Sent(g, c) # {} \/ Unlisted(g, c)
  BY Zenon DEF CoverInv
<1>. HIDE DEF c
<1>. \A g \in Hooks : <<c, g>> \in owed => g \in fan'[f].subs \/ (\A x \in Events : x = c => Sent(g, x)' # {}) \/ (g \in OrgHooks /\ c \in unowned)
  BY Zenon DEF Unlisted
<1>. FanCover(f)'
  <2>. \A g \in Hooks : <<Current(f)', g>> \in owed' =>
          g \in fan'[f].subs \/ Sent(g, Current(f))' # {} \/ Unlisted(g, Current(f))'
    BY Zenon DEF Unlisted
  <2>. QED
    BY Zenon DEF FanCover, CoverInv
<1>. QED
  BY CreateEffect, CoverMove, Zenon

\* A fan-out queues a row.
LEMMA EnqueueCover == ASSUME TypeInv, CoverInv, NEW f \in Fanouts, FanoutEnqueue(f) PROVE CoverInv'
<1>. UNCHANGED <<event, late, unowned, cursor, hook, dlv, owed>>
  BY Zenon DEF FanoutEnqueue, log
<1>. Onward
  BY OnwardSame, Zenon
<1>. /\ fan'[f].last = fan[f].last /\ fan'[f].batch = fan[f].batch
     /\ fan'[f].subs = fan[f].subs /\ fan[f].pc = "enqueue"
  BY EnqueueEffect, Zenon DEF Stage, FanoutEnqueue
<1>. Current(f)' = Current(f)
  BY CurrentSame, Zenon
<1>. \A e \in Events : e <= fan'[f].last => Covered(e)'
  BY CoverStable, Zenon DEF CoverInv
<1>. \A h \in Hooks : Sent(h, Current(f))' = Sent(h, Current(f))
  BY Zenon DEF Sent
<1>. \A h \in Hooks : Unlisted(h, Current(f)) => Unlisted(h, Current(f))'
  BY Zenon DEF Unlisted
<1>. FanCover(f)'
  BY Zenon DEF FanCover, CoverInv
<1>. QED
  BY EnqueueEffect, CoverMove, Zenon

\* A fan-out is through with an event: it and all before it are covered.
LEMMA NextCover == ASSUME TypeInv, CoverInv, NEW f \in Fanouts, FanoutNext(f) PROVE CoverInv'
<1> DEFINE c == Current(f)
<1>. UNCHANGED <<event, late, unowned, cursor, hook, dlv, owed>>
  BY Zenon DEF FanoutNext, log
<1>. Onward
  BY OnwardSame, Zenon
<1>. /\ fan'[f].last = c /\ fan'[f].batch = fan[f].batch \ {c}
     /\ fan'[f].pc \in {"cursor", "match"}
  BY NextEffect, Zenon DEF Stage
<1>. fan[f].pc = "create" /\ fan[f].subs = {} /\ Working(f)
  BY Zenon DEF FanoutNext, Working
<1>. c \in fan[f].batch /\ c \in Events /\ (\A x \in fan[f].batch : c <= x) /\ fan[f].last < c
  BY CurrentIsFirst
<1>. event[c] = "visible" /\ \A h \in Hooks : <<c, h>> \in owed => Sent(h, c) # {} \/ Unlisted(h, c)
  BY Zenon DEF CoverInv
<1>. Covered(c)
  BY Zenon DEF Covered
<1>. HIDE DEF c
<1>. Events \subseteq Nat /\ fan[f].last \in Nat /\ fan[f].batch \subseteq Events
  BY Numbers, Zenon
<1>. ASSUME NEW e \in Events, e <= c
     PROVE  Covered(e)
  <2>. CASE e <= fan[f].last
    BY Zenon DEF CoverInv
  <2>. CASE e = c
    BY Zenon
  <2>. CASE fan[f].last < e /\ e < c
    <3>. e \notin fan[f].batch
      BY SMTT(40)
    <3>. e \in late \/ event[e] = "aborted"
      BY Zenon DEF CoverInv
    <3>. QED
      BY Zenon DEF Covered
  <2>. QED
    BY SMTT(40)
<1>. ASSUME NEW x \in fan[f].batch \ {c}, NEW e \in Events, c < e, e < x
     PROVE  e \in fan[f].batch \ {c} \/ e \in late \/ event[e] = "aborted"
  <2>. fan[f].last < e /\ e # c
    BY SMTT(40)
  <2>. QED
    BY Zenon DEF CoverInv
<1>. \A e \in Events : e <= fan'[f].last => Covered(e)'
  BY CoverStable, Zenon
<1>. FanCover(f)'
  BY Zenon DEF FanCover, CoverInv
<1>. QED
  BY NextEffect, CoverMove, Zenon

\* A fan-out ends, writing the cursor or not.
LEMMA EndCover ==
    ASSUME TypeInv, CoverInv, NEW f \in Fanouts,
           FanoutCursor(f) \/ FanoutLost(f) \/ \E h \in Hooks : FanoutBreak(f, h)
    PROVE  CoverInv'
<1>. UNCHANGED <<event, late, unowned, hook, dlv, owed>>
  BY Zenon DEF FanoutCursor, FanoutLost, FanoutBreak, log
<1>. Onward
  BY OnwardSame, Zenon
<1>3. UNCHANGED cursor \/ cursor' = fan[f].last
  BY Zenon DEF FanoutCursor, FanoutLost, FanoutBreak
<1>4. /\ \A g \in Fanouts \ {f} : fan'[g] = fan[g]
      /\ \/ fan'[f] = Resting
         \/ fan'[f].last = fan[f].last /\ fan'[f].batch = {} /\ fan'[f].pc = "cursor"
  <2>. CASE FanoutCursor(f) \/ FanoutLost(f)
    BY RestEffect, Zenon DEF FanoutCursor, FanoutLost
  <2>. CASE \E h \in Hooks : FanoutBreak(f, h)
    BY BreakEffect, Zenon DEF Stage
  <2>. QED
    BY Zenon
<1>5. FanCover(f)'
  <2>. CASE fan'[f] = Resting
    BY RestCover, Zenon
  <2>. CASE fan'[f].last = fan[f].last /\ fan'[f].batch = {} /\ fan'[f].pc = "cursor"
    BY CoverStable, Zenon DEF FanCover, CoverInv
  <2>. QED
    BY <1>4, Zenon
<1>. QED
  BY <1>3, <1>4, <1>5, CoverMove, Zenon

\* Events are inserted, committed and rolled back.
LEMMA EmitterCover ==
    ASSUME TypeInv, CoverInv, NEW e \in Events, Emit(e) \/ CommitEvent(e) \/ RollbackEvent(e)
    PROVE  CoverInv'
<1>1. UNCHANGED <<late, unowned, cursor, fan, hook, dlv>>
  BY Zenon DEF Emit, CommitEvent, RollbackEvent, fanning
<1>2. event[e] \in {"none", "open"} /\ event'[e] # "none"
      /\ \A x \in Events \ {e} : event'[x] = event[x]
  BY ZenonT(30) DEF Emit, CommitEvent, RollbackEvent, TypeInv, TypeOK
<1>3. \A x \in Events, h \in Hooks : <<x, h>> \in owed' =>
          <<x, h>> \in owed \/ (x = e /\ event'[e] = "visible" /\ Wants(h, e))
  BY SMTT(40) DEF Emit, CommitEvent, RollbackEvent, TypeInv, TypeOK
<1>4. Onward
  BY <1>1, <1>2, <1>3, SentUnchanged, Zenon DEF Onward
<1>5. \A h \in Hooks, x \in Events : Wants(h, x)' <=> Wants(h, x)
  BY <1>1, Zenon DEF Wants, On, Exists
<1>6. \A x \in Events, y \in Events : event'[x] # "none" /\ y < x => event'[y] # "none"
  BY <1>2, Zenon DEF Emit, CommitEvent, RollbackEvent, CoverInv, LogOK
<1>7. \A x \in Events, h \in Hooks : <<x, h>> \in owed' => event'[x] = "visible" /\ Wants(h, x)'
  BY <1>2, <1>3, <1>5, Zenon DEF CoverInv, LogOK
<1>8. LogOK'
  BY <1>6, <1>7, Zenon DEF LogOK
<1>. QED
  BY <1>1, <1>4, <1>8, CoverFrame, Zenon

\* A step that settles or drops debts and leaves the log, the fan-outs and the
\* deliveries alone.
LEMMA OwedFrame ==
    ASSUME TypeInv, CoverInv, UNCHANGED <<event, late, unowned, cursor, fan>>, owed' \subseteq owed,
           \A e \in Events, h \in Hooks : Sent(h, e)' = Sent(h, e),
           \A e \in Events, h \in Hooks : <<e, h>> \in owed' /\ Wants(h, e) => Wants(h, e)'
    PROVE  CoverInv'
<1>. Onward
  BY Zenon DEF Onward
<1>. LogOK'
  BY Zenon DEF CoverInv, LogOK
<1>. QED
  BY CoverFrame, Zenon

\* A delivery handler's steps.
LEMMA DeliverCover ==
    ASSUME TypeInv, CoverInv, NEW w \in Senders, Deliver(w) \/ SenderLost(w)
    PROVE  CoverInv'
<1>. UNCHANGED <<event, late, unowned, cursor, fan>>
  BY Zenon DEF Deliver, Load, Post, Mark, Record, Disable, SenderLost, log, fanning
<1>. \A e \in Events, h \in Hooks : Sent(h, e)' = Sent(h, e)
  BY DeliverSent, Zenon
<1>. owed' \subseteq owed /\ \A e \in Events, h \in Hooks : <<e, h>> \in owed' /\ Wants(h, e) => Wants(h, e)'
  <2>. CASE UNCHANGED <<hook, owed>>
    BY Zenon DEF Wants, On, Exists
  <2>. CASE Record(w)
    <3>. UNCHANGED owed /\ Busy(w)
      BY RecordEffect, Zenon
    <3>. \A h \in Hooks : /\ hook'[h].st = hook[h].st /\ hook'[h].active = hook[h].active
                           /\ hook'[h].disabled = hook[h].disabled /\ hook'[h].kinds = hook[h].kinds
      <4>. \A h \in Hooks : hook[h] \in Webhook
        BY Zenon DEF TypeInv, TypeOK
      <4>. \/ UNCHANGED hook
           \/ hook' = [hook EXCEPT ![snd[w].hook] = [hook[snd[w].hook] EXCEPT !.fails = Fails(w)]]
        BY RecordEffect, Zenon
      <4>. QED
        BY SMTT(40) DEF TypeInv, TypeOK, Webhook
    <3>. QED
      BY Zenon DEF Wants, On, Exists
  <2>. CASE Disable(w)
    <3>. \/ UNCHANGED <<hook, owed>>
         \/ /\ hook' = [hook EXCEPT ![snd[w].hook] =
                          [hook[snd[w].hook] EXCEPT !.disabled = @ \/ Exists(snd[w].hook)]]
            /\ owed' = {p \in owed : p[2] # snd[w].hook}
      BY DisableEffect, Zenon
    <3>. CASE /\ hook' = [hook EXCEPT ![snd[w].hook] =
                            [hook[snd[w].hook] EXCEPT !.disabled = @ \/ Exists(snd[w].hook)]]
              /\ owed' = {p \in owed : p[2] # snd[w].hook}
      <4>. \A h \in Hooks : h # snd[w].hook => hook'[h] = hook[h]
        BY Zenon DEF TypeInv, TypeOK
      <4>. \A e \in Events, h \in Hooks : <<e, h>> \in owed' => h # snd[w].hook
        BY Zenon
      <4>. QED
        BY Zenon DEF Wants, On, Exists
    <3>. QED
      BY Zenon
  <2>. QED
    BY Zenon DEF Deliver, Load, Post, Mark, SenderLost
<1>. QED
  BY OwedFrame, Zenon

\* The owner's steps.
LEMMA ManageCover == ASSUME TypeInv, CoverInv, Manage PROVE CoverInv'
<1>1. UNCHANGED <<event, late, unowned, cursor, fan>>
  BY Zenon DEF Manage, CreateHook, SendPing, Redeliver, UpdateHook, SetActive, DeleteHook, PurgeOld, log, fanning
<1>2. \A e \in Events, h \in Hooks : Sent(h, e)' = Sent(h, e)
  BY ManageSent, Zenon
<1> DEFINE Goal == owed' \subseteq owed /\ \A e \in Events, g \in Hooks :
                                               <<e, g>> \in owed' /\ Wants(g, e) => Wants(g, e)'
<1>3. ASSUME NEW h \in Hooks, NEW d \in Deliveries, NEW active \in BOOLEAN, NEW kinds \in Filters,
             CreateHook(h, d, active, kinds)
      PROVE  Goal
  <2>1. ~Exists(h) /\ UNCHANGED owed /\ \A g \in Hooks : g # h => hook'[g] = hook[g]
    BY <1>3, Zenon DEF CreateHook, Exists, TypeInv, TypeOK
  <2>. QED
    BY <2>1, ZenonT(30) DEF Wants, On, Exists
<1>4. ASSUME NEW h \in Hooks, NEW active \in BOOLEAN, NEW kinds \in Filters, UpdateHook(h, active, kinds)
      PROVE  Goal
  <2>1. owed' = owed \cap {p \in owed : p[2] = h => active /\ KindOf[p[1]] \in kinds}
    BY <1>4, Zenon DEF UpdateHook, Keep
  <2>2. \A e \in Events : <<e, h>> \in owed' => active /\ KindOf[e] \in kinds
    BY <2>1, Zenon
  <2>3. \A e \in Events : <<e, h>> \in owed' /\ Wants(h, e) => Wants(h, e)'
    BY <1>4, <2>2, UpdateEffect, Zenon DEF Wants, On, Exists
  <2>4. \A e \in Events, g \in Hooks : g # h /\ Wants(g, e) => Wants(g, e)'
    <3>1. \A g \in Hooks : g # h => hook'[g] = hook[g]
      BY <1>4, UpdateEffect, Zenon
    <3>. QED
      BY <3>1, Zenon DEF Wants, On, Exists
  <2>5. owed' \subseteq owed
    BY <2>1, Zenon
  <2>6. ASSUME NEW e \in Events, NEW g \in Hooks, <<e, g>> \in owed', Wants(g, e)
        PROVE  Wants(g, e)'
    BY <2>3, <2>4, <2>6, Zenon
  <2>. QED
    BY <2>5, <2>6, Zenon
<1>5. ASSUME NEW h \in Hooks, NEW active \in BOOLEAN, SetActive(h, active)
      PROVE  Goal
  <2>1. owed' = owed \cap {p \in owed : p[2] = h => active}
    BY <1>5, Zenon DEF SetActive, Keep
  <2>2. \A e \in Events : <<e, h>> \in owed' => active
    BY <2>1, Zenon
  <2>3. \A e \in Events : <<e, h>> \in owed' /\ Wants(h, e) => Wants(h, e)'
    BY <1>5, <2>2, ActiveEffect, ZenonT(30) DEF Wants, On, Exists
  <2>4. \A e \in Events, g \in Hooks : g # h /\ Wants(g, e) => Wants(g, e)'
    BY <1>5, ActiveEffect, ZenonT(30) DEF Wants, On, Exists
  <2>. QED
    BY <2>1, <2>3, <2>4
<1>6. ASSUME NEW h \in Hooks, DeleteHook(h)
      PROVE  Goal
  <2>1. owed' = owed \cap {p \in owed : p[2] # h}
    BY <1>6, Zenon DEF DeleteHook, Keep
  <2>2. \A e \in Events : <<e, h>> \notin owed'
    BY <2>1
  <2>3. \A e \in Events, g \in Hooks : g # h /\ Wants(g, e) => Wants(g, e)'
    BY <1>6, DeleteEffect DEF Wants, On, Exists
  <2>. QED
    BY <2>1, <2>2, <2>3, Zenon
<1>7. CASE \/ \E h \in Hooks, d \in Deliveries : SendPing(h, d)
           \/ \E o, d \in Deliveries : Redeliver(o, d)
           \/ \E d \in Deliveries : PurgeOld(d)
  <2>1. UNCHANGED <<hook, owed>>
    BY <1>7, Zenon DEF SendPing, Redeliver, PurgeOld
  <2>2. Goal
    BY <2>1, Zenon DEF Wants, On, Exists
  <2>. QED
    BY <1>1, <1>2, <2>2, OwedFrame, Zenon
<1>8. Goal => CoverInv'
  BY <1>1, <1>2, OwedFrame, Zenon
<1>. HIDE DEF Goal
<1>. QED
  BY <1>3, <1>4, <1>5, <1>6, <1>7, <1>8, Zenon DEF Manage

\* No step breaks it.
LEMMA CoverStep == TypeInv /\ CoverInv /\ [Next]_vars => CoverInv'
<1>. SUFFICES ASSUME TypeInv, CoverInv, [Next]_vars PROVE CoverInv'
  BY Zenon
<1>. CASE UNCHANGED vars
  <2>. UNCHANGED <<event, late, unowned, cursor, fan, hook, dlv, owed>>
    BY Zenon DEF vars
  <2>. LogOK'
    BY Zenon DEF CoverInv, LogOK, Wants, On, Exists
  <2>. QED
    BY OnwardSame, CoverFrame, Zenon
<1>. CASE \E e \in Events : Emit(e) \/ CommitEvent(e) \/ RollbackEvent(e)
  BY EmitterCover, Zenon
<1>. CASE \E f \in Fanouts : FanoutStep(f)
  BY ReadCover, ListCover, MatchCover, CreateCover, EnqueueCover, NextCover, EndCover, Zenon DEF FanoutStep
<1>. CASE \E w \in Senders : Deliver(w) \/ SenderLost(w)
  BY DeliverCover, Zenon
<1>. CASE Manage
  BY ManageCover, Zenon
<1>. QED
  BY Zenon DEF Next

\* The cursor passes no event that is owed to a webhook without a delivery of it,
\* whatever fan-outs overlap, fail, die or set the cursor back, late commits and
\* the webhooks of an organisation whose lookup failed left out.
THEOREM NothingSkipped == Spec => []NoneSkipped
<1>. Init => CoverInv
  <2>. SUFFICES ASSUME Init PROVE CoverInv
    BY Zenon
  <2>. LogOK
    BY Zenon DEF Init, LogOK
  <2>. \A e \in Events : e \in Nat /\ e # 0
    BY WebhookAssumption, Zenon
  <2>. \A f \in Fanouts : fan[f].last = 0 /\ fan[f].batch = {} /\ fan[f].pc = "idle"
    BY AtRest, Zenon DEF Init, Stage
  <2>. \A e \in Events : ~(e <= 0)
    BY SMTT(40)
  <2>. QED
    BY Zenon DEF Init, CoverInv
<1>. TypeInv /\ CoverInv => NoneSkipped
  BY Zenon DEF CoverInv, LogOK, Covered, Unlisted, NoneSkipped
<1>. QED
  BY TypeInit, TypeStep, CoverStep, PTL DEF Spec

-----------------------------------------------------------------------------
(* Duplicates are accounted for *)

\* The condition for one event and one webhook.
Budget(e, h) ==
    \/ again = MaxDeliveries
    \/ /\ Cardinality(Sent(h, e)) + Cardinality(Claims(e, h)) <= 1 + again
       /\ Cardinality(Sent(h, e)) + Hope(e, h) <= 1 + again

\* Deliveries and claims are finitely many.
LEMMA Finitely ==
    ASSUME NEW e, NEW h
    PROVE  /\ IsFiniteSet(Sent(h, e)) /\ Cardinality(Sent(h, e)) \in Nat
           /\ Cardinality(Sent(h, e)) <= MaxDeliveries
           /\ IsFiniteSet(Claims(e, h)) /\ Cardinality(Claims(e, h)) \in Nat
           /\ Hope(e, h) \in {0, 1}
<1>. MaxDeliveries \in Nat /\ IsFiniteSet(Deliveries) /\ Cardinality(Deliveries) = MaxDeliveries
  BY WebhookAssumption, FS_Interval, SMTT(40) DEF Deliveries
<1>. Sent(h, e) \in SUBSET Deliveries /\ Claims(e, h) \in SUBSET Fanouts
  BY Zenon DEF Sent, Claims
<1>. IsFiniteSet(Sent(h, e)) /\ Cardinality(Sent(h, e)) <= MaxDeliveries
  BY FS_Subset, Zenon
<1>. IsFiniteSet(Claims(e, h))
  BY WebhookAssumption, FS_Subset, Zenon
<1>. Cardinality(Sent(h, e)) \in Nat /\ Cardinality(Claims(e, h)) \in Nat
  BY FS_CardinalityType, Zenon
<1>. Hope(e, h) \in {0, 1}
  BY Zenon DEF Hope
<1>. QED
  BY Zenon

\* Claims that do not grow, and no hope that was not there or claimed.
LEMMA BudgetKept ==
    ASSUME TypeInv, NEW e, NEW h, Budget(e, h), Sent(h, e)' = Sent(h, e), UNCHANGED again,
           Claims(e, h)' \subseteq Claims(e, h),
           Hope(e, h)' = 1 => Hope(e, h) = 1 \/ Claims(e, h) # {}
    PROVE  Budget(e, h)'
<1> DEFINE s == Cardinality(Sent(h, e))
           c == Cardinality(Claims(e, h))
           k == Cardinality(Claims(e, h)')
<1>. s \in Nat /\ c \in Nat /\ again \in Nat /\ Hope(e, h) \in {0, 1} /\ Hope(e, h)' \in {0, 1}
  <2>. again \in Nat
    BY WebhookAssumption, SMTT(40) DEF TypeInv, TypeOK
  <2>. Hope(e, h)' \in {0, 1}
    BY DEF Hope
  <2>. QED
    BY Finitely, Zenon
<1>. k \in Nat /\ k <= c
  BY Finitely, FS_Subset, FS_CardinalityType, Zenon
<1>. Claims(e, h) # {} => c >= 1
  <2>. c = 0 <=> Claims(e, h) = {}
    BY Finitely, FS_EmptySet, Zenon
  <2>. QED
    BY SMTT(40)
<1>. Cardinality(Sent(h, e))' = s /\ Cardinality(Claims(e, h))' = k
  BY Zenon
<1>. again = MaxDeliveries \/ (s + c <= 1 + again /\ s + Hope(e, h) <= 1 + again)
  BY Zenon DEF Budget
<1>. HIDE DEF s, c, k
<1>. again = MaxDeliveries \/ (s + k <= 1 + again /\ s + Hope(e, h)' <= 1 + again)
  BY SMTT(40)
<1>. QED
  BY Zenon DEF Budget

\* A fan-out that overlaps or fails pays for one more.
LEMMA BudgetRaised ==
    ASSUME TypeInv, NEW e, NEW h, NEW f \in Fanouts, Budget(e, h), Sent(h, e)' = Sent(h, e),
           again' = Redone, Claims(e, h)' \subseteq Claims(e, h) \cup {f}
    PROVE  Budget(e, h)'
<1> DEFINE s == Cardinality(Sent(h, e))
           c == Cardinality(Claims(e, h))
           k == Cardinality(Claims(e, h)')
<1>. s \in Nat /\ c \in Nat /\ again \in 0 .. MaxDeliveries /\ MaxDeliveries \in Nat
      /\ Hope(e, h) \in {0, 1} /\ Hope(e, h)' \in {0, 1}
  <2>. again \in 0 .. MaxDeliveries /\ MaxDeliveries \in Nat
    BY WebhookAssumption, Zenon DEF TypeInv, TypeOK
  <2>. Hope(e, h)' \in {0, 1}
    BY Zenon DEF Hope
  <2>. QED
    BY Finitely, Zenon
<1>. k \in Nat /\ k <= c + 1
  <2>. IsFiniteSet(Claims(e, h) \cup {f})
        /\ Cardinality(Claims(e, h) \cup {f}) \in {c, c + 1}
    BY Finitely, FS_AddElement, Zenon
  <2>. IsFiniteSet(Claims(e, h)') /\ k <= Cardinality(Claims(e, h) \cup {f})
    BY FS_Subset, Zenon
  <2>. k \in Nat
    BY FS_CardinalityType, Zenon
  <2>. QED
    BY SMTT(40)
<1>. Cardinality(Sent(h, e))' = s /\ Cardinality(Claims(e, h))' = k
  BY Zenon
<1>. again = MaxDeliveries \/ (s + c <= 1 + again /\ s + Hope(e, h) <= 1 + again)
  BY Zenon DEF Budget
<1>. again' = IF again < MaxDeliveries THEN again + 1 ELSE again
  BY Zenon DEF Redone
<1>. HIDE DEF s, c, k
<1>. again' = MaxDeliveries \/ (s + k <= 1 + again' /\ s + Hope(e, h)' <= 1 + again')
  BY SMTT(40)
<1>. QED
  BY Zenon DEF Budget

\* A fan-out that makes a delivery uses up its claim.
LEMMA BudgetSpent ==
    ASSUME TypeInv, NEW e, NEW h, NEW f \in Fanouts, NEW d, Budget(e, h),
           Sent(h, e)' = Sent(h, e) \cup {d}, UNCHANGED again,
           f \in Claims(e, h), Claims(e, h)' \subseteq Claims(e, h) \ {f}, Hope(e, h)' = 0
    PROVE  Budget(e, h)'
<1> DEFINE s == Cardinality(Sent(h, e))
           t == Cardinality(Sent(h, e)')
           c == Cardinality(Claims(e, h))
           k == Cardinality(Claims(e, h)')
<1>. s \in Nat /\ c \in Nat /\ again \in Nat
  BY Finitely, WebhookAssumption, SMTT(40) DEF TypeInv, TypeOK
<1>. k \in Nat /\ k <= c - 1
  <2>. IsFiniteSet(Claims(e, h) \ {f}) /\ Cardinality(Claims(e, h) \ {f}) = c - 1
    BY Finitely, FS_RemoveElement, Zenon
  <2>. IsFiniteSet(Claims(e, h)') /\ k <= Cardinality(Claims(e, h) \ {f})
    BY FS_Subset, Zenon
  <2>. QED
    BY FS_CardinalityType, Zenon
<1>. t \in {s, s + 1}
  <2>. IsFiniteSet(Sent(h, e))
    BY Finitely, Zenon
  <2>. Cardinality(Sent(h, e) \cup {d}) \in {s, s + 1}
    BY FS_AddElement, Zenon
  <2>. QED
    BY Zenon
<1>. Cardinality(Sent(h, e))' = t /\ Cardinality(Claims(e, h))' = k
  BY Zenon
<1>. again = MaxDeliveries \/ s + c <= 1 + again
  BY Zenon DEF Budget
<1>. HIDE DEF s, t, c, k
<1>. again = MaxDeliveries \/ (t + k <= 1 + again /\ t + 0 <= 1 + again)
  BY SMTT(40)
<1>. QED
  BY Zenon DEF Budget

\* The only fan-out takes over the hope there was.
LEMMA BudgetTaken ==
    ASSUME TypeInv, NEW e, NEW h, NEW f \in Fanouts, Budget(e, h),
           Sent(h, e)' = Sent(h, e), UNCHANGED again,
           Claims(e, h)' \subseteq {f}, Claims(e, h)' # {} => Hope(e, h) = 1,
           Hope(e, h)' = 1 => Hope(e, h) = 1
    PROVE  Budget(e, h)'
<1> DEFINE s == Cardinality(Sent(h, e))
           c == Cardinality(Claims(e, h))
           k == Cardinality(Claims(e, h)')
<1>. s \in Nat /\ c \in Nat /\ again \in Nat /\ Hope(e, h) \in {0, 1} /\ Hope(e, h)' \in {0, 1}
  <2>. again \in Nat
    BY WebhookAssumption, SMTT(40) DEF TypeInv, TypeOK
  <2>. Hope(e, h)' \in {0, 1}
    BY Zenon DEF Hope
  <2>. QED
    BY Finitely, Zenon
<1>. k \in {0, 1} /\ (k = 1 => Hope(e, h) = 1)
  <2>. CASE Claims(e, h)' = {}
    BY FS_EmptySet, Zenon
  <2>. CASE Claims(e, h)' = {f}
    BY FS_Singleton, Zenon
  <2>. QED
    BY Zenon
<1>. Cardinality(Sent(h, e))' = s /\ Cardinality(Claims(e, h))' = k
  BY Zenon
<1>. again = MaxDeliveries \/ (s + c <= 1 + again /\ s + Hope(e, h) <= 1 + again)
  BY Zenon DEF Budget
<1>. HIDE DEF s, c, k
<1>. again = MaxDeliveries \/ (s + k <= 1 + again /\ s + Hope(e, h)' <= 1 + again)
  BY SMTT(40)
<1>. QED
  BY Zenon DEF Budget

\* What a fan-out that does not move may still do, it still may.
LEMMA OthersSame ==
    ASSUME NEW g, fan'[g] = fan[g], NEW e, NEW h
    PROVE  (Passed(g, e, h)' <=> Passed(g, e, h)) /\ (Ahead(g, e, h)' <=> Ahead(g, e, h))
<1>. Current(g)' = Current(g)
  BY CurrentSame, Zenon
<1>. QED
  BY Zenon DEF Ahead, Passed

\* One fan-out moves, with no more to do than before and no less behind it.
LEMMA CountMove ==
    ASSUME TypeInv, NEW f \in Fanouts, \A g \in Fanouts \ {f} : fan'[g] = fan[g],
           NEW e, NEW h, Budget(e, h), Sent(h, e)' = Sent(h, e), UNCHANGED <<again, cursor>>,
           Ahead(f, e, h)' => Ahead(f, e, h), Passed(f, e, h) => Passed(f, e, h)'
    PROVE  Budget(e, h)'
<1>. Claims(e, h)' \subseteq Claims(e, h)
  BY OthersSame, Zenon DEF Claims
<1>. Hope(e, h)' = 1 => Hope(e, h) = 1
  BY OthersSame, ZenonT(30) DEF Hope
<1>. QED
  BY BudgetKept, Zenon

\* A fan-out starts: alone it takes over what there was to do, else it is counted.
LEMMA ReadCount ==
    ASSUME TypeInv, NEW f \in Fanouts, FanoutRead(f), NEW e \in Events, NEW h \in Hooks, Budget(e, h)
    PROVE  Budget(e, h)'
<1>. Sent(h, e)' = Sent(h, e) /\ UNCHANGED cursor
  BY SentUnchanged DEF FanoutRead
<1>2. /\ \A g \in Fanouts \ {f} : fan'[g] = fan[g]
      /\ fan'[f].pc = "list" /\ fan'[f].last = cursor /\ fan'[f].processed = FALSE
  BY ReadEffect, Zenon DEF Stage
<1>. Claims(e, h)' \subseteq Claims(e, h) \cup {f}
  BY <1>2, OthersSame, Zenon DEF Claims
<1>. CASE \E g \in Fanouts : fan[g].pc # "idle"
  <2>. again' = Redone
    BY Zenon DEF FanoutRead
  <2>. QED
    BY BudgetRaised, Zenon
<1>. CASE \A g \in Fanouts : fan[g].pc = "idle"
  <2>. UNCHANGED again
    BY Zenon DEF FanoutRead
  <2>. \A g \in Fanouts : ~Passed(g, e, h) /\ ~Ahead(g, e, h)
    BY Zenon DEF Passed, Ahead
  <2>. Claims(e, h) = {}
    BY Zenon DEF Claims
  <2>. Claims(e, h)' # {} => Hope(e, h) = 1
    <3>. Ahead(f, e, h)' => cursor < e
      BY <1>2 DEF Ahead
    <3>. QED
      BY <1>2, OthersSame, ZenonT(30) DEF Claims, Hope
  <2>. Hope(e, h)' = 1 => Hope(e, h) = 1
    BY Zenon DEF Hope
  <2>. QED
    BY BudgetTaken, Zenon
<1>. QED
  BY Zenon

\* A fan-out lists, matches or queues.
LEMMA ListCount ==
    ASSUME TypeInv, NEW f \in Fanouts, FanoutList(f) \/ FanoutMatch(f) \/ FanoutEnqueue(f),
           NEW e \in Events, NEW h \in Hooks, Budget(e, h)
    PROVE  Budget(e, h)'
<1>. Sent(h, e)' = Sent(h, e) /\ UNCHANGED <<again, cursor>>
  BY SentUnchanged DEF FanoutList, FanoutMatch, FanoutEnqueue
<1>. \A g \in Fanouts \ {f} : fan'[g] = fan[g]
  BY ListEffect, MatchEffect, EnqueueEffect, Zenon
<1>. (Ahead(f, e, h)' => Ahead(f, e, h)) /\ (Passed(f, e, h) => Passed(f, e, h)')
  <2>. CASE FanoutList(f)
    <3>. fan[f].pc = "list" /\ ~fan[f].processed
      BY DEF FanoutList, TypeInv, BatchesOK
    <3>. ~Passed(f, e, h)
      BY Zenon DEF Passed
    <3>. fan'[f].pc = "idle" \/ (fan'[f].pc = "match" /\ fan'[f].last = fan[f].last)
      BY ListEffect, AtRest, Zenon DEF Stage
    <3>. QED
      BY Zenon DEF Ahead
  <2>. CASE FanoutMatch(f)
    <3>. fan[f].pc = "match" /\ fan'[f].pc = "create" /\ fan'[f].last = fan[f].last
          /\ fan'[f].processed = fan[f].processed
      BY MatchEffect, Zenon DEF Stage, FanoutMatch
    <3>. QED
      BY Zenon DEF Ahead, Passed
  <2>. CASE FanoutEnqueue(f)
    <3>. fan[f].pc = "enqueue" /\ fan'[f].pc = "create" /\ fan'[f].last = fan[f].last
          /\ fan'[f].processed = fan[f].processed /\ fan'[f].subs = fan[f].subs
          /\ fan'[f].batch = fan[f].batch
      BY EnqueueEffect, Zenon DEF Stage, FanoutEnqueue
    <3>. Current(f)' = Current(f)
      BY CurrentSame, Zenon
    <3>. QED
      BY Zenon DEF Ahead, Passed
  <2>. QED
    BY Zenon
<1>. QED
  BY CountMove, Zenon

\* A fan-out makes a delivery.
LEMMA CreateCount ==
    ASSUME TypeInv, NEW f \in Fanouts, NEW g \in Hooks, NEW d \in Deliveries, FanoutCreate(f, g, d),
           NEW e \in Events, NEW h \in Hooks, Budget(e, h)
    PROVE  Budget(e, h)'
<1>. UNCHANGED <<again, cursor>>
  BY Zenon DEF FanoutCreate
<1>. \A x \in Fanouts \ {f} : fan'[x] = fan[x]
  BY CreateEffect, Zenon
<1>. /\ fan[f].pc = "create" /\ fan'[f].pc = "enqueue" /\ fan'[f].last = fan[f].last
     /\ fan'[f].processed = fan[f].processed /\ fan'[f].subs = fan[f].subs \ {g}
     /\ fan'[f].batch = fan[f].batch /\ g \in fan[f].subs
  BY CreateEffect, Zenon DEF Stage, FanoutCreate
<1>. Current(f)' = Current(f) /\ fan[f].last < Current(f) /\ Current(f) \in Events
  BY CurrentSame, CurrentIsFirst, ZenonT(30) DEF Working
<1>. CASE e = Current(f) /\ h = g
  <2>. Sent(h, e)' = Sent(h, e) \cup {d}
    BY SentCreated, SMTT(40)
  <2>. ~Passed(f, e, h)
    <3>. ~(e <= fan[f].last)
      <4>. e \in Nat /\ fan[f].last \in Nat
        BY Numbers
      <4>. QED
        BY SMTT(40)
    <3>. QED
      BY Zenon DEF Passed
  <2>. Ahead(f, e, h)
    BY Zenon DEF Ahead
  <2>. Passed(f, e, h)'
    BY Zenon DEF Passed
  <2>. f \in Claims(e, h) /\ Claims(e, h)' \subseteq Claims(e, h) \ {f}
    BY OthersSame, Zenon DEF Claims, Ahead
  <2>. Hope(e, h)' = 0
    BY Zenon DEF Hope
  <2>. QED
    BY BudgetSpent, Zenon
<1>. CASE ~(e = Current(f) /\ h = g)
  <2>. Sent(h, e)' = Sent(h, e)
    BY SentCreated, SMTT(40)
  <2>. Passed(f, e, h)' <=> Passed(f, e, h)
    BY Zenon DEF Passed
  <2>. Ahead(f, e, h)' => Ahead(f, e, h)
    BY Zenon DEF Ahead
  <2>. QED
    BY CountMove, Zenon
<1>. QED
  BY Zenon

\* A fan-out goes on to the next event.
LEMMA NextCount ==
    ASSUME TypeInv, NEW f \in Fanouts, FanoutNext(f), NEW e \in Events, NEW h \in Hooks, Budget(e, h)
    PROVE  Budget(e, h)'
<1> DEFINE c == Current(f)
<1>. Sent(h, e)' = Sent(h, e) /\ UNCHANGED <<again, cursor>>
  BY SentUnchanged, Zenon DEF FanoutNext
<1>. \A g \in Fanouts \ {f} : fan'[g] = fan[g]
  BY NextEffect, Zenon
<1>. /\ fan[f].pc = "create" /\ fan[f].subs = {} /\ fan'[f].pc \in {"cursor", "match"}
     /\ fan'[f].last = c /\ fan'[f].processed = TRUE
  BY NextEffect, Zenon DEF Stage, FanoutNext
<1>. fan[f].last < c /\ c \in Events
  BY CurrentIsFirst, Zenon DEF Working
<1>. e \in Nat /\ c \in Nat /\ fan[f].last \in Nat
  BY Numbers, Zenon
<1>. Passed(f, e, h)' <=> e <= c
  BY Zenon DEF Passed
<1>. Passed(f, e, h) <=> (e <= fan[f].last /\ fan[f].processed) \/ e = c
  BY Zenon DEF Passed
<1>. HIDE DEF c
<1>. Passed(f, e, h) => Passed(f, e, h)'
  BY SMTT(40)
<1>. Ahead(f, e, h)' => c < e
  BY Zenon DEF Ahead
<1>. c < e => Ahead(f, e, h)
  <2>. c < e => fan[f].last < e /\ ~(e <= fan[f].last) /\ e # c
    BY SMTT(40)
  <2>. QED
    BY Zenon DEF Ahead
<1>. QED
  BY CountMove, Zenon

\* A fan-out writes the cursor.
LEMMA CursorCount ==
    ASSUME TypeInv, NEW f \in Fanouts, FanoutCursor(f), NEW e \in Events, NEW h \in Hooks, Budget(e, h)
    PROVE  Budget(e, h)'
<1>. Sent(h, e)' = Sent(h, e) /\ UNCHANGED again /\ cursor' = fan[f].last /\ fan[f].pc = "cursor"
  BY SentUnchanged, Zenon DEF FanoutCursor
<1>. fan'[f].pc = "idle" /\ \A g \in Fanouts \ {f} : fan'[g] = fan[g]
  BY RestEffect, AtRest, Zenon DEF Stage, FanoutCursor
<1>. Claims(e, h)' \subseteq Claims(e, h)
  BY OthersSame, Zenon DEF Claims, Ahead
<1>. Hope(e, h)' = 1 => Claims(e, h) # {}
  <2>. ASSUME fan[f].last < e
       PROVE  Ahead(f, e, h)
    <3>. ~(e <= fan[f].last)
      <4>. fan[f].last \in Nat /\ e \in Nat
        BY Numbers, Zenon
      <4>. QED
        BY SMTT(40)
    <3>. QED
      BY Zenon DEF Ahead, Passed
  <2>. QED
    BY SMTT(40) DEF Hope, Claims
<1>. QED
  BY BudgetKept, Zenon

\* A fan-out breaks off or dies.
LEMMA FailCount ==
    ASSUME TypeInv, NEW f \in Fanouts, FanoutLost(f) \/ \E g \in Hooks : FanoutBreak(f, g),
           NEW e \in Events, NEW h \in Hooks, Budget(e, h)
    PROVE  Budget(e, h)'
<1>. Sent(h, e)' = Sent(h, e) /\ again' = Redone
  BY SentUnchanged DEF FanoutLost, FanoutBreak
<1>. \A g \in Fanouts \ {f} : fan'[g] = fan[g]
  BY RestEffect, BreakEffect, Zenon DEF FanoutLost
<1>. Claims(e, h)' \subseteq Claims(e, h) \cup {f}
  BY OthersSame, Zenon DEF Claims
<1>. QED
  BY BudgetRaised, Zenon

\* No step breaks it.
LEMMA CountStep == TypeInv /\ CountInv /\ [Next]_vars => CountInv'
<1>. SUFFICES ASSUME TypeInv, [Next]_vars, NEW e \in Events, NEW h \in Hooks, Budget(e, h)
              PROVE  Budget(e, h)'
  BY Zenon DEF CountInv, Budget
<1>. ASSUME UNCHANGED <<fan, cursor, again>>, Sent(h, e)' = Sent(h, e)
     PROVE  Budget(e, h)'
  <2>. Claims(e, h)' \subseteq Claims(e, h)
    BY OthersSame, Zenon DEF Claims
  <2>. Hope(e, h)' = 1 => Hope(e, h) = 1
    BY OthersSame DEF Hope
  <2>. QED
    BY BudgetKept, Zenon
<1>. CASE UNCHANGED vars
  BY SentUnchanged, Zenon DEF vars
<1>. CASE \E x \in Events : Emit(x) \/ CommitEvent(x) \/ RollbackEvent(x)
  BY SentUnchanged, ZenonT(30) DEF Emit, CommitEvent, RollbackEvent, fanning
<1>. CASE \E f \in Fanouts : FanoutStep(f)
  BY ReadCount, ListCount, CreateCount, NextCount, CursorCount, FailCount, Zenon DEF FanoutStep
<1>. CASE \E w \in Senders : Deliver(w) \/ SenderLost(w)
  <2>. UNCHANGED <<fan, cursor, again>>
    BY Zenon DEF Deliver, Load, Post, Mark, Record, Disable, SenderLost, fanning
  <2>. Sent(h, e)' = Sent(h, e)
    BY DeliverSent, Zenon
  <2>. QED
    BY Zenon
<1>. CASE Manage
  <2>. UNCHANGED <<fan, cursor, again>>
    BY Zenon DEF Manage, CreateHook, SendPing, Redeliver, UpdateHook, SetActive, DeleteHook,
                PurgeOld, fanning
  <2>. Sent(h, e)' = Sent(h, e)
    BY ManageSent, Zenon
  <2>. QED
    OBVIOUS
<1>. QED
  BY Zenon DEF Next

\* Each delivery of an event to a webhook beyond the first is paid for by a
\* fan-out that overlapped another, broke off or died, for any number of them.
THEOREM DuplicatesBounded == Spec => []DuplicatesAccounted
<1>. Init => CountInv
  <2>. SUFFICES ASSUME Init, NEW e \in Events, NEW h \in Hooks PROVE Budget(e, h)
    BY Zenon DEF CountInv, Budget
  <2>. NoRow.st = "none" /\ Resting.pc = "idle"
    BY AtRest, Zenon DEF NoRow, Stage
  <2>. Sent(h, e) = {} /\ Claims(e, h) = {}
    BY Zenon DEF Init, Sent, Claims, Ahead
  <2>. Cardinality(Sent(h, e)) = 0 /\ Cardinality(Claims(e, h)) = 0
    BY FS_EmptySet, Zenon
  <2>. QED
    BY Finitely, SMTT(40) DEF Init, Budget
<1>. TypeInv /\ CountInv => DuplicatesAccounted
  <2>. SUFFICES ASSUME TypeInv, CountInv, NEW e \in Events, NEW h \in Hooks
                PROVE  Cardinality(Sent(h, e)) <= 1 + again
    BY Zenon DEF DuplicatesAccounted
  <2>. /\ Cardinality(Sent(h, e)) \in Nat /\ Cardinality(Claims(e, h)) \in Nat
       /\ Cardinality(Sent(h, e)) <= MaxDeliveries
    BY Finitely, Zenon
  <2>. again \in Nat /\ MaxDeliveries \in Nat
    BY WebhookAssumption, SMTT(40) DEF TypeInv, TypeOK
  <2>. Budget(e, h)
    BY DEF CountInv, Budget
  <2>. QED
    BY SMTT(40) DEF Budget
<1>. QED
  BY TypeInit, TypeStep, CountStep, PTL DEF Spec
=============================================================================
