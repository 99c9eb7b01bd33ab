--------------------------- MODULE WebhookDelivery ---------------------------
(***************************************************************************)
(* Webhooks, from the event log to the POST: table domain_events and its   *)
(* emitters (internal/notif/emit.go), the fan-out and its cursor           *)
(* (internal/webhook/fanout.go), the delivery of one row                   *)
(* (internal/webhook/deliver.go), the retention sweep, and the owner's      *)
(* changes to a webhook (internal/webhook/manage.go).                       *)
(*                                                                         *)
(* Nothing here runs in a transaction: every statement of the fan-out and  *)
(* of the delivery commits by itself, so every statement is a step.  Only  *)
(* the INSERT of an event is part of a longer transaction, whose id is     *)
(* drawn at the INSERT and which becomes visible at its COMMIT.            *)
(*                                                                         *)
(* The job queue below this module is reduced to what JobQueue shows of it *)
(* when handlers finish inside their lease: a job has one runner at a time *)
(* and is run again after a crash.                                         *)
(***************************************************************************)
EXTENDS Integers, FiniteSets

CONSTANTS
    Events,         \* domain_events.id, from a sequence
    Kinds,          \* event kinds
    KindOf,         \* the kind of each event
    Hooks,          \* webhook ids
    OldHooks,       \* the webhooks there are at the start
    OrgHooks,       \* those of the organisation that owns the repository
    Filters,        \* the sets of kinds a webhook's events filter lets through
    Fanouts,        \* webhook:fanout handlers under way
    Senders,        \* webhook:deliver handlers under way
    MaxDeliveries,  \* bound on the rows of webhook_deliveries
    FanoutBatch,
    EventAttempts,  \* max_attempts of a fanned-out row
    PingAttempts,   \* max_attempts of a ping
    Threshold,      \* auto_disable_threshold
    ManageOps,      \* the owner's operations that are requested
    FaultKinds,     \* which of the faults below happen, and
    MaxFaults,      \* how many
    None

ASSUME WebhookAssumption ==
    /\ Events \subseteq Nat \ {0}
    /\ KindOf \in [Events -> Kinds]
    /\ None \notin Hooks
    /\ OldHooks \subseteq Hooks
    /\ OrgHooks \subseteq Hooks
    /\ Filters \subseteq SUBSET Kinds
    /\ MaxDeliveries \in Nat
    /\ FanoutBatch \in Nat \ {0}
    /\ EventAttempts \in Nat \ {0}
    /\ PingAttempts \in Nat \ {0}
    /\ Threshold \in Nat \ {0}
    /\ IsFiniteSet(Fanouts)
    /\ FaultKinds \subseteq {"crash", "db", "enqueue"}
    /\ MaxFaults \in Nat

VARIABLES
    event,      \* domain_events: not yet inserted, open, visible or rolled back
    cursor,     \* domain_events_processed.last_event_id of the webhook consumer
    hook,       \* table webhooks
    dlv,        \* table webhook_deliveries
    job,        \* the webhook:deliver job of each row
    fan,        \* the fan-out handlers
    snd,        \* the delivery handlers
    faults,     \* faults so far
    late,       \* history: events still open when a fan-out listed a later one
    unowned,    \* history: events whose repository's owner could not be read
    owed,       \* history: <<e, h>> where h has wanted e ever since e committed
    posts,      \* history: POSTs made for each row
    reruns,     \* history: crashes of a handler of each row
    again,      \* history: fan-outs that overlapped another or failed
    undone      \* history: hooks whose disabling, rows whose mark was lost

vars == <<event, cursor, hook, dlv, job, fan, snd, faults, late, unowned, owed, posts, reruns, again, undone>>
log == <<event, late, unowned>>
fanning == <<cursor, fan, again>>
sending == <<snd, posts, reruns>>

Deliveries == 1 .. MaxDeliveries
Ping == 0                                   \* event_id is null
NoRow == [st |-> "none", hook |-> None, event |-> Ping, attempt |-> 1, max |-> 1, copy |-> FALSE]
NoHook == [st |-> "none", active |-> FALSE, disabled |-> FALSE, fails |-> 0, kinds |-> {}]
NewHook(active, kinds) ==
    [st |-> "row", active |-> active, disabled |-> FALSE, fails |-> 0, kinds |-> kinds]
Resting == [pc |-> "idle", last |-> 0, batch |-> {}, subs |-> {}, d |-> 0, processed |-> FALSE]
Waiting == [pc |-> "idle", d |-> 0, out |-> "ok", attempt |-> 1, hook |-> None]

Fault(kind) ==
    /\ kind \in FaultKinds
    /\ faults < MaxFaults
    /\ faults' = faults + 1

Exists(h) == hook[h].st = "row"
On(h) == Exists(h) /\ hook[h].active /\ ~hook[h].disabled
Terminal(st) == st \in {"succeeded", "failed_permanent"}

Init ==
    /\ event = [e \in Events |-> "none"]
    /\ cursor = 0
    /\ hook = [h \in Hooks |-> IF h \in OldHooks THEN NewHook(TRUE, Kinds) ELSE NoHook]
    /\ dlv = [d \in Deliveries |-> NoRow]
    /\ job = [d \in Deliveries |-> "none"]
    /\ fan = [f \in Fanouts |-> Resting]
    /\ snd = [w \in Senders |-> Waiting]
    /\ faults = 0
    /\ late = {}
    /\ unowned = {}
    /\ owed = {}
    /\ posts = [d \in Deliveries |-> 0]
    /\ reruns = [d \in Deliveries |-> 0]
    /\ again = 0
    /\ undone = {}

-----------------------------------------------------------------------------
(* Emitters *)

\* InsertDomainEvent inside the emitter's transaction.
Emit(e) ==
    /\ event[e] = "none"
    /\ \A x \in Events : x < e => event[x] # "none"
    /\ event' = [event EXCEPT ![e] = "open"]
    /\ UNCHANGED <<fanning, hook, dlv, job, sending, faults, late, unowned, owed, undone>>

Wants(h, e) == On(h) /\ KindOf[e] \in hook[h].kinds

CommitEvent(e) ==
    /\ event[e] = "open"
    /\ event' = [event EXCEPT ![e] = "visible"]
    /\ owed' = owed \cup {<<e, h>> : h \in {x \in Hooks : Wants(x, e)}}
    /\ UNCHANGED <<fanning, hook, dlv, job, sending, faults, late, unowned, undone>>

RollbackEvent(e) ==
    /\ event[e] = "open"
    /\ event' = [event EXCEPT ![e] = "aborted"]
    /\ UNCHANGED <<fanning, hook, dlv, job, sending, faults, late, unowned, owed, undone>>

-----------------------------------------------------------------------------
(* FanoutOnce *)

\* More than MaxDeliveries of them are not told apart.
Redone == IF again < MaxDeliveries THEN again + 1 ELSE again

\* GetWebhookCursor
FanoutRead(f) ==
    /\ fan[f].pc = "idle"
    /\ fan' = [fan EXCEPT ![f] = [Resting EXCEPT !.pc = "list", !.last = cursor]]
    /\ again' = IF \E g \in Fanouts : fan[g].pc # "idle" THEN Redone ELSE again
    /\ UNCHANGED <<log, cursor, hook, dlv, job, sending, faults, owed, undone>>

\* ListUnprocessedDomainEvents: the first FanoutBatch visible ids past the cursor.
Listed(last) ==
    LET new == {e \in Events : e > last /\ event[e] = "visible"}
    IN  {e \in new : Cardinality({x \in new : x < e}) < FanoutBatch}

FanoutList(f) ==
    LET batch == Listed(fan[f].last) IN
    /\ fan[f].pc = "list"
    /\ fan' = [fan EXCEPT ![f] = IF batch = {} THEN Resting
                                 ELSE [@ EXCEPT !.pc = "match", !.batch = batch]]
    /\ late' = late \cup {e \in Events : event[e] = "open" /\ \E x \in batch : e < x}
    /\ UNCHANGED <<event, unowned, cursor, again, hook, dlv, job, sending, faults, owed, undone>>

Current(f) == CHOOSE e \in fan[f].batch : \A x \in fan[f].batch : e <= x

\* dispatchEvent: ListActiveWebhooksForOwner for the repository, then for the
\* organisation that owns it, and subscribesToKind.  When the owner cannot be read
\* the error is dropped and the webhooks of the organisation are left out.
FanoutMatch(f) ==
    LET subs == {h \in Hooks : Wants(h, Current(f))} IN
    /\ fan[f].pc = "match"
    /\ \/ fan' = [fan EXCEPT ![f].pc = "create", ![f].subs = subs] /\ UNCHANGED <<faults, unowned>>
       \/ /\ Fault("db")
          /\ fan' = [fan EXCEPT ![f].pc = "create", ![f].subs = subs \ OrgHooks]
          /\ unowned' = unowned \cup {Current(f)}
    /\ UNCHANGED <<event, late, cursor, again, hook, dlv, job, sending, owed, undone>>

Fresh == {d \in Deliveries : dlv[d].st = "none" /\ \A x \in 1 .. d - 1 : dlv[x].st # "none"}

Pending(h, e, max, copy) ==
    [st |-> "pending", hook |-> h, event |-> e, attempt |-> 1, max |-> max, copy |-> copy]

\* CreateDelivery; ON DELETE CASCADE makes it fail when the webhook is gone.
FanoutCreate(f, h, d) ==
    /\ fan[f].pc = "create" /\ h \in fan[f].subs
    /\ d \in Fresh /\ Exists(h)
    /\ dlv' = [dlv EXCEPT ![d] = Pending(h, Current(f), EventAttempts, FALSE)]
    /\ fan' = [fan EXCEPT ![f].pc = "enqueue", ![f].subs = @ \ {h}, ![f].d = d]
    /\ UNCHANGED <<log, cursor, again, hook, job, sending, faults, owed, undone>>

\* Mutant: the loop goes on past the event that failed.
FanoutBreakSkips(f, h) ==
    /\ fan[f].pc = "create" /\ h \in fan[f].subs
    /\ \/ ~Exists(h) /\ UNCHANGED faults
       \/ Fault("db")
    /\ fan' = [fan EXCEPT ![f].subs = {}]
    /\ again' = Redone
    /\ UNCHANGED <<log, cursor, hook, dlv, job, sending, owed, undone>>

\* The webhooks cannot be listed or the row cannot be written: the loop breaks;
\* what came before this event is still recorded.
FanoutBreak(f, h) ==
    /\ \/ fan[f].pc = "create" /\ h \in fan[f].subs /\ ~Exists(h) /\ UNCHANGED faults
       \/ fan[f].pc = "create" /\ h \in fan[f].subs /\ Fault("db")
       \/ fan[f].pc = "match" /\ Fault("db")
    /\ fan' = [fan EXCEPT ![f] = IF @.processed
                                 THEN [@ EXCEPT !.pc = "cursor", !.batch = {}, !.subs = {}]
                                 ELSE Resting]
    /\ again' = Redone
    /\ UNCHANGED <<log, cursor, hook, dlv, job, sending, owed, undone>>

\* worker.Enqueue: an error is logged.
FanoutEnqueue(f) ==
    /\ fan[f].pc = "enqueue"
    /\ \/ job' = [job EXCEPT ![fan[f].d] = "queued"] /\ UNCHANGED faults
       \/ Fault("enqueue") /\ UNCHANGED job
    /\ fan' = [fan EXCEPT ![f].pc = "create", ![f].d = 0]
    /\ UNCHANGED <<log, cursor, again, hook, dlv, sending, owed, undone>>

\* The event is done: the next one, or the cursor.
FanoutNext(f) ==
    LET rest == fan[f].batch \ {Current(f)} IN
    /\ fan[f].pc = "create" /\ fan[f].subs = {}
    /\ fan' = [fan EXCEPT ![f].pc = IF rest = {} THEN "cursor" ELSE "match",
                          ![f].last = Current(f), ![f].batch = rest, ![f].processed = TRUE]
    /\ UNCHANGED <<log, cursor, again, hook, dlv, job, sending, faults, owed, undone>>

\* Mutant: the cursor is not written.
FanoutCursorForgotten(f) ==
    /\ fan[f].pc = "cursor"
    /\ fan' = [fan EXCEPT ![f] = Resting]
    /\ UNCHANGED <<log, cursor, again, hook, dlv, job, sending, faults, owed, undone>>

\* SetWebhookCursor writes whatever this handler has reached.
FanoutCursor(f) ==
    /\ fan[f].pc = "cursor"
    /\ cursor' = fan[f].last
    /\ fan' = [fan EXCEPT ![f] = Resting]
    /\ UNCHANGED <<log, again, hook, dlv, job, sending, faults, owed, undone>>

\* The events are not listed or the cursor is not written, or the process dies.
FanoutLost(f) ==
    /\ fan[f].pc # "idle"
    /\ Fault("crash") \/ (fan[f].pc \in {"list", "cursor"} /\ Fault("db"))
    /\ fan' = [fan EXCEPT ![f] = Resting]
    /\ again' = Redone
    /\ UNCHANGED <<log, cursor, hook, dlv, job, sending, owed, undone>>

-----------------------------------------------------------------------------
(* Deliver *)

Finish(w) ==
    /\ snd' = [snd EXCEPT ![w] = Waiting]
    /\ job' = [job EXCEPT ![snd[w].d] = "none"]

\* Mutant: a row that is already terminal is sent again.
LoadTerminal(w, d) ==
    LET r == dlv[d] IN
    /\ snd[w].pc = "idle" /\ job[d] = "queued"
    /\ IF r.st = "gone"
       THEN job' = [job EXCEPT ![d] = "none"] /\ UNCHANGED snd
       ELSE /\ job' = [job EXCEPT ![d] = "running"]
            /\ snd' = [snd EXCEPT ![w] = [pc |-> IF On(r.hook) THEN "post" ELSE "mark", d |-> d,
                                          out |-> "off", attempt |-> r.attempt, hook |-> r.hook]]
    /\ UNCHANGED <<log, fanning, hook, dlv, posts, reruns, faults, owed, undone>>

\* Mutant: the job is not taken off the queue while it runs.
LoadShared(w, d) ==
    LET r == dlv[d] IN
    /\ snd[w].pc = "idle" /\ job[d] = "queued"
    /\ IF Terminal(r.st) \/ r.st = "gone"
       THEN job' = [job EXCEPT ![d] = "none"] /\ UNCHANGED snd
       ELSE /\ snd' = [snd EXCEPT ![w] = [pc |-> IF On(r.hook) THEN "post" ELSE "mark", d |-> d,
                                          out |-> "off", attempt |-> r.attempt, hook |-> r.hook]]
            /\ UNCHANGED job
    /\ UNCHANGED <<log, fanning, hook, dlv, posts, reruns, faults, owed, undone>>

\* The row and its webhook are read.  A job whose row has gone with its webhook
\* fails until the queue gives it up.
Load(w, d) ==
    LET r == dlv[d] IN
    /\ snd[w].pc = "idle" /\ job[d] = "queued"
    /\ IF Terminal(r.st) \/ r.st = "gone"
       THEN job' = [job EXCEPT ![d] = "none"] /\ UNCHANGED snd
       ELSE /\ job' = [job EXCEPT ![d] = "running"]
            /\ snd' = [snd EXCEPT ![w] = [pc |-> IF On(r.hook) THEN "post" ELSE "mark", d |-> d,
                                          out |-> "off", attempt |-> r.attempt, hook |-> r.hook]]
    /\ UNCHANGED <<log, fanning, hook, dlv, posts, reruns, faults, owed, undone>>

\* The secret, the URL, the size, the POST and its status: 2xx and 3xx; 408, 429,
\* 5xx or no answer; other 4xx.
Posted == {"ok", "retryable", "fatal"}
NotPosted == {"secret", "url", "size"}

Post(w, out) ==
    /\ snd[w].pc = "post"
    /\ snd' = [snd EXCEPT ![w].pc = "mark", ![w].out = out]
    /\ posts' = [posts EXCEPT ![snd[w].d] = IF out \in Posted THEN @ + 1 ELSE @]
    /\ UNCHANGED <<log, fanning, hook, dlv, job, reruns, faults, owed, undone>>

\* scheduleRetryOrPermanent
Retries(w) == snd[w].out = "retryable" /\ snd[w].attempt + 1 <= dlv[snd[w].d].max

MarkedRow(w, r) ==
    IF snd[w].out = "ok" THEN [r EXCEPT !.st = "succeeded"]
    ELSE IF Retries(w) THEN [r EXCEPT !.st = "failed_retry", !.attempt = @ + 1]
    ELSE [r EXCEPT !.st = "failed_permanent"]

\* MarkDeliverySucceeded, -Retry or -PermanentFailure; their errors are dropped.
Mark(w) ==
    LET d == snd[w].d IN
    /\ snd[w].pc = "mark"
    /\ \/ /\ dlv' = [dlv EXCEPT ![d] = IF @.st = "gone" THEN @ ELSE MarkedRow(w, @)]
          /\ UNCHANGED <<faults, undone>>
       \/ Fault("db") /\ undone' = undone \cup {d} /\ UNCHANGED dlv
    /\ CASE Retries(w) \/ snd[w].out \in {"off", "size"} -> Finish(w)
         [] snd[w].out = "secret" -> snd' = [snd EXCEPT ![w].pc = "disable"] /\ UNCHANGED job
         [] OTHER -> snd' = [snd EXCEPT ![w].pc = "record"] /\ UNCHANGED job
    /\ UNCHANGED <<log, fanning, hook, posts, reruns, owed>>

\* Mutant: one failure more than the threshold.
RecordAbove(w) ==
    LET h == snd[w].hook
        fails == IF snd[w].out = "ok" THEN 0 ELSE hook[h].fails + 1
    IN  /\ snd[w].pc = "record"
        /\ \/ /\ Exists(h)
              /\ hook' = [hook EXCEPT ![h].fails = fails]
              /\ IF fails > Threshold THEN snd' = [snd EXCEPT ![w].pc = "disable"] /\ UNCHANGED job
                 ELSE Finish(w)
              /\ UNCHANGED faults
           \/ ~Exists(h) /\ Finish(w) /\ UNCHANGED <<hook, faults>>
           \/ Fault("db") /\ Finish(w) /\ UNCHANGED hook
        /\ UNCHANGED <<log, fanning, dlv, posts, reruns, owed, undone>>

\* RecordWebhookSuccess, or RecordWebhookFailure and the threshold.
Record(w) ==
    LET h == snd[w].hook
        fails == IF snd[w].out = "ok" THEN 0 ELSE hook[h].fails + 1
    IN  /\ snd[w].pc = "record"
        /\ \/ /\ Exists(h)
              /\ hook' = [hook EXCEPT ![h].fails = fails]
              /\ IF fails >= Threshold THEN snd' = [snd EXCEPT ![w].pc = "disable"] /\ UNCHANGED job
                 ELSE Finish(w)
              /\ UNCHANGED faults
           \/ ~Exists(h) /\ Finish(w) /\ UNCHANGED <<hook, faults>>
           \/ Fault("db") /\ Finish(w) /\ UNCHANGED hook
        /\ UNCHANGED <<log, fanning, dlv, posts, reruns, owed, undone>>

\* What an owner's or the server's change to h leaves of the events it is owed.
Keep(P) == owed' = owed \cap P

\* AutoDisableWebhook
Disable(w) ==
    LET h == snd[w].hook IN
    /\ snd[w].pc = "disable"
    /\ \/ /\ hook' = [hook EXCEPT ![h].disabled = @ \/ Exists(h)]
          /\ Keep({p \in owed : p[2] # h})
          /\ UNCHANGED <<faults, undone>>
       \/ Fault("db") /\ undone' = undone \cup {h} /\ UNCHANGED <<hook, owed>>
    /\ Finish(w)
    /\ UNCHANGED <<log, fanning, dlv, posts, reruns>>

\* Mutant: the job dies with its runner.
SenderLostForGood(w) ==
    LET d == snd[w].d IN
    /\ snd[w].pc # "idle"
    /\ Fault("crash")
    /\ snd' = [snd EXCEPT ![w] = Waiting]
    /\ job' = [job EXCEPT ![d] = "none"]
    /\ reruns' = [reruns EXCEPT ![d] = @ + 1]
    /\ undone' = IF snd[w].pc = "disable" THEN undone \cup {snd[w].hook} ELSE undone
    /\ UNCHANGED <<log, fanning, hook, dlv, posts, owed>>

\* The process dies; the lease runs out and the job is claimed again.
SenderLost(w) ==
    LET d == snd[w].d IN
    /\ snd[w].pc # "idle"
    /\ Fault("crash")
    /\ snd' = [snd EXCEPT ![w] = Waiting]
    /\ job' = [job EXCEPT ![d] = "queued"]
    /\ reruns' = [reruns EXCEPT ![d] = @ + 1]
    /\ undone' = IF snd[w].pc = "disable" THEN undone \cup {snd[w].hook} ELSE undone
    /\ UNCHANGED <<log, fanning, hook, dlv, posts, owed>>

\* PurgeOldDeliveries; the retention is any time.
PurgeOld(d) ==
    /\ "purge" \in ManageOps
    /\ Terminal(dlv[d].st)
    /\ dlv' = [dlv EXCEPT ![d].st = "gone"]
    /\ UNCHANGED <<log, fanning, hook, job, sending, faults, owed, undone>>

-----------------------------------------------------------------------------
(* The owner: manage.go, EnqueuePing and Redeliver *)

\* A new row and, unless that fails, its job.
Submit(d, r) ==
    /\ d \in Fresh
    /\ dlv' = [dlv EXCEPT ![d] = r]
    /\ \/ job' = [job EXCEPT ![d] = "queued"] /\ UNCHANGED faults
       \/ Fault("enqueue") /\ UNCHANGED job

\* Create, with its best-effort ping.
CreateHook(h, d, active, kinds) ==
    /\ hook[h].st = "none"
    /\ hook' = [hook EXCEPT ![h] = NewHook(active, kinds)]
    /\ \/ Submit(d, Pending(h, Ping, PingAttempts, FALSE))
       \/ Fault("db") /\ UNCHANGED <<dlv, job>>
    /\ UNCHANGED <<log, fanning, sending, owed, undone>>

SendPing(h, d) ==
    /\ "ping" \in ManageOps
    /\ Exists(h)
    /\ Submit(d, Pending(h, Ping, PingAttempts, FALSE))
    /\ UNCHANGED <<log, fanning, hook, sending, owed, undone>>

Redeliver(o, d) ==
    /\ "redeliver" \in ManageOps
    /\ dlv[o].st \notin {"none", "gone"}
    /\ Submit(d, Pending(dlv[o].hook, dlv[o].event, dlv[o].max, TRUE))
    /\ UNCHANGED <<log, fanning, hook, sending, owed, undone>>

\* Update leaves disabled_at and the failure count alone.
UpdateHook(h, active, kinds) ==
    /\ "update" \in ManageOps
    /\ Exists(h)
    /\ hook' = [hook EXCEPT ![h].active = active, ![h].kinds = kinds]
    /\ Keep({p \in owed : p[2] = h => active /\ KindOf[p[1]] \in kinds})
    /\ UNCHANGED <<log, fanning, dlv, job, sending, faults, undone>>

\* SetActive clears both.
SetActive(h, active) ==
    /\ "toggle" \in ManageOps
    /\ Exists(h)
    /\ hook' = [hook EXCEPT ![h].active = active, ![h].disabled = FALSE, ![h].fails = 0]
    /\ Keep({p \in owed : p[2] = h => active})
    /\ undone' = undone \ {h}
    /\ UNCHANGED <<log, fanning, dlv, job, sending, faults>>

\* Delete; ON DELETE CASCADE takes the rows along.
DeleteHook(h) ==
    /\ "delete" \in ManageOps
    /\ Exists(h)
    /\ hook' = [hook EXCEPT ![h].st = "gone"]
    /\ dlv' = [d \in Deliveries |-> IF dlv[d].hook = h THEN [dlv[d] EXCEPT !.st = "gone"] ELSE dlv[d]]
    /\ Keep({p \in owed : p[2] # h})
    /\ UNCHANGED <<log, fanning, job, sending, faults, undone>>

-----------------------------------------------------------------------------

FanoutStep(f) ==
    \/ FanoutRead(f) \/ FanoutList(f) \/ FanoutMatch(f) \/ FanoutEnqueue(f)
    \/ FanoutNext(f) \/ FanoutCursor(f) \/ FanoutLost(f)
    \/ \E h \in Hooks : FanoutBreak(f, h)
    \/ \E h \in Hooks, d \in Deliveries : FanoutCreate(f, h, d)

Deliver(w) ==
    \/ \E d \in Deliveries : Load(w, d)
    \/ \E out \in Posted \cup NotPosted : Post(w, out)
    \/ Mark(w) \/ Record(w) \/ Disable(w)

Manage ==
    \/ \E h \in Hooks, d \in Deliveries, active \in BOOLEAN, kinds \in Filters :
          CreateHook(h, d, active, kinds)
    \/ \E h \in Hooks, d \in Deliveries : SendPing(h, d)
    \/ \E o, d \in Deliveries : Redeliver(o, d)
    \/ \E h \in Hooks, active \in BOOLEAN, kinds \in Filters : UpdateHook(h, active, kinds)
    \/ \E h \in Hooks, active \in BOOLEAN : SetActive(h, active)
    \/ \E h \in Hooks : DeleteHook(h)
    \/ \E d \in Deliveries : PurgeOld(d)

Next ==
    \/ \E e \in Events : Emit(e) \/ CommitEvent(e) \/ RollbackEvent(e)
    \/ \E f \in Fanouts : FanoutStep(f)
    \/ \E w \in Senders : Deliver(w) \/ SenderLost(w)
    \/ Manage

Spec == Init /\ [][Next]_vars

\* The worker pool runs every queued job and a handler, whose POST has a timeout,
\* goes on.
FairSpec == Spec /\ \A w \in Senders : WF_vars(Deliver(w))

-----------------------------------------------------------------------------
(* Properties *)

Webhook == [st : {"none", "row", "gone"}, active : BOOLEAN, disabled : BOOLEAN,
            fails : Nat, kinds : SUBSET Kinds]
Row == [st : {"none", "pending", "failed_retry", "succeeded", "failed_permanent", "gone"},
        hook : Hooks \cup {None}, event : Events \cup {Ping},
        attempt : Nat \ {0}, max : Nat, copy : BOOLEAN]
FanoutWork == [pc : {"idle", "list", "match", "create", "enqueue", "cursor"},
               last : Events \cup {0}, batch : SUBSET Events, subs : SUBSET Hooks,
               d : Deliveries \cup {0}, processed : BOOLEAN]
SenderWork == [pc : {"idle", "post", "mark", "record", "disable"},
               d : Deliveries \cup {0}, out : Posted \cup NotPosted \cup {"off"},
               attempt : Nat, hook : Hooks \cup {None}]

\* Events, subscriptions, delivery rows, jobs and history have their types; what
\* a row stands for, an event or a ping, is recorded when it is written.
TypeOK ==
    /\ event \in [Events -> {"none", "open", "visible", "aborted"}]
    /\ cursor \in Events \cup {0}
    /\ hook \in [Hooks -> Webhook]
    /\ dlv \in [Deliveries -> Row]
    /\ job \in [Deliveries -> {"none", "queued", "running"}]
    /\ fan \in [Fanouts -> FanoutWork]
    /\ snd \in [Senders -> SenderWork]
    /\ faults \in 0 .. MaxFaults
    /\ late \subseteq Events
    /\ unowned \subseteq Events
    /\ owed \subseteq Events \X Hooks
    /\ posts \in [Deliveries -> Nat]
    /\ reruns \in [Deliveries -> Nat]
    /\ again \in 0 .. MaxDeliveries
    /\ undone \subseteq Hooks \cup Deliveries

Sent(h, e) == {d \in Deliveries : dlv[d].st # "none" /\ dlv[d].hook = h /\ dlv[d].event = e /\ ~dlv[d].copy}

\* The cursor never passes an event without a delivery for every webhook that
\* wanted it from its commit on, whatever fan-outs overlap, fail or die and
\* however the cursor jumps back.  Two things the code lets through are left out:
\* an event that committed after a fan-out had listed a later one, and a webhook
\* of the organisation when the owner's lookup failed, whose error is dropped.
NoneSkipped ==
    \A e \in Events, h \in Hooks :
        /\ <<e, h>> \in owed /\ e <= cursor
        /\ e \notin late
        /\ ~(h \in OrgHooks /\ e \in unowned)
        => Sent(h, e) # {}

\* Every delivery of an event to a webhook beyond the first is accounted for by
\* a fan-out that overlapped another, broke off or died.
DuplicatesAccounted ==
    \A e \in Events, h \in Hooks : Cardinality(Sent(h, e)) <= 1 + again

\* A row is sent at most once for each attempt it records, and once more only for
\* a handler that died while it had the row, however many handlers, redeliveries
\* and toggles of the webhook there are.
OnePostPerAttempt == \A d \in Deliveries : posts[d] <= dlv[d].attempt + reruns[d]

\* A webhook at its threshold is switched off, or somebody is about to do it,
\* unless that very statement failed or died.
ThresholdEnforced ==
    \A h \in Hooks :
        Exists(h) /\ hook[h].fails >= Threshold =>
            \/ hook[h].disabled \/ h \in undone
            \/ \E w \in Senders : snd[w].pc = "disable" /\ snd[w].hook = h

\* A row that has succeeded or failed for good keeps that outcome.
OutcomeStays ==
    [][\A d \in Deliveries : Terminal(dlv[d].st) => dlv'[d].st \in {dlv[d].st, "gone"}]_vars

\* Every row with a job gets an outcome, through crashes, unless the statement that
\* writes it fails.
QueuedIsTried ==
    \A d \in Deliveries : (job[d] # "none") ~> (dlv[d].st # "pending" \/ d \in undone)

\* docs/public/user/webhooks.md: "A delivery is retried on: Network error. 5xx
\* response. Timeout".
RetriesHappen ==
    \A d \in Deliveries : (dlv[d].st = "failed_retry") ~> (dlv[d].st # "failed_retry")
=============================================================================
