---------------------- MODULE PullRequestsMergeProofs ----------------------
(***************************************************************************)
(* Proofs about PullRequests, continued: what lands, which pairs are open, *)
(* and what the default branch and the open requests know of the tips.     *)
(***************************************************************************)
EXTENDS PullRequestsProofs

(* Where processes go *)

\* The name of the step a process goes on with.
LEMMA StepNames ==
    ASSUME NEW st, NEW p, NEW x, NEW y, NEW m
    PROVE  /\ Idle.step = "idle" /\ On(st, p).step = st /\ Keeping(st, p, x, y).step = st
           /\ Loaded(st, p, m).step = st
BY Zenon DEF On, Keeping, Loaded, Idle

\* Only s moves on, with a step of that name.
Goes(s, st) == proc'[s].step = st /\ \A t \in Procs : t # s => proc'[t] = proc[t]

\* A process that begins a record goes to that record's step.
LEMMA GoesTo ==
    ASSUME TypeInv, NEW s \in Procs, NEW w, Begin(s, w), NEW st, w.step = st
    PROVE  Goes(s, st)
BY Zenon DEF Begin, TypeInv, TypeOK, Goes

\* The same of the records the handlers build.
LEMMA GoesWith ==
    ASSUME TypeInv, NEW s \in Procs, NEW st, NEW p, NEW x, NEW y, NEW m,
           Begin(s, On(st, p)) \/ Begin(s, Keeping(st, p, x, y)) \/ Begin(s, Loaded(st, p, m))
    PROVE  Goes(s, st)
BY StepNames, GoesTo, SMTT(20)

\* The steps that end what s is in the middle of.
LEMMA GoesIdle ==
    ASSUME TypeInv, NEW s \in Procs, Done(s)
    PROVE  Goes(s, "idle")
BY GoesTo, IdleWork, Zenon DEF Done

\* The steps that begin something, or go on with it.
LEMMA GoesOn ==
    ASSUME TypeInv, NEW s \in Procs
    PROVE  /\ \A e \in events : ProcessPush(s, e) => Goes(s, "list")
           /\ \A p \in PRs, b, h \in Branches : CreateResolve(s, p, b, h) => Goes(s, "probe")
           /\ CreateProbe(s) => Goes(s, "idle") \/ Goes(s, "insert")
           /\ CreateCommit(s) => Goes(s, "idle") \/ Goes(s, "fill")
           /\ \A p \in PRs : SyncResolve(s, p) => UNCHANGED proc \/ Goes(s, "sync")
           /\ SyncRefresh(s) => Goes(s, "reset")
           /\ \A p \in PRs : Mergeability(s, p) => Goes(s, "judge")
           /\ \A p \in PRs : DeleteRead(s, p) => Goes(s, "delete")
           /\ \A p \in PRs, m \in Methods : MergeLock(s, p, m) => Goes(s, "gate")
           /\ MergeGate(s) => Goes(s, "idle") \/ Goes(s, "perform")
           /\ MergePerform(s) => Goes(s, "close")
           /\ \A p \in PRs, o \in {"open", "closed"} : StateRead(s, p, o) => Goes(s, "state")
           /\ \A p \in PRs, b \in Branches : BaseResolve(s, p, b) => Goes(s, "base")
           /\ \A p \in PRs, m \in {"merge", "rebase"} : UpdateRead(s, p, m) => Goes(s, "update")
           /\ UpdatePerform(s) => Goes(s, "idle") \/ Goes(s, "record")
<1>1. ASSUME NEW e \in events, ProcessPush(s, e) PROVE Goes(s, "list")
  BY <1>1, ProcessPushMove, GoesTo, Zenon
<1>2. ASSUME NEW p \in PRs, NEW b \in Branches, NEW h \in Branches, CreateResolve(s, p, b, h)
      PROVE  Goes(s, "probe")
  <2>1. PICK w \in Proc : Begin(s, w) /\ w.step = "probe"
    BY <1>2, CreateResolveMove, SMTT(20), ZenonT(20)
  <2>. QED
    BY <2>1, GoesTo, Zenon
<1>3. ASSUME NEW st \in Steps, Go(s, st) PROVE Goes(s, st)
  BY <1>3, GoMove, GoesTo, Zenon
<1>4. CreateProbe(s) => Goes(s, "idle") \/ Goes(s, "insert")
  <2>1. "insert" \in Steps
    BY Zenon DEF Steps
  <2>. QED
    BY <1>3, <2>1, GoesIdle, Zenon DEF CreateProbe
<1>5. CreateCommit(s) => Goes(s, "idle") \/ Goes(s, "fill")
  BY GoesIdle, GoesWith, Zenon DEF CreateCommit
<1>6. ASSUME NEW p \in PRs, SyncResolve(s, p) PROVE UNCHANGED proc \/ Goes(s, "sync")
  BY <1>6, GoesWith, Zenon DEF SyncResolve
<1>7. SyncRefresh(s) => Goes(s, "reset")
  BY GoesWith, Zenon DEF SyncRefresh
<1>8. ASSUME NEW p \in PRs, Mergeability(s, p) PROVE Goes(s, "judge")
  BY <1>8, GoesWith, Zenon DEF Mergeability
<1>9. ASSUME NEW p \in PRs, DeleteRead(s, p) PROVE Goes(s, "delete")
  BY <1>9, DeleteReadMove, GoesTo, Zenon
<1>10. ASSUME NEW p \in PRs, NEW m \in Methods, MergeLock(s, p, m) PROVE Goes(s, "gate")
  BY <1>10, GoesWith, Zenon DEF MergeLock
<1>11. MergeGate(s) => Goes(s, "idle") \/ Goes(s, "perform")
  <2>1. "perform" \in Steps
    BY DEF Steps
  <2>. QED
    BY <1>3, <2>1, GoesIdle, Zenon DEF MergeGate
<1>12. MergePerform(s) => Goes(s, "close")
  BY MergePerformMove, GoesTo, ZenonT(60)
<1>13. ASSUME NEW p \in PRs, NEW o \in {"open", "closed"}, StateRead(s, p, o)
       PROVE  Goes(s, "state")
  <2>1. PICK w \in Proc : Begin(s, w) /\ w.step = "state"
    BY <1>13, StateReadMove, SMTT(20), ZenonT(20)
  <2>. QED
    BY <2>1, GoesTo, Zenon
<1>14. ASSUME NEW p \in PRs, NEW b \in Branches, BaseResolve(s, p, b) PROVE Goes(s, "base")
  <2>1. PICK w \in Proc : Begin(s, w) /\ w.step = "base"
    BY <1>14, BaseResolveMove, SMTT(20), ZenonT(20)
  <2>. QED
    BY <2>1, GoesTo, Zenon
<1>15. ASSUME NEW p \in PRs, NEW m \in {"merge", "rebase"}, UpdateRead(s, p, m)
       PROVE  Goes(s, "update")
  BY <1>15, GoesWith, Zenon DEF UpdateRead
<1>16. UpdatePerform(s) => Goes(s, "idle") \/ Goes(s, "record")
  BY UpdatePerformMove, GoesIdle, GoesTo, Zenon
<1>. QED
  BY <1>1, <1>2, <1>4, <1>5, <1>6, <1>7, <1>8, <1>9, <1>10, <1>11, <1>12, <1>13, <1>14,
     <1>15, <1>16, SMTT(30), ZenonT(30)

\* No merge comes to its end or leaves it.
ClosesKept ==
    \A t \in Procs : proc[t].step = "close" \/ proc'[t].step = "close" => proc'[t] = proc[t]

\* A process that goes elsewhere comes to no end of a merge.
LEMMA ClosesKeptStep ==
    ASSUME NEW s \in Procs, NEW st, Goes(s, st), st # "close", proc[s].step # "close"
    PROVE  ClosesKept
BY Zenon DEF Goes, ClosesKept

-----------------------------------------------------------------------------
(* What lands *)

\* The content of a commit never changes, and a default branch that may not be
\* forced keeps what it holds.
Holding ==
    /\ \A c \in Known : c \in Known' /\ has'[c] = has[c]
    /\ "force" \in Rules[Default] => has[tip[Default]] \subseteq has'[tip'[Default]]

\* A step that leaves the repository alone.
LEMMA HoldingSame == ASSUME UNCHANGED git PROVE Holding
<1>1. UNCHANGED <<tip, anc, has>>
  BY Zenon DEF git
<1>. QED
  BY <1>1, Zenon DEF Holding, Known, Exists

\* No step takes anything from it.
LEMMA HoldingStep == TypeInv /\ HistInv /\ [Next]_vars => Holding
<1>. SUFFICES ASSUME TypeInv, HistInv, [Next]_vars PROVE Holding
  BY Zenon
<1>1. Onward /\ TypeInv'
  BY OnwardStep, TypeStep, Zenon
<1>2. Default \in Branches /\ tip[Default] # None /\ tip'[Default] # None
  BY <1>1, PullAssumption, Zenon DEF TypeInv, RowsOK
<1>. QED
  BY <1>1, <1>2, Zenon DEF Onward, Overwritten, Holding

\* No row loses its head branch, its merge commit or its merged head, and a
\* new one has none.
RowsKept ==
    \A p \in PRs :
        /\ Opened(p) => /\ pr'[p] # None /\ pr'[p].head = pr[p].head
                        /\ pr'[p].merged = pr[p].merged /\ pr'[p].mhead = pr[p].mhead
        /\ ~Opened(p) => pr'[p] = None \/ pr'[p].merged = None

\* A step of which the landings do not depend.
LEMMA LandQuiet ==
    ASSUME LandInv, Holding, RowsKept, ClosesKept, UNCHANGED landed, torn \subseteq torn'
    PROVE  LandInv'
<1>1. ASSUME NEW p \in PRs, NEW l \in landed[p]
      PROVE  /\ pr'[p] # None /\ l.on # pr'[p].head /\ l.head \in Known'
             /\ l.on = Default /\ "force" \in Rules[Default] =>
                   has'[l.head] \subseteq has'[tip'[Default]]
  <2>1. /\ Opened(p) /\ l.on # pr[p].head /\ l.head \in Known
        /\ l.on = Default /\ "force" \in Rules[Default] => has[l.head] \subseteq has[tip[Default]]
    BY <1>1, Zenon DEF LandInv
  <2>2. l.head \in Known' /\ has'[l.head] = has[l.head]
    BY <2>1, Zenon DEF Holding
  <2>. QED
    BY <2>1, <2>2, Zenon DEF RowsKept, Holding
<1>2. ASSUME NEW p \in PRs, pr'[p] # None, pr'[p].merged # None
      PROVE  \E l \in landed'[p] : l.commit = pr'[p].merged /\ l.head = pr'[p].mhead
  BY <1>2, SMTT(40) DEF RowsKept, LandInv, Opened
<1>3. ASSUME NEW p \in PRs \ torn', NEW l, Closing(p, l) PROVE Closing(p, l)'
  BY <1>3, Zenon DEF Closing, At, ClosesKept
<1>4. ASSUME NEW p \in PRs \ torn'
      PROVE  \/ landed'[p] = {}
             \/ \E l \in landed'[p] : /\ landed'[p] = {l}
                                      /\ (pr'[p] # None /\ pr'[p].merged # None) \/ Closing(p, l)'
  <2>1. p \in PRs \ torn
    BY <1>4, Zenon
  <2>2. \/ landed[p] = {}
        \/ \E l \in landed[p] : /\ landed[p] = {l}
                                /\ (Opened(p) /\ pr[p].merged # None) \/ Closing(p, l)
    BY <2>1, Zenon DEF LandInv
  <2>. QED
    BY <1>3, <2>2, Zenon DEF RowsKept
<1>5. ASSUME NEW t \in Procs, proc'[t].step = "close"
      PROVE  [on |-> proc'[t].base, commit |-> proc'[t].boid, head |-> proc'[t].hoid]
                 \in landed'[proc'[t].p]
  BY <1>5, Zenon DEF ClosesKept, LandInv, At
<1>. QED
  BY <1>1, <1>2, <1>4, <1>5, Zenon DEF LandInv, Opened, At

\* Steps that write no row: they read, or they move branches only.
LEMMA LandReads ==
    ASSUME TypeInv, LandInv, Holding, NEW s \in Procs,
           \/ \E e \in events : ProcessPush(s, e)
           \/ ListPRs(s)
           \/ \E p \in PRs, b, h \in Branches : CreateResolve(s, p, b, h)
           \/ CreateProbe(s)
           \/ \E p \in PRs : SyncResolve(s, p) \/ Mergeability(s, p) \/ DeleteRead(s, p)
           \/ SyncLost(s) \/ MergeGate(s) \/ MergeFails(s)
           \/ \E p \in PRs, m \in Methods : MergeLock(s, p, m)
           \/ \E p \in PRs, o \in {"open", "closed"} : StateRead(s, p, o)
           \/ \E p \in PRs, b \in Branches : BaseResolve(s, p, b)
           \/ \E p \in PRs, m \in {"merge", "rebase"} : UpdateRead(s, p, m)
           \/ UpdatePerform(s) \/ DeleteHead(s)
    PROVE  LandInv'
<1>1. UNCHANGED proc \/ \E st \in Steps \ {"close"} : Goes(s, st)
  <2>1. ListPRs(s) \/ SyncLost(s) \/ MergeFails(s) \/ DeleteHead(s) => Goes(s, "idle")
    BY GoesIdle, Zenon DEF ListPRs, SyncLost, MergeFails, DeleteHead
  <2>2. \A st \in {"list", "probe", "insert", "idle", "sync", "judge", "delete", "gate", "perform",
                   "state", "base", "update", "record"} :
          st \in Steps \ {"close"}
    BY DEF Steps
  <2>. QED
    BY <2>1, <2>2, GoesOn, Zenon
<1>2. proc[s].step # "close"
  <2>1. SyncLost(s) => proc[s].step # "close"
    BY Zenon DEF SyncLost
  <2>. QED
    BY <2>1, Zenon DEF ProcessPush, ListPRs, CreateResolve, CreateProbe, SyncResolve, Mergeability,
        DeleteRead, MergeGate, MergeFails, MergeLock, StateRead, BaseResolve, UpdateRead,
        UpdatePerform, DeleteHead, At
<1>3. ClosesKept
  BY <1>1, <1>2, ClosesKeptStep, Zenon DEF ClosesKept
<1>4. UNCHANGED <<pr, landed, torn>>
  BY Zenon DEF ProcessPush, ListPRs, CreateResolve, CreateProbe, SyncResolve, SyncLost,
      Mergeability, DeleteRead, MergeGate, MergeFails, MergeLock, StateRead, BaseResolve,
      UpdateRead, UpdatePerform, DeleteHead
<1>5. RowsKept
  BY <1>4, Zenon DEF RowsKept, Opened
<1>. QED
  BY <1>3, <1>4, <1>5, LandQuiet, Zenon

\* A write that leaves head branch and merge alone.
LEMMA RowKept ==
    ASSUME NEW p \in PRs, Opened(p), Wrote(p), pr'[p].head = pr[p].head,
           pr'[p].merged = pr[p].merged, pr'[p].mhead = pr[p].mhead
    PROVE  RowsKept
<1>1. pr'[p] # None
  BY PullAssumption, Zenon DEF Wrote
<1>. QED
  BY <1>1, Zenon DEF RowsKept, Wrote, Opened

\* Steps that write a row but are not the end of a merge.
LEMMA LandWrites ==
    ASSUME TypeInv, LandInv, NEW s \in Procs,
           \/ CreateCommit(s) \/ CreateFill(s) \/ SyncRefresh(s) \/ SyncReset(s) \/ Judge(s)
           \/ StateWrite(s) \/ BaseWrite(s) \/ UpdateRecord(s)
    PROVE  LandInv'
<1>. DEFINE v == proc[s]
<1>1. v \in Proc /\ Sound(v)
  BY OwnWork, Zenon
<1>2. UNCHANGED <<git, landed>> /\ torn \subseteq torn'
  BY Zenon DEF CreateCommit, CreateFill, SyncRefresh, SyncReset, Judge, StateWrite, BaseWrite,
      UpdateRecord
<1>3. ClosesKept
  <2>1. Goes(s, "idle") \/ Goes(s, "fill") \/ Goes(s, "reset")
    BY GoesIdle, GoesOn, Zenon DEF CreateFill, SyncReset, Judge, StateWrite, BaseWrite, UpdateRecord
  <2>2. proc[s].step # "close"
    BY Zenon DEF CreateCommit, CreateFill, SyncRefresh, SyncReset, Judge, StateWrite, BaseWrite,
        UpdateRecord, At
  <2>. QED
    BY <2>1, <2>2, ClosesKeptStep, Zenon
<1>4. RowsKept
  <2>1. CASE UNCHANGED pr
    BY <2>1 DEF RowsKept, Opened
  <2>2. CASE /\ CreateFill(s) \/ SyncRefresh(s) \/ UpdateRecord(s)
             /\ pr' = [pr EXCEPT ![v.p].boid = v.boid, ![v.p].hoid = v.hoid]
    <3>1. v.p \in PRs /\ Opened(v.p) /\ v.boid \in Commits /\ v.hoid \in Commits
      BY <1>1, <2>2, Zenon DEF Sound, Known, CreateFill, SyncRefresh, UpdateRecord, At
    <3>. HIDE DEF v
    <3>3. /\ Wrote(v.p) /\ pr'[v.p].head = pr[v.p].head
          /\ pr'[v.p].merged = pr[v.p].merged /\ pr'[v.p].mhead = pr[v.p].mhead
      BY <2>2, <3>1, SnapshotRow, Zenon
    <3>. QED
      BY <3>1, <3>3, RowKept, Zenon
  <2>3. CASE SyncReset(s) \/ Judge(s)
    <3>1. v.p \in PRs /\ Opened(v.p)
      BY <1>1, <2>3, Zenon DEF Sound, SyncReset, Judge, At
    <3>2. PICK x \in Verdicts : pr' = [pr EXCEPT ![v.p].verdict = x]
      BY <2>3, Zenon DEF SyncReset, Judge, Judgement, Verdicts
    <3>. HIDE DEF v
    <3>3. /\ Wrote(v.p) /\ pr'[v.p].head = pr[v.p].head
          /\ pr'[v.p].merged = pr[v.p].merged /\ pr'[v.p].mhead = pr[v.p].mhead
      BY <3>1, <3>2, VerdictRow, Zenon
    <3>. QED
      BY <3>1, <3>3, RowKept, Zenon
  <2>4. CASE StateWrite(s)
    <3>1. v.p \in PRs /\ Opened(v.p)
      BY <1>1, <2>4, Zenon DEF Sound, StateWrite, At
    <3>2. PICK x \in BOOLEAN : pr' = [pr EXCEPT ![v.p].open = x]
      BY <2>4, Zenon DEF StateWrite
    <3>. HIDE DEF v
    <3>3. /\ Wrote(v.p) /\ pr'[v.p].head = pr[v.p].head
          /\ pr'[v.p].merged = pr[v.p].merged /\ pr'[v.p].mhead = pr[v.p].mhead
      BY <3>1, <3>2, StateRow, Zenon
    <3>. QED
      BY <3>1, <3>3, RowKept, Zenon
  <2>5. CASE BaseWrite(s)
    <3>1. v.p \in PRs /\ Opened(v.p) /\ v.base \in Branches /\ v.boid \in Commits
      BY <1>1, <2>5, Zenon DEF Sound, BaseWrite, At, Known
    <3>2. pr' = [pr EXCEPT ![v.p].base = v.base, ![v.p].boid = v.boid]
      BY <2>5, Zenon DEF BaseWrite
    <3>. HIDE DEF v
    <3>3. /\ Wrote(v.p) /\ pr'[v.p].head = pr[v.p].head
          /\ pr'[v.p].merged = pr[v.p].merged /\ pr'[v.p].mhead = pr[v.p].mhead
      BY <3>1, <3>2, BaseRow, Zenon
    <3>. QED
      BY <3>1, <3>3, RowKept, Zenon
  <2>6. CASE pr' = [pr EXCEPT ![v.p] = Row0(v.base, v.head, v.boid, v.hoid)] /\ CreateCommit(s)
    <3>1. v.p \in PRs /\ ~Opened(v.p)
      BY <1>1, <2>6, Zenon DEF Sound, CreateCommit, At
    <3>2. /\ \A q \in PRs : q # v.p => pr'[q] = pr[q]
          /\ pr'[v.p] = Row0(v.base, v.head, v.boid, v.hoid)
      BY <2>6, <3>1, Zenon DEF TypeInv, TypeOK
    <3>3. Row0(v.base, v.head, v.boid, v.hoid).merged = None
      BY Zenon DEF Row0
    <3>4. \A q \in PRs : q # v.p /\ ~Opened(q) => pr'[q] = None
      BY <3>2, Zenon DEF Opened
    <3>. QED
      BY <3>1, <3>2, <3>3, <3>4, Zenon DEF RowsKept, Opened
  <2>. QED
    BY <2>1, <2>2, <2>3, <2>4, <2>5, <2>6, SMTT(30), ZenonT(30) DEF CreateFill, SyncRefresh, UpdateRecord, CreateCommit
<1>. QED
  BY <1>2, <1>3, <1>4, HoldingSame, LandQuiet

\* Pushes move branches only.
LEMMA LandPush ==
    ASSUME TypeInv, LandInv, Holding, NEW b \in Branches, Push(b) \/ PushDelete(b)
    PROVE  LandInv'
<1>1. UNCHANGED <<pr, proc, landed, torn>>
  BY Zenon DEF Push, PushDelete
<1>2. RowsKept /\ ClosesKept
  BY <1>1, Zenon DEF RowsKept, ClosesKept, Opened
<1>. QED
  BY <1>1, <1>2, LandQuiet, Zenon

\* A merge under the row lock finds nothing landed yet.
LEMMA LandMergePerform ==
    ASSUME TypeInv, LandInv, Holding, NEW s \in Procs, MergePerform(s)
    PROVE  LandInv'
<1>. DEFINE v == proc[s]
<1>1. /\ v \in Proc /\ v.step = "perform" /\ v.p \in PRs /\ Opened(v.p)
      /\ pr[v.p].merged = None /\ v.base \in Branches /\ v.base # pr[v.p].head
      /\ v.hoid \in Known
  BY OwnWork, SMTT(30), ZenonT(30) DEF Sound, Locks, MergePerform, At
<1>2. PICK c \in Commits, w \in Proc :
        /\ Begin(s, w) /\ w.step = "close" /\ w.p = v.p /\ w.base = v.base
        /\ w.boid = c /\ w.hoid = v.hoid
        /\ landed' = [landed EXCEPT ![v.p] =
              @ \cup {[on |-> v.base, commit |-> c, head |-> v.hoid]}]
        /\ tip'[v.base] = c /\ has[v.hoid] \subseteq has'[c]
  BY MergePerformMove, Zenon
<1>3. proc'[s] = w /\ \A t \in Procs : t # s => proc'[t] = proc[t]
  BY <1>2, BeginEffect, Zenon DEF TypeInv
<1>4. UNCHANGED <<pr, torn>>
  BY Zenon DEF MergePerform
<1>5. PICK p \in PRs, l \in Landing :
        p = v.p /\ l = [on |-> v.base, commit |-> c, head |-> v.hoid]
  BY <1>1, Zenon DEF Landing, Known
<1>6. /\ landed'[p] = landed[p] \cup {l}
      /\ \A q \in PRs : q # p => landed'[q] = landed[q]
  BY <1>2, <1>5, Zenon DEF TypeInv, TypeOK
<1>7. ASSUME NEW t \in Procs, t # s, proc[t].p = p PROVE proc[t].step # "close"
  BY <1>1, <1>5, <1>7, Zenon DEF TypeInv, ProcsOK, Locks
<1>8. l.on = v.base /\ l.head = v.hoid /\ l.commit = c
  BY <1>5, Zenon
<1>9. ASSUME NEW q \in PRs, NEW m \in landed'[q]
      PROVE  /\ pr'[q] # None /\ m.on # pr'[q].head /\ m.head \in Known'
             /\ m.on = Default /\ "force" \in Rules[Default] =>
                   has'[m.head] \subseteq has'[tip'[Default]]
  <2>1. CASE m \in landed[q]
    <3>1. /\ Opened(q) /\ m.on # pr[q].head /\ m.head \in Known
          /\ m.on = Default /\ "force" \in Rules[Default] =>
                has[m.head] \subseteq has[tip[Default]]
      BY <2>1, Zenon DEF LandInv
    <3>2. m.head \in Known' /\ has'[m.head] = has[m.head]
      BY <3>1, Zenon DEF Holding
    <3>. QED
      BY <1>4, <3>1, <3>2, Zenon DEF Holding, Opened
  <2>2. CASE q = p /\ m = l
    <3>1. has'[v.hoid] = has[v.hoid] /\ v.hoid \in Known'
      BY <1>1, Zenon DEF Holding
    <3>2. l.on = Default => has'[l.head] \subseteq has'[tip'[Default]]
      BY <1>2, <1>8, <3>1, Zenon
    <3>. QED
      BY <1>1, <1>4, <1>5, <1>8, <2>2, <3>1, <3>2, Zenon DEF Opened
  <2>. QED
    BY <1>6, <1>9, <2>1, <2>2, Zenon
<1>10. ASSUME NEW q \in PRs, Opened(q), pr[q].merged # None
       PROVE  \E m \in landed'[q] : m.commit = pr[q].merged /\ m.head = pr[q].mhead
  BY <1>6, <1>10, Zenon DEF LandInv
<1>11. ASSUME NEW q \in PRs \ torn
       PROVE  \/ landed'[q] = {}
              \/ \E m \in landed'[q] : /\ landed'[q] = {m}
                                       /\ (Opened(q) /\ pr[q].merged # None) \/ Closing(q, m)'
  <2>1. \/ landed[q] = {}
        \/ \E m \in landed[q] : /\ landed[q] = {m}
                                /\ (Opened(q) /\ pr[q].merged # None) \/ Closing(q, m)
    BY Zenon DEF LandInv
  <2>2. CASE q = p
    <3>2. landed[q] = {}
      BY <1>1, <1>5, <1>7, <2>1, <2>2, SMTT(30), ZenonT(30) DEF Closing, At
    <3>3. Closing(q, l)'
      BY <1>2, <1>3, <1>5, <2>2, SMTT(30), ZenonT(30) DEF Closing, At
    <3>. QED
      BY <1>6, <2>2, <3>2, <3>3, SMTT(30), ZenonT(30)
  <2>3. CASE q # p
    <3>1. \A m : Closing(q, m) => Closing(q, m)'
      BY <1>1, <1>3, <1>5, <2>3 DEF Closing, At
    <3>. QED
      BY <1>6, <2>1, <2>3, <3>1, SMTT(30), ZenonT(30)
  <2>. QED
    BY <2>2, <2>3, Zenon
<1>12. ASSUME NEW t \in Procs, proc'[t].step = "close"
       PROVE  [on |-> proc'[t].base, commit |-> proc'[t].boid, head |-> proc'[t].hoid]
                  \in landed'[proc'[t].p]
  <2>1. CASE t = s
    <3>1. [on |-> proc'[t].base, commit |-> proc'[t].boid, head |-> proc'[t].hoid] = l
      BY <1>2, <1>3, <1>5, <2>1, Zenon
    <3>. QED
      BY <1>2, <1>3, <1>5, <1>6, <2>1, <3>1, Zenon
  <2>2. CASE t # s
    <3>1. proc'[t] = proc[t] /\ Sound(proc[t])
      BY <1>3, <2>2, OwnWork, Zenon
    <3>2. proc[t].step = "close" /\ proc[t].p \in PRs
      BY <1>12, <3>1, Zenon DEF Sound
    <3>. QED
      BY <1>6, <3>1, <3>2, ZenonT(60) DEF LandInv, At
  <2>. QED
    BY <2>1, <2>2, Zenon
<1>. QED
  BY <1>4, <1>9, <1>10, <1>11, <1>12, Zenon DEF LandInv, Opened, At

\* The end of a merge records what landed, or leaves it torn.
LEMMA LandMergeEnds ==
    ASSUME TypeInv, LandInv, NEW s \in Procs, MergeCommit(s) \/ MergeTorn(s)
    PROVE  LandInv'
<1>. DEFINE v == proc[s]
<1>1. PICK p \in PRs, x \in Commits, y \in Commits :
        /\ p = v.p /\ x = v.boid /\ y = v.hoid /\ v.step = "close" /\ Opened(p)
        /\ v.base \in Branches
  BY OwnWork, Zenon DEF Sound, Locks, MergeCommit, MergeTorn, At, Known
<1>2. UNCHANGED <<git, landed>> /\ Begin(s, Idle)
  BY Zenon DEF MergeCommit, MergeTorn, Done
<1>3. proc'[s] = Idle /\ \A t \in Procs : t # s => proc'[t] = proc[t]
  BY <1>2, BeginEffect, IdleWork, Zenon DEF TypeInv
<1>4. UNCHANGED <<tip, anc, has>> /\ Known' = Known
  BY <1>2, ZenonT(30) DEF git, Known, Exists
<1>5. [on |-> v.base, commit |-> x, head |-> y] \in landed[p]
  BY <1>1, ZenonT(60) DEF LandInv, At
<1>6. PICK l \in landed[p] : l.commit = x /\ l.head = y
  BY <1>5, ZenonT(60)
<1>7. /\ \A q \in PRs : Opened(q) => pr'[q] # None /\ pr'[q].head = pr[q].head
      /\ \A q \in PRs : q # p => pr'[q] = pr[q]
      /\ \/ pr'[p] # None /\ pr'[p].merged = x /\ pr'[p].mhead = y /\ UNCHANGED torn
         \/ UNCHANGED pr /\ torn' = torn \cup {p}
  <2>1. CASE MergeCommit(s)
    <3>1. pr' = [pr EXCEPT ![p].merged = x, ![p].mhead = y, ![p].verdict = "clean",
                            ![p].open = FALSE]
      BY <1>1, <2>1, Zenon DEF MergeCommit
    <3>2. Wrote(p) /\ pr'[p].head = pr[p].head /\ pr'[p].merged = x /\ pr'[p].mhead = y
      <4>1. pr[p] \in Row /\ pr \in [PRs -> Row \cup {None}]
        BY <1>1, SMTT(30), ZenonT(30) DEF TypeInv, TypeOK, Opened
      <4>. HIDE DEF v
      <4>. QED
        BY <3>1, <4>1, Zenon DEF Wrote, Row, Verdicts
    <3>3. UNCHANGED torn
      BY <2>1, Zenon DEF MergeCommit
    <3>. QED
      BY <3>2, <3>3, PullAssumption, SMTT(30), ZenonT(30) DEF Wrote, Opened
  <2>2. CASE MergeTorn(s)
    BY <1>1, <2>2, Zenon DEF MergeTorn, Opened
  <2>. QED
    BY <2>1, <2>2, Zenon
<1>8. ASSUME NEW q \in PRs, NEW m \in landed[q]
      PROVE  /\ pr'[q] # None /\ m.on # pr'[q].head /\ m.head \in Known
             /\ m.on = Default /\ "force" \in Rules[Default] =>
                   has[m.head] \subseteq has[tip[Default]]
  BY <1>7, <1>8, SMTT(40) DEF LandInv
<1>9. ASSUME NEW q \in PRs, pr'[q] # None, pr'[q].merged # None
      PROVE  \E m \in landed[q] : m.commit = pr'[q].merged /\ m.head = pr'[q].mhead
  <2>1. CASE pr'[q] = pr[q]
    BY <1>9, <2>1, ZenonT(60) DEF LandInv, Opened
  <2>2. CASE q = p /\ pr'[p].merged = x /\ pr'[p].mhead = y
    BY <1>6, <2>2, Zenon
  <2>. QED
    BY <1>7, <2>1, <2>2, Zenon
<1>10. ASSUME NEW q \in PRs \ torn'
       PROVE  \/ landed[q] = {}
              \/ \E m \in landed[q] : /\ landed[q] = {m}
                                      /\ (pr'[q] # None /\ pr'[q].merged # None) \/ Closing(q, m)'
  <2>1. q \in PRs \ torn
    BY <1>7, Zenon
  <2>2. \/ landed[q] = {}
        \/ \E m \in landed[q] : /\ landed[q] = {m}
                                /\ (Opened(q) /\ pr[q].merged # None) \/ Closing(q, m)
    BY <2>1, SMTT(30), ZenonT(30) DEF LandInv
  <2>3. CASE q = p
    <3>1. x # None
      BY PullAssumption, SMTT(30), ZenonT(30)
    <3>. QED
      BY <1>7, <2>2, <2>3, <3>1
  <2>4. CASE q # p
    <3>1. \A m : Closing(q, m) => Closing(q, m)'
      BY <1>1, <1>3, <2>4, SMTT(30), ZenonT(30) DEF Closing, At
    <3>. QED
      BY <1>7, <2>2, <2>4, <3>1, SMTT(30), ZenonT(30) DEF Opened
  <2>. QED
    BY <2>3, <2>4
<1>11. ASSUME NEW t \in Procs, proc'[t].step = "close"
       PROVE  [on |-> proc'[t].base, commit |-> proc'[t].boid, head |-> proc'[t].hoid]
                  \in landed[proc'[t].p]
  <2>1. t # s
    BY <1>3, <1>11, IdleWork, ZenonT(30)
  <2>. QED
    BY <1>3, <1>11, <2>1, Zenon DEF LandInv, At
<1>. QED
  BY <1>2, <1>4, <1>8, <1>9, <1>10, <1>11, Zenon DEF LandInv, Opened, At

\* LandInv holds at the start, and
LEMMA LandInit == Init => LandInv
BY IdleWork DEF Init, LandInv, Opened, At

\* every step keeps it.
LEMMA LandStep == TypeInv /\ HistInv /\ LandInv /\ [Next]_vars => LandInv'
<1>. SUFFICES ASSUME TypeInv, HistInv, LandInv, [Next]_vars PROVE LandInv'
  BY Zenon
<1>1. Holding
  BY HoldingStep, Zenon
<1>2. CASE UNCHANGED vars
  BY <1>1, <1>2, LandQuiet, Zenon DEF vars, RowsKept, ClosesKept, Opened
<1>3. CASE \E b \in Branches : Push(b) \/ PushDelete(b)
  BY <1>1, <1>3, LandPush, Zenon
<1>4. ASSUME NEW s \in Procs,
             \/ \E e \in events : ProcessPush(s, e)
             \/ ListPRs(s)
             \/ \E p \in PRs, b, h \in Branches : CreateResolve(s, p, b, h)
             \/ CreateProbe(s)
             \/ \E p \in PRs : SyncResolve(s, p) \/ Mergeability(s, p) \/ DeleteRead(s, p)
             \/ SyncLost(s) \/ MergeGate(s) \/ MergeFails(s)
             \/ \E p \in PRs, m \in Methods : MergeLock(s, p, m)
             \/ \E p \in PRs, o \in {"open", "closed"} : StateRead(s, p, o)
             \/ \E p \in PRs, b \in Branches : BaseResolve(s, p, b)
             \/ \E p \in PRs, m \in {"merge", "rebase"} : UpdateRead(s, p, m)
             \/ UpdatePerform(s) \/ DeleteHead(s)
      PROVE  LandInv'
  BY <1>1, <1>4, LandReads, Zenon
<1>5. ASSUME NEW s \in Procs,
             \/ CreateCommit(s) \/ CreateFill(s) \/ SyncRefresh(s) \/ SyncReset(s) \/ Judge(s)
             \/ StateWrite(s) \/ BaseWrite(s) \/ UpdateRecord(s)
      PROVE  LandInv'
  BY <1>5, LandWrites, Zenon
<1>6. ASSUME NEW s \in Procs, MergePerform(s) \/ MergeCommit(s) \/ MergeTorn(s) PROVE LandInv'
  BY <1>1, <1>6, LandMergePerform, LandMergeEnds, Zenon
<1>. QED
  BY <1>2, <1>3, <1>4, <1>5, <1>6, Zenon DEF Next

\* Concurrent merges of a request put it on its base at most once, unless a
\* merge is lost between update-ref and COMMIT.
THEOREM MergedOnce == Spec => []LandsOnce
<1>1. LandInv => LandsOnce
  BY Zenon DEF LandInv, LandsOnce
<1>. QED
  BY <1>1, TypeInit, TypeStep, HistInit, HistStep, LandInit, LandStep, PTL DEF Spec

\* A request shown as merged is merged: its merge commit went to a branch and,
\* where that is a default branch whose rule forbids force pushes, the branch
\* holds every change of the merged head for good.
THEOREM MergedIsMerged == Spec => []MergedTruthful
<1>1. LandInv => MergedTruthful
  BY Zenon DEF LandInv, MergedTruthful
<1>. QED
  BY <1>1, TypeInit, TypeStep, HistInit, HistStep, LandInit, LandStep, PTL DEF Spec

-----------------------------------------------------------------------------
(* One open request per pair of branches *)

\* No request becomes open, or changes its branches, but for those that are
\* reopened or retargeted.
OpenKept ==
    \A p \in PRs \ moved' : pr'[p] # None /\ pr'[p].open =>
        /\ Opened(p) /\ pr[p].open
        /\ pr'[p].base = pr[p].base /\ pr'[p].head = pr[p].head

\* No process comes to its insert.
InsertsKept == \A t \in Procs : proc'[t].step = "insert" => proc'[t] = proc[t]

\* A step that opens no request and brings no process to its insert keeps PairInv.
LEMMA PairQuiet ==
    ASSUME PairInv, moved \subseteq moved', OpenKept, InsertsKept
    PROVE  PairInv'
<1>1. OneOpenPerPair'
  <2>. SUFFICES ASSUME NEW p \in PRs \ moved', NEW q \in PRs \ moved', p # q,
                       pr'[p] # None, pr'[q] # None, pr'[p].open, pr'[q].open
                PROVE  <<pr'[p].base, pr'[p].head>> # <<pr'[q].base, pr'[q].head>>
    BY Zenon DEF OneOpenPerPair, Opened
  <2>1. p \in PRs \ moved /\ q \in PRs \ moved
    BY Zenon
  <2>. QED
    BY <2>1, SMTT(40) DEF OpenKept, PairInv, OneOpenPerPair
<1>2. ASSUME NEW s \in Procs, proc'[s].step = "insert"
      PROVE  /\ \A q \in PRs \ moved' : ~(pr'[q] # None /\ pr'[q].open
                       /\ pr'[q].base = proc'[s].base /\ pr'[q].head = proc'[s].head)
             /\ \A t \in Procs \ {s} : proc'[t].step = "insert" =>
                    <<proc'[t].base, proc'[t].head>> # <<proc'[s].base, proc'[s].head>>
  <2>1. proc'[s] = proc[s] /\ At(s, "insert")
    BY <1>2, Zenon DEF InsertsKept, At
  <2>. QED
    BY <2>1, SMTT(40) DEF PairInv, OpenKept, InsertsKept, At
<1>. QED
  BY <1>1, <1>2, SMTT(30), ZenonT(30) DEF PairInv, Opened, At

\* A process that goes elsewhere comes to no insert.
LEMMA InsertsKeptStep ==
    ASSUME NEW s \in Procs, NEW st, Goes(s, st), st # "insert"
    PROVE  InsertsKept
BY DEF Goes, InsertsKept

\* A write that leaves branches and state alone.
LEMMA OpenKeptWrite ==
    ASSUME NEW p \in PRs, Opened(p), Wrote(p), moved \subseteq moved',
           \/ p \in moved'
           \/ pr'[p].open = FALSE
           \/ /\ pr'[p].open = pr[p].open
              /\ pr'[p].base = pr[p].base /\ pr'[p].head = pr[p].head
    PROVE  OpenKept
BY Zenon DEF OpenKept, Wrote, Opened

\* Steps that read, or that write neither rows nor branches.
LEMMA PairReads ==
    ASSUME TypeInv, PairInv, NEW s \in Procs,
           \/ \E e \in events : ProcessPush(s, e)
           \/ ListPRs(s)
           \/ \E p \in PRs, b, h \in Branches : CreateResolve(s, p, b, h)
           \/ \E p \in PRs : SyncResolve(s, p) \/ Mergeability(s, p) \/ DeleteRead(s, p)
           \/ SyncLost(s) \/ MergeFails(s) \/ MergeGate(s) \/ MergePerform(s) \/ MergeTorn(s)
           \/ \E p \in PRs, m \in Methods : MergeLock(s, p, m)
           \/ \E p \in PRs, o \in {"open", "closed"} : StateRead(s, p, o)
           \/ \E p \in PRs, b \in Branches : BaseResolve(s, p, b)
           \/ \E p \in PRs, m \in {"merge", "rebase"} : UpdateRead(s, p, m)
           \/ UpdatePerform(s) \/ DeleteHead(s)
    PROVE  PairInv'
<1>1. UNCHANGED proc \/ \E st \in Steps \ {"insert"} : Goes(s, st)
  <2>1. ListPRs(s) \/ SyncLost(s) \/ MergeFails(s) \/ MergeTorn(s) \/ DeleteHead(s)
        => Goes(s, "idle")
    BY GoesIdle, Zenon DEF ListPRs, SyncLost, MergeFails, MergeTorn, DeleteHead
  <2>2. \A st \in {"list", "probe", "idle", "sync", "judge", "delete", "gate", "perform",
                   "close", "state", "base", "update", "record"} :
          st \in Steps \ {"insert"}
    BY DEF Steps
  <2>. QED
    BY <2>1, <2>2, GoesOn, Zenon
<1>2. InsertsKept
  BY <1>1, InsertsKeptStep, Zenon DEF InsertsKept
<1>3. UNCHANGED <<pr, moved>>
  BY Zenon DEF ProcessPush, ListPRs, CreateResolve, SyncResolve, SyncLost, Mergeability,
      DeleteRead, MergeFails, MergeGate, MergePerform, MergeTorn, MergeLock, StateRead,
      BaseResolve, UpdateRead, UpdatePerform, DeleteHead
<1>4. OpenKept
  BY <1>3 DEF OpenKept, Opened
<1>. QED
  BY <1>2, <1>3, <1>4, PairQuiet, SMTT(30), ZenonT(30)

\* Steps that write the row of an existing request.
LEMMA PairWrites ==
    ASSUME TypeInv, PairInv, NEW s \in Procs,
           \/ CreateFill(s) \/ SyncRefresh(s) \/ SyncReset(s) \/ Judge(s)
           \/ StateWrite(s) \/ BaseWrite(s) \/ UpdateRecord(s) \/ MergeCommit(s)
    PROVE  PairInv'
<1>. DEFINE v == proc[s]
<1>1. v \in Proc /\ Sound(v) /\ v.p \in PRs /\ Opened(v.p)
  BY OwnWork, Zenon DEF Sound, CreateFill, SyncRefresh, SyncReset, Judge, StateWrite, BaseWrite,
      UpdateRecord, MergeCommit, At
<1>2. InsertsKept
  <2>1. Goes(s, "idle") \/ Goes(s, "reset")
    BY GoesIdle, GoesOn, Zenon DEF CreateFill, SyncReset, Judge, StateWrite, BaseWrite,
        UpdateRecord, MergeCommit
  <2>. QED
    BY <2>1, InsertsKeptStep, Zenon
<1>3. moved \subseteq moved'
  BY ZenonT(30) DEF CreateFill, SyncRefresh, SyncReset, Judge, StateWrite, BaseWrite, UpdateRecord,
      MergeCommit
<1>4. OpenKept
  <2>1. CASE UNCHANGED pr
    BY <1>3, <2>1 DEF OpenKept, Opened
  <2>2. CASE /\ CreateFill(s) \/ SyncRefresh(s) \/ UpdateRecord(s)
             /\ pr' = [pr EXCEPT ![v.p].boid = v.boid, ![v.p].hoid = v.hoid]
    <3>1. v.boid \in Commits /\ v.hoid \in Commits
      BY <1>1, <2>2, ZenonT(40) DEF Sound, Known, CreateFill, SyncRefresh, UpdateRecord, At
    <3>. HIDE DEF v
    <3>2. /\ Wrote(v.p) /\ pr'[v.p].open = pr[v.p].open
          /\ pr'[v.p].base = pr[v.p].base /\ pr'[v.p].head = pr[v.p].head
      BY <1>1, <2>2, <3>1, SnapshotRow, Zenon
    <3>. QED
      BY <1>1, <1>3, <3>2, OpenKeptWrite, Zenon
  <2>3. CASE SyncReset(s) \/ Judge(s)
    <3>1. PICK x \in Verdicts : pr' = [pr EXCEPT ![v.p].verdict = x]
      BY <2>3, Zenon DEF SyncReset, Judge, Judgement, Verdicts
    <3>. HIDE DEF v
    <3>2. /\ Wrote(v.p) /\ pr'[v.p].open = pr[v.p].open
          /\ pr'[v.p].base = pr[v.p].base /\ pr'[v.p].head = pr[v.p].head
      BY <1>1, <3>1, VerdictRow, Zenon
    <3>. QED
      BY <1>1, <1>3, <3>2, OpenKeptWrite, ZenonT(40)
  <2>4. CASE StateWrite(s)
    <3>1. PICK x \in BOOLEAN : /\ pr' = [pr EXCEPT ![v.p].open = x]
                               /\ x = FALSE \/ v.p \in moved'
      BY <2>4, Zenon DEF StateWrite
    <3>. HIDE DEF v
    <3>2. Wrote(v.p) /\ pr'[v.p].open = x
      BY <1>1, <3>1, StateRow, Zenon
    <3>. QED
      BY <1>1, <1>3, <3>1, <3>2, OpenKeptWrite, Zenon
  <2>5. CASE BaseWrite(s)
    <3>1. v.base \in Branches /\ v.boid \in Commits
      BY <1>1, <2>5, Zenon DEF Sound, BaseWrite, At, Known
    <3>2. pr' = [pr EXCEPT ![v.p].base = v.base, ![v.p].boid = v.boid] /\ v.p \in moved'
      BY <2>5, Zenon DEF BaseWrite
    <3>. HIDE DEF v
    <3>3. Wrote(v.p)
      BY <1>1, <3>1, <3>2, BaseRow, ZenonT(40)
    <3>. QED
      BY <1>1, <1>3, <3>2, <3>3, OpenKeptWrite, ZenonT(40)
  <2>6. CASE MergeCommit(s)
    <3>1. v.hoid \in Commits /\ v.boid \in Commits
      BY <1>1, <2>6, Zenon DEF Sound, MergeCommit, At, Known
    <3>2. pr' = [pr EXCEPT ![v.p].merged = v.boid, ![v.p].mhead = v.hoid,
                           ![v.p].verdict = "clean", ![v.p].open = FALSE]
      BY <2>6, Zenon DEF MergeCommit
    <3>. HIDE DEF v
    <3>3. Wrote(v.p) /\ pr'[v.p].open = FALSE
      BY <1>1, <3>1, <3>2, MergedRow, Zenon
    <3>. QED
      BY <1>1, <1>3, <3>3, OpenKeptWrite, Zenon
  <2>. QED
    BY <2>1, <2>2, <2>3, <2>4, <2>5, <2>6, Zenon DEF CreateFill, SyncRefresh, UpdateRecord
<1>. QED
  BY <1>2, <1>3, <1>4, PairQuiet, Zenon

\* The advisory lock: nobody else is between the probe and the insert of a pair.
LEMMA PairProbe ==
    ASSUME TypeInv, PairInv, NEW s \in Procs, CreateProbe(s)
    PROVE  PairInv'
<1>1. UNCHANGED <<pr, moved>>
  BY Zenon DEF CreateProbe
<1>2. OpenKept
  BY <1>1, Zenon DEF OpenKept, Opened
<1>3. CASE Done(s)
  BY <1>1, <1>2, <1>3, GoesIdle, InsertsKeptStep, PairQuiet, Zenon
<1>4. CASE Go(s, "insert") /\ ~Duplicate(proc[s].base, proc[s].head)
  <2>1. PICK w \in Proc : /\ Begin(s, w) /\ w.step = "insert"
                           /\ w.base = proc[s].base /\ w.head = proc[s].head
    BY <1>4, GoMove, SMTT(40) DEF Steps
  <2>2. proc'[s] = w /\ \A t \in Procs : t # s => proc'[t] = proc[t]
    BY <2>1, BeginEffect DEF TypeInv
  <2>3. \A q \in PRs : ~(Opened(q) /\ pr[q].open /\ pr[q].base = w.base /\ pr[q].head = w.head)
    BY <1>4, <2>1, Zenon DEF Duplicate
  <2>4. \A t \in Procs : proc[t].step = "insert" =>
            <<proc[t].base, proc[t].head>> # <<w.base, w.head>>
    BY <2>1, Zenon DEF CreateProbe, PairFree
  <2>5. ASSUME NEW t \in Procs, proc'[t].step = "insert"
        PROVE  /\ \A q \in PRs \ moved : ~(Opened(q) /\ pr[q].open
                         /\ pr[q].base = proc'[t].base /\ pr[q].head = proc'[t].head)
               /\ \A u \in Procs \ {t} : proc'[u].step = "insert" =>
                      <<proc'[u].base, proc'[u].head>> # <<proc'[t].base, proc'[t].head>>
    <3>1. CASE t = s
      BY <2>2, <2>3, <2>4, <3>1, ZenonT(40)
    <3>2. CASE t # s
      <4>1. proc'[t] = proc[t] /\ At(t, "insert")
        BY <2>2, <2>5, <3>2 DEF At
      <4>. QED
        BY <2>2, <2>4, <4>1, SMTT(40) DEF PairInv, At
    <3>. QED
      BY <3>1, <3>2, ZenonT(30)
  <2>. QED
    BY <1>1, <2>5, ZenonT(30) DEF PairInv, OneOpenPerPair, Opened, At
<1>. QED
  BY <1>3, <1>4 DEF CreateProbe

\* The insert becomes visible: no other open request of the pair was opened.
LEMMA PairCommit ==
    ASSUME TypeInv, PairInv, NEW s \in Procs, CreateCommit(s)
    PROVE  PairInv'
<1>. DEFINE v == proc[s]
<1>1. Goes(s, "idle") \/ Goes(s, "fill")
  BY GoesOn, Zenon
<1>2. InsertsKept /\ proc'[s].step # "insert" /\ \A t \in Procs : t # s => proc'[t] = proc[t]
  BY <1>1, InsertsKeptStep, Zenon DEF Goes
<1>3. UNCHANGED moved /\ At(s, "insert")
  BY Zenon DEF CreateCommit
<1>4. CASE UNCHANGED pr
  BY <1>2, <1>3, <1>4, PairQuiet, Zenon DEF OpenKept, Opened
<1>5. CASE pr' = [pr EXCEPT ![v.p] = Row0(v.base, v.head, v.boid, v.hoid)]
  <2>1. v.p \in PRs
    BY <1>3, OwnWork, Zenon DEF Sound, At
  <2>2. /\ \A q \in PRs : q # v.p => pr'[q] = pr[q]
        /\ pr'[v.p].base = v.base /\ pr'[v.p].head = v.head
    BY <1>5, <2>1, Zenon DEF TypeInv, TypeOK, Row0
  <2>3. \A q \in PRs \ moved : ~(Opened(q) /\ pr[q].open /\ pr[q].base = v.base
                                    /\ pr[q].head = v.head)
    BY <1>3, Zenon DEF PairInv
  <2>4. \A t \in Procs \ {s} : At(t, "insert") =>
            <<proc[t].base, proc[t].head>> # <<v.base, v.head>>
    BY <1>3, Zenon DEF PairInv
  <2>. HIDE DEF v
  <2>5. OneOpenPerPair'
    <3>. SUFFICES ASSUME NEW p \in PRs \ moved, NEW q \in PRs \ moved, p # q,
                         pr'[p] # None, pr'[q] # None, pr'[p].open, pr'[q].open,
                         pr'[p].base = pr'[q].base, pr'[p].head = pr'[q].head
                  PROVE  FALSE
      BY <1>3 DEF OneOpenPerPair, Opened
    <3>1. CASE p = v.p
      BY <2>2, <2>3, <3>1, ZenonT(40) DEF Opened
    <3>2. CASE q = v.p
      BY <2>2, <2>3, <3>2, SMTT(30), ZenonT(30) DEF Opened
    <3>3. CASE p # v.p /\ q # v.p
      BY <2>2, <3>3, SMTT(40) DEF PairInv, OneOpenPerPair, Opened
    <3>. QED
      BY <3>1, <3>2, <3>3
  <2>6. ASSUME NEW t \in Procs, proc'[t].step = "insert"
        PROVE  /\ \A q \in PRs \ moved : ~(pr'[q] # None /\ pr'[q].open
                         /\ pr'[q].base = proc'[t].base /\ pr'[q].head = proc'[t].head)
               /\ \A u \in Procs \ {t} : proc'[u].step = "insert" =>
                      <<proc'[u].base, proc'[u].head>> # <<proc'[t].base, proc'[t].head>>
    <3>1. t # s /\ proc'[t] = proc[t] /\ At(t, "insert")
      BY <1>2, <2>6, Zenon DEF At
    <3>2. \A u \in Procs \ {t} : proc'[u].step = "insert" =>
              <<proc'[u].base, proc'[u].head>> # <<proc'[t].base, proc'[t].head>>
      BY <1>2, <3>1, Zenon DEF PairInv, At
    <3>3. ASSUME NEW q \in PRs \ moved, pr'[q] # None, pr'[q].open,
                 pr'[q].base = proc'[t].base, pr'[q].head = proc'[t].head
          PROVE  FALSE
      <4>1. CASE q = v.p
        BY <2>2, <2>4, <3>1, <3>3, <4>1, Zenon
      <4>2. CASE q # v.p
        BY <2>2, <3>1, <3>3, <4>2, SMTT(40) DEF PairInv, Opened
      <4>. QED
        BY <4>1, <4>2, Zenon
    <3>. QED
      BY <3>2, <3>3, ZenonT(40)
  <2>. QED
    BY <1>3, <2>5, <2>6, ZenonT(40) DEF PairInv, Opened, At
<1>. QED
  BY <1>4, <1>5, Zenon DEF CreateCommit

\* PairInv holds at the start, and
LEMMA PairInit == Init => PairInv
BY IdleWork, ZenonT(30) DEF Init, PairInv, OneOpenPerPair, Opened, At

\* every step keeps it.
LEMMA PairStep == TypeInv /\ PairInv /\ [Next]_vars => PairInv'
<1>. SUFFICES ASSUME TypeInv, PairInv, [Next]_vars PROVE PairInv'
  BY Zenon
<1>1. CASE UNCHANGED <<pr, proc, moved>>
  BY <1>1, PairQuiet, ZenonT(30) DEF OpenKept, InsertsKept, Opened
<1>2. UNCHANGED vars \/ (\E b \in Branches : Push(b) \/ PushDelete(b)) => UNCHANGED <<pr, proc, moved>>
  BY Zenon DEF vars, Push, PushDelete
<1>3. ASSUME NEW s \in Procs,
             \/ \E e \in events : ProcessPush(s, e)
             \/ ListPRs(s)
             \/ \E p \in PRs, b, h \in Branches : CreateResolve(s, p, b, h)
             \/ \E p \in PRs : SyncResolve(s, p) \/ Mergeability(s, p) \/ DeleteRead(s, p)
             \/ SyncLost(s) \/ MergeFails(s) \/ MergeGate(s) \/ MergePerform(s) \/ MergeTorn(s)
             \/ \E p \in PRs, m \in Methods : MergeLock(s, p, m)
             \/ \E p \in PRs, o \in {"open", "closed"} : StateRead(s, p, o)
             \/ \E p \in PRs, b \in Branches : BaseResolve(s, p, b)
             \/ \E p \in PRs, m \in {"merge", "rebase"} : UpdateRead(s, p, m)
             \/ UpdatePerform(s) \/ DeleteHead(s)
      PROVE  PairInv'
  BY <1>3, PairReads, Zenon
<1>4. ASSUME NEW s \in Procs,
             \/ CreateFill(s) \/ SyncRefresh(s) \/ SyncReset(s) \/ Judge(s)
             \/ StateWrite(s) \/ BaseWrite(s) \/ UpdateRecord(s) \/ MergeCommit(s)
      PROVE  PairInv'
  BY <1>4, PairWrites, Zenon
<1>5. ASSUME NEW s \in Procs, CreateProbe(s) \/ CreateCommit(s) PROVE PairInv'
  BY <1>5, PairProbe, PairCommit, Zenon
<1>. QED
  BY <1>1, <1>2, <1>3, <1>4, <1>5, Zenon DEF Next

\* However many Create calls race for a pair of branches, at most one open
\* request was opened for it.
THEOREM OneOpened == Spec => []OneOpenPerPair
<1>1. PairInv => OneOpenPerPair
  BY Zenon DEF PairInv
<1>. QED
  BY <1>1, TypeInit, TypeStep, PairInit, PairStep, PTL DEF Spec

-----------------------------------------------------------------------------
(* default_branch_oid *)

\* A step after which the default branch is where it was.
LEMMA DefaultQuiet ==
    ASSUME DefaultInv, tip'[Default] = tip[Default], UNCHANGED <<faults, mixed, updated>>,
           \A e : e.ref = Default => (e \in events' <=> e \in events),
           UNCHANGED doid, ClosesKept
    PROVE  DefaultInv'
<1>1. \A x : IsDefault(x)' <=> IsDefault(x)
  BY Zenon DEF IsDefault
<1>2. ASSUME faults = 0, ~mixed
      PROVE  /\ \A e \in events' : e.ref = Default => IsDefault(e.after)
             /\ \A s \in Procs : proc'[s].step = "close" /\ proc'[s].base = Default =>
                  IsDefault(proc'[s].boid)
             /\ \/ IsDefault(doid)
                \/ \E e \in events' : e.ref = Default
                \/ \E s \in Procs : proc'[s].step = "close" /\ proc'[s].base = Default
  BY <1>2, Zenon DEF DefaultInv, ClosesKept, At
<1>. QED
  BY <1>2, Zenon DEF DefaultInv, IsDefault, At

\* Steps that concern neither the default branch nor its announcement.
LEMMA DefaultReads ==
    ASSUME TypeInv, DefaultInv, NEW s \in Procs, UNCHANGED faults,
           \/ \E p \in PRs, b, h \in Branches : CreateResolve(s, p, b, h)
           \/ CreateProbe(s) \/ CreateCommit(s) \/ CreateFill(s)
           \/ \E p \in PRs : SyncResolve(s, p) \/ Mergeability(s, p) \/ DeleteRead(s, p)
           \/ SyncRefresh(s) \/ SyncReset(s) \/ Judge(s)
           \/ \E p \in PRs, m \in Methods : MergeLock(s, p, m)
           \/ MergeGate(s) \/ MergeFails(s)
           \/ \E p \in PRs, o \in {"open", "closed"} : StateRead(s, p, o)
           \/ StateWrite(s)
           \/ \E p \in PRs, b \in Branches : BaseResolve(s, p, b)
           \/ BaseWrite(s)
           \/ \E p \in PRs, m \in {"merge", "rebase"} : UpdateRead(s, p, m)
           \/ UpdateRecord(s)
    PROVE  DefaultInv'
<1>1. UNCHANGED proc \/ \E st \in Steps \ {"close"} : Goes(s, st)
  <2>1. \/ CreateFill(s) \/ SyncReset(s) \/ Judge(s) \/ MergeFails(s) \/ StateWrite(s)
        \/ BaseWrite(s) \/ UpdateRecord(s)
        => Goes(s, "idle")
    BY GoesIdle, Zenon DEF CreateFill, SyncReset, Judge, MergeFails, StateWrite, BaseWrite,
        UpdateRecord
  <2>2. \A st \in {"probe", "insert", "idle", "fill", "sync", "reset", "judge", "delete", "gate",
                   "perform", "state", "base", "update", "record"} :
          st \in Steps \ {"close"}
    BY DEF Steps
  <2>. QED
    BY <2>1, <2>2, GoesOn, Zenon
<1>2. proc[s].step # "close"
  BY Zenon DEF CreateResolve, CreateProbe, CreateCommit, CreateFill, SyncResolve, Mergeability,
      DeleteRead, SyncRefresh, SyncReset, Judge, MergeLock, MergeGate, MergeFails, StateRead,
      StateWrite, BaseResolve, BaseWrite, UpdateRead, UpdateRecord, At
<1>3. ClosesKept
  BY <1>1, <1>2, ClosesKeptStep, Zenon DEF ClosesKept
<1>4. UNCHANGED <<git, events, doid, mixed, updated>>
  BY Zenon DEF CreateResolve, CreateProbe, CreateCommit, CreateFill, SyncResolve, Mergeability,
      DeleteRead, SyncRefresh, SyncReset, Judge, MergeLock, MergeGate, MergeFails, StateRead,
      StateWrite, BaseResolve, BaseWrite, UpdateRead, UpdateRecord, queues
<1>5. UNCHANGED tip
  BY <1>4 DEF git
<1>. QED
  BY <1>3, <1>4, <1>5, DefaultQuiet, ZenonT(30)

\* A fault leaves nothing to promise.
LEMMA DefaultFault ==
    ASSUME TypeInv, faults' = faults + 1
    PROVE  DefaultInv'
<1>1. faults' # 0
  BY SMTT(40) DEF TypeInv, TypeOK
<1>. QED
  BY <1>1, Zenon DEF DefaultInv

\* A push moves the default branch and adds the event that records it, or is a fault.
LEMMA DefaultPush ==
    ASSUME TypeInv, DefaultInv, NEW b \in Branches, Push(b) \/ PushDelete(b)
    PROVE  DefaultInv'
<1>1. PICK n \in Commits \cup {None} : Pushed(b, n)
  BY AnyPush, Zenon
<1>2. UNCHANGED <<doid, proc, updated>>
  BY AnyPush, Zenon
<1>3. /\ tip'[b] = n /\ \A c \in Branches : c # b => tip'[c] = tip[c]
      /\ \/ events' = events \cup {[ref |-> b, after |-> n]} /\ UNCHANGED faults
         \/ faults' = faults + 1
  BY <1>1, Zenon DEF Pushed, Announce, Spend
<1>4. CASE faults' = faults + 1
  BY <1>4, DefaultFault, Zenon
<1>5. CASE events' = events \cup {[ref |-> b, after |-> n]} /\ UNCHANGED faults /\ b # Default
  <2>1. mixed' = mixed
    <3>1. CASE PushDelete(b)
      BY <3>1, Zenon DEF PushDelete
    <3>2. CASE Push(b)
      <4>1. mixed \in BOOLEAN /\ mixed' = (mixed \/ (b = Default /\ Unsettled))
        BY <3>2, Zenon DEF Push, Mix, TypeInv, TypeOK
      <4>. QED
        BY <1>5, <4>1, Zenon
    <3>. QED
      BY <3>1, <3>2, Zenon
  <2>2. tip'[Default] = tip[Default]
    BY <1>3, <1>5, PullAssumption, Zenon
  <2>3. \A e : e.ref = Default => (e \in events' <=> e \in events)
    BY <1>5, SMTT(40)
  <2>. QED
    BY <1>2, <1>5, <2>1, <2>2, <2>3, DefaultQuiet, Zenon DEF ClosesKept
<1>6. CASE events' = events \cup {[ref |-> b, after |-> n]} /\ UNCHANGED faults /\ b = Default
  <2>1. ~mixed' => ~Unsettled
    BY <1>6, ZenonT(30) DEF Push, PushDelete, Mix
  <2>2. ASSUME ~mixed'
        PROVE  /\ \A e \in events' : e.ref = Default => e.after = n
               /\ \E e \in events' : e.ref = Default
               /\ \A s \in Procs : ~(proc[s].step = "close" /\ proc[s].base = Default)
    <3>1. ~Unsettled
      BY <2>1, <2>2
    <3>2. \A e \in events' : e.ref = Default => e.after = n
      BY <1>6, <3>1, SMTT(40) DEF Unsettled
    <3>3. [ref |-> b, after |-> n] \in events' /\ [ref |-> b, after |-> n].ref = Default
      BY <1>6, Zenon
    <3>4. \A s \in Procs : ~(proc[s].step = "close" /\ proc[s].base = Default)
      BY <3>1, Zenon DEF Unsettled, At
    <3>. QED
      BY <3>2, <3>3, <3>4, Zenon
  <2>3. tip'[Default] = n
    BY <1>3, <1>6, Zenon
  <2>. QED
    BY <1>2, <2>2, <2>3, Zenon DEF DefaultInv, IsDefault, At
<1>. QED
  BY <1>3, <1>4, <1>5, <1>6, Zenon

\* push:process records the tip it was told of, which is still the tip.
LEMMA DefaultProcess ==
    ASSUME TypeInv, DefaultInv, NEW s \in Procs, NEW e \in events, ProcessPush(s, e)
    PROVE  DefaultInv'
<1>1. /\ UNCHANGED <<git, mixed, updated>> /\ events' = events \ {e}
      /\ \/ doid' = (IF e.ref = Default THEN e.after ELSE doid) /\ UNCHANGED faults
         \/ faults' = faults + 1
  BY Zenon DEF ProcessPush, Spend
<1>2. UNCHANGED tip
  BY <1>1, Zenon DEF git
<1>3. ClosesKept
  BY GoesOn, ClosesKeptStep, Zenon DEF ProcessPush, At
<1>4. CASE faults' = faults + 1
  BY <1>4, DefaultFault, Zenon
<1>5. CASE e.ref # Default /\ UNCHANGED <<doid, faults>>
  BY <1>1, <1>2, <1>3, <1>5, DefaultQuiet, Zenon
<1>6. CASE e.ref = Default /\ doid' = e.after /\ UNCHANGED faults
  <2>1. \A x : IsDefault(x)' <=> IsDefault(x)
    BY <1>1, <1>2, Zenon DEF IsDefault
  <2>2. ASSUME faults = 0, ~mixed
        PROVE  /\ \A d \in events' : d.ref = Default => IsDefault(d.after)
               /\ \A t \in Procs : proc'[t].step = "close" /\ proc'[t].base = Default =>
                    IsDefault(proc'[t].boid)
               /\ IsDefault(doid')
    BY <1>1, <1>3, <1>6, <2>2, Zenon DEF DefaultInv, ClosesKept, At
  <2>. QED
    BY <1>1, <1>2, <1>6, <2>2, Zenon DEF DefaultInv, IsDefault, At
<1>. QED
  BY <1>1, <1>4, <1>5, <1>6, Zenon

\* A merge into the default branch finds no other move of it under way.
LEMMA DefaultMergePerform ==
    ASSUME TypeInv, DefaultInv, NEW s \in Procs, MergePerform(s)
    PROVE  DefaultInv'
<1>. DEFINE v == proc[s]
<1>1. v.step = "perform" /\ v.base \in Branches
  BY OwnWork, Zenon DEF MergePerform, Sound, Locks, At
<1>2. PICK c \in Commits, w \in Proc :
        /\ Begin(s, w) /\ w.step = "close" /\ w.base = v.base /\ w.boid = c
        /\ tip'[v.base] = c
        /\ \A b \in Branches : b # v.base => tip'[b] = tip[b]
  BY MergePerformMove, ZenonT(30)
<1>3. proc'[s] = w /\ \A t \in Procs : t # s => proc'[t] = proc[t]
  BY <1>2, BeginEffect, Zenon DEF TypeInv
<1>4. UNCHANGED <<events, doid, faults, updated>>
  BY Zenon DEF MergePerform, queues
<1>5. mixed \in BOOLEAN /\ mixed' = (mixed \/ (v.base = Default /\ Unsettled))
  BY DEF MergePerform, Mix, TypeInv, TypeOK
<1>. HIDE DEF v
<1>6. CASE v.base = Default
  <2>1. ~mixed' => ~Unsettled
    BY <1>5, <1>6, Zenon
  <2>2. ASSUME ~mixed'
        PROVE  /\ \A e \in events : e.ref # Default
               /\ \A t \in Procs : t # s => ~(proc[t].step = "close" /\ proc[t].base = Default)
    BY <2>1, <2>2, SMTT(30), ZenonT(30) DEF Unsettled
  <2>3. IsDefault(c)'
    BY <1>2, <1>6, Zenon DEF IsDefault
  <2>. QED
    BY <1>2, <1>3, <1>4, <1>6, <2>2, <2>3, Zenon DEF DefaultInv, At
<1>7. CASE v.base # Default
  <2>1. mixed' = mixed
    BY <1>5, <1>7, Zenon
  <2>2. tip'[Default] = tip[Default]
    BY <1>2, <1>7, PullAssumption, Zenon
  <2>3. ASSUME faults = 0, ~mixed
        PROVE  /\ \A e \in events : e.ref = Default => IsDefault(e.after)
               /\ \A t \in Procs : proc'[t].step = "close" /\ proc'[t].base = Default =>
                    IsDefault(proc'[t].boid)
               /\ \/ IsDefault(doid)
                  \/ \E e \in events : e.ref = Default
                  \/ \E t \in Procs : proc'[t].step = "close" /\ proc'[t].base = Default
    <3>1. proc[s].step # "close"
      BY <1>1, Zenon DEF v
    <3>. QED
      BY <1>2, <1>3, <1>7, <2>3, <3>1, Zenon DEF DefaultInv, At
  <2>. QED
    BY <1>4, <2>1, <2>2, <2>3, Zenon DEF DefaultInv, IsDefault, At
<1>. QED
  BY <1>6, <1>7, Zenon

\* The transaction of a merge into the default branch records its commit.
LEMMA DefaultMergeCommit ==
    ASSUME TypeInv, DefaultInv, NEW s \in Procs, MergeCommit(s)
    PROVE  DefaultInv'
<1>1. UNCHANGED <<git, events, faults, mixed, updated>> /\ At(s, "close")
      /\ doid' = IF proc[s].base = Default THEN proc[s].boid ELSE doid
  BY Zenon DEF MergeCommit, queues
<1>2. UNCHANGED tip
  BY <1>1, Zenon DEF git
<1>3. Goes(s, "idle")
  BY GoesIdle, Zenon DEF MergeCommit
<1>4. ASSUME faults = 0, ~mixed
      PROVE  /\ \A d \in events : d.ref = Default => IsDefault(d.after)
             /\ \A t \in Procs : proc'[t].step = "close" /\ proc'[t].base = Default =>
                  IsDefault(proc'[t].boid)
             /\ \/ IsDefault(doid')
                \/ \E e \in events : e.ref = Default
                \/ \E t \in Procs : proc'[t].step = "close" /\ proc'[t].base = Default
  <2>1. \A t \in Procs : proc'[t].step = "close" /\ proc'[t].base = Default =>
            IsDefault(proc'[t].boid)
    <3>. SUFFICES ASSUME NEW t \in Procs, proc'[t].step = "close", proc'[t].base = Default
                  PROVE  IsDefault(proc'[t].boid)
      BY Zenon
    <3>1. t # s /\ proc'[t] = proc[t]
      BY <1>3, Zenon DEF Goes
    <3>. QED
      BY <1>4, <3>1, Zenon DEF DefaultInv, At
  <2>2. CASE proc[s].base = Default
    BY <1>1, <1>4, <2>1, <2>2, Zenon DEF DefaultInv, At
  <2>3. CASE proc[s].base # Default
    BY <1>1, <1>3, <1>4, <2>1, <2>3, Zenon DEF DefaultInv, Goes, At
  <2>. QED
    BY <2>2, <2>3, Zenon
<1>. QED
  BY <1>1, <1>2, <1>4, Zenon DEF DefaultInv, IsDefault, At

\* update-branch of a request from the default branch is a move nobody records.
LEMMA DefaultUpdatePerform ==
    ASSUME TypeInv, DefaultInv, NEW s \in Procs, UpdatePerform(s)
    PROVE  DefaultInv'
<1>1. UNCHANGED <<events, doid, faults, mixed>> /\ proc[s].step = "update"
  BY Zenon DEF UpdatePerform, queues, At
<1>2. ClosesKept
  BY <1>1, GoesOn, ClosesKeptStep, Zenon
<1>3. CASE UNCHANGED <<git, updated>>
  <2>1. UNCHANGED <<tip, updated>>
    BY <1>3 DEF git
  <2>. QED
    BY <1>1, <1>2, <2>1, DefaultQuiet, Zenon
<1>4. CASE ~Done(s)
  <2>1. PICK n \in Commits :
          /\ tip'[proc[s].head] = n
          /\ \A b \in Branches : b # proc[s].head => tip'[b] = tip[b]
          /\ updated' = IF proc[s].head = Default THEN updated \cup {n} ELSE updated
    BY <1>4, UpdatePerformMove, Zenon
  <2>2. CASE proc[s].head = Default
    <3>1. \A x : IsDefault(x)'
      BY <2>1, <2>2, Zenon DEF IsDefault
    <3>. QED
      BY <3>1, Zenon DEF DefaultInv
  <2>3. CASE proc[s].head # Default
    <3>1. updated' = updated /\ tip'[Default] = tip[Default]
      BY <2>1, <2>3, PullAssumption, Zenon
    <3>. QED
      BY <1>1, <1>2, <3>1, DefaultQuiet, Zenon
  <2>. QED
    BY <2>2, <2>3
<1>5. Done(s) => UNCHANGED <<git, updated>>
  BY UpdateEnds, Zenon
<1>. QED
  BY <1>3, <1>4, <1>5, Zenon

\* The default branch is not deleted.
LEMMA DefaultDeleteHead ==
    ASSUME TypeInv, DefaultInv, NEW s \in Procs, DeleteHead(s)
    PROVE  DefaultInv'
<1>1. proc[s].step = "delete" /\ proc[s].head # Default
  BY OwnWork, Zenon DEF DeleteHead, Sound, At
<1>2. tip'[Default] = tip[Default]
  BY <1>1, PullAssumption, Zenon DEF DeleteHead, TypeInv, TypeOK
<1>3. ClosesKept
  BY <1>1, GoesIdle, ClosesKeptStep, Zenon DEF DeleteHead
<1>. QED
  BY <1>2, <1>3, DefaultQuiet, Zenon DEF DeleteHead, queues

\* DefaultInv holds at the start, and
LEMMA DefaultInit == Init => DefaultInv
<1>. SUFFICES ASSUME Init PROVE DefaultInv
  OBVIOUS
<1>1. tip[Default] = 0 /\ doid = 0 /\ events = {} /\ \A s \in Procs : proc[s].step = "idle"
  BY PullAssumption, IdleWork, Zenon DEF Init
<1>. QED
  BY <1>1, Zenon DEF DefaultInv, IsDefault, At

\* every step keeps it.
LEMMA DefaultStep == TypeInv /\ DefaultInv /\ [Next]_vars => DefaultInv'
<1>. SUFFICES ASSUME TypeInv, DefaultInv, [Next]_vars PROVE DefaultInv'
  BY Zenon
<1>1. CASE UNCHANGED vars
  BY <1>1, DefaultQuiet, Zenon DEF vars, ClosesKept
<1>2. CASE \E b \in Branches : Push(b) \/ PushDelete(b)
  BY <1>2, DefaultPush, Zenon
<1>3. ASSUME NEW s \in Procs,
             \/ \E p \in PRs, b, h \in Branches : CreateResolve(s, p, b, h)
             \/ CreateProbe(s) \/ CreateCommit(s) \/ CreateFill(s)
             \/ \E p \in PRs : SyncResolve(s, p) \/ Mergeability(s, p) \/ DeleteRead(s, p)
             \/ SyncRefresh(s) \/ SyncReset(s) \/ Judge(s)
             \/ \E p \in PRs, m \in Methods : MergeLock(s, p, m)
             \/ MergeGate(s) \/ MergeFails(s)
             \/ \E p \in PRs, o \in {"open", "closed"} : StateRead(s, p, o)
             \/ StateWrite(s)
             \/ \E p \in PRs, b \in Branches : BaseResolve(s, p, b)
             \/ BaseWrite(s)
             \/ \E p \in PRs, m \in {"merge", "rebase"} : UpdateRead(s, p, m)
             \/ UpdateRecord(s)
      PROVE  DefaultInv'
  <2>1. CASE UNCHANGED faults
    BY <1>3, <2>1, DefaultReads, Zenon
  <2>2. UNCHANGED faults \/ faults' = faults + 1
    BY <1>3, Zenon DEF CreateResolve, CreateProbe, CreateCommit, CreateFill, SyncResolve,
        Mergeability, DeleteRead, SyncRefresh, SyncReset, Judge, MergeLock, MergeGate,
        MergeFails, StateRead, StateWrite, BaseResolve, BaseWrite, UpdateRead, UpdateRecord,
        Spend
  <2>. QED
    BY <2>1, <2>2, DefaultFault, Zenon
<1>4. ASSUME NEW s \in Procs, ListPRs(s) \/ SyncLost(s) \/ MergeTorn(s) PROVE DefaultInv'
  <2>1. UNCHANGED <<git, doid, updated>>
    BY <1>4, Zenon DEF ListPRs, SyncLost, MergeTorn
  <2>2. CASE faults' = faults + 1
    BY <2>2, DefaultFault, Zenon
  <2>3. CASE ListPRs(s) /\ UNCHANGED <<events, faults, mixed>>
    <3>1. ClosesKept
      BY <2>3, GoesIdle, ClosesKeptStep, Zenon DEF ListPRs, At
    <3>. QED
      BY <2>1, <2>3, <3>1, DefaultQuiet, Zenon DEF git
  <2>. QED
    BY <1>4, <2>2, <2>3, Zenon DEF ListPRs, SyncLost, MergeTorn, Spend
<1>5. ASSUME NEW s \in Procs,
             \/ \E e \in events : ProcessPush(s, e)
             \/ MergePerform(s) \/ MergeCommit(s) \/ UpdatePerform(s) \/ DeleteHead(s)
      PROVE  DefaultInv'
  BY <1>5, DefaultProcess, DefaultMergePerform, DefaultMergeCommit, DefaultUpdatePerform,
     DefaultDeleteHead
<1>. QED
  BY <1>1, <1>2, <1>3, <1>4, <1>5, Zenon DEF Next

\* Once the push events have drained, default_branch_oid is the tip of the
\* default branch, unless a fault lost something, moves of it overlapped or the
\* tip is one that update-branch made, which never writes the column.
THEOREM DefaultIsFresh == Spec => []DefaultFresh
<1>1. DefaultInv => DefaultFresh
  BY Zenon DEF DefaultInv, IsDefault, DefaultFresh, Quiet, At
<1>. QED
  BY <1>1, TypeInit, TypeStep, DefaultInit, DefaultStep, PTL DEF Spec

-----------------------------------------------------------------------------
(* The recorded head *)

Writes(w) == w.step \in {"insert", "fill", "sync", "update", "record"}

\* Nobody but s moves on.
Alone(s) == \A t \in Procs : t # s => proc'[t] = proc[t]

\* s does not become a second writer of a snapshot.
Enters(s) ==
    Writes(proc'[s]) =>
        \/ proc'[s].p \in crossed'
        \/ Writes(proc[s]) /\ proc'[s].p = proc[s].p
        \/ \A t \in Procs : t # s /\ proc[t].p = proc'[s].p => ~Writes(proc[t])

\* No move of a branch that is to be told is forgotten.
ComingKept == \A b : Coming(b) => Coming(b)'

\* No branch moves; one may go.
TipsKept == \A b \in Branches : tip'[b] \in {tip[b], None}

\* An open request was open, with the branches and the head it has.
HeadsKept ==
    \A p \in PRs \ moved' : pr'[p] # None /\ pr'[p].open /\ pr'[p].merged = None =>
        /\ Unmerged(p) /\ pr[p].open
        /\ pr'[p].base = pr[p].base /\ pr'[p].head = pr[p].head /\ pr'[p].hoid = pr[p].hoid

\* Snapshots keep having one writer.
LEMMA OneWriterStep ==
    ASSUME OneWriter, NEW s \in Procs, Alone(s), crossed \subseteq crossed', Enters(s)
    PROVE  OneWriter'
<1>. SUFFICES ASSUME NEW p \in PRs \ crossed', NEW t \in Procs, NEW u \in Procs,
                     proc'[t].p = p, Writes(proc'[t]), proc'[u].p = p, Writes(proc'[u]), t # u
              PROVE  FALSE
  BY DEF OneWriter, Writers, Writes
<1>. p \in PRs \ crossed
  OBVIOUS
<1>1. \A v \in Procs, w \in Procs :
        proc[v].p = p /\ Writes(proc[v]) /\ proc[w].p = p /\ Writes(proc[w]) => v = w
  BY SMTT(40) DEF OneWriter, Writers, Writes
<1>. QED
  BY <1>1, Zenon DEF Alone, Enters

\* What is to be told stays so when s tells nothing.
LEMMA ComingStill ==
    ASSUME NEW s \in Procs, Alone(s), events \subseteq events', proc[s].step # "list"
    PROVE  ComingKept
BY Zenon DEF Alone, ComingKept, Coming, At

\* The head of p stays recorded, or to be recorded.
LEMMA HeardKept ==
    ASSUME NEW p \in PRs, Heard(p), NEW s \in Procs, Alone(s), ComingKept,
           pr'[p].head = pr[p].head, pr'[p].hoid = pr[p].hoid,
           tip'[pr[p].head] = tip[pr[p].head], syncs[p] > 0 => syncs'[p] > 0,
           proc[s].p = p => ~Fills(proc[s]), proc'[s].p = p => ~Fills(proc'[s])
    PROVE  Heard(p)'
<1>1. CASE Coming(pr[p].head) \/ syncs[p] > 0
  BY <1>1, Zenon DEF Heard, ComingKept
<1>2. CASE \E t \in Procs : proc[t].p = p /\ Fills(proc[t]) /\ proc[t].hoid = tip[pr[p].head]
  BY <1>2, Zenon DEF Heard, Alone
<1>3. CASE pr[p].hoid = tip[pr[p].head] /\ \A t \in Procs : proc[t].p = p => ~Fills(proc[t])
  BY <1>3, Zenon DEF Heard, Alone
<1>. QED
  BY <1>1, <1>2, <1>3, Zenon DEF Heard

\* What a Create resolved stays so, or to be told.
LEMMA TimelyKept ==
    ASSUME TypeInv, NEW t \in Procs, Timely(proc[t]), crossed \subseteq crossed',
           ComingKept, TipsKept, proc'[t] = proc[t]
    PROVE  Timely(proc[t])'
<1>. SUFFICES ASSUME proc[t].step \in {"probe", "insert"}, proc[t].p \notin crossed'
              PROVE  tip'[proc[t].head] \in {None, proc[t].hoid} \/ Coming(proc[t].head)'
  BY Zenon DEF Timely
<1>. proc[t].head \in Branches
  BY OwnWork, Zenon DEF Sound
<1>. tip'[proc[t].head] \in {tip[proc[t].head], None}
  BY Zenon DEF TipsKept
<1>. proc[t].p \notin crossed
  BY Zenon
<1>1. CASE Coming(proc[t].head)
  BY <1>1, Zenon DEF ComingKept
<1>2. CASE tip[proc[t].head] \in {None, proc[t].hoid}
  BY <1>2, Zenon
<1>. QED
  BY <1>1, <1>2, Zenon DEF Timely

\* A step that moves no branch and records no head.
LEMMA HeadQuiet ==
    ASSUME TypeInv, HeadInv, NEW s \in Procs, Alone(s), Enters(s), UNCHANGED faults,
           crossed \subseteq crossed', moved \subseteq moved',
           ComingKept, TipsKept, HeadsKept, \A p \in PRs : syncs[p] > 0 => syncs'[p] > 0,
           ~Fills(proc[s]), ~Fills(proc'[s]), Timely(proc[s]) => Timely(proc[s])'
    PROVE  HeadInv'
<1>1. OneWriter'
  BY OneWriterStep, Zenon DEF HeadInv
<1>2. ASSUME faults = 0, NEW p \in PRs \ (moved' \cup crossed'), Current(p)'
      PROVE  Heard(p)'
  <2>1. /\ Unmerged(p) /\ pr[p].open /\ pr[p] \in Row
        /\ pr'[p].base = pr[p].base /\ pr'[p].head = pr[p].head /\ pr'[p].hoid = pr[p].hoid
        /\ tip'[pr[p].head] # None
    BY <1>2, Zenon DEF HeadsKept, Current, Unmerged, Opened, TypeInv, TypeOK
  <2>2. pr[p].head \in Branches
    BY <2>1 DEF Row
  <2>3. tip'[pr[p].head] = tip[pr[p].head] /\ Current(p)
    BY <2>1, <2>2, Zenon DEF TipsKept, Current
  <2>4. p \in PRs \ (moved \cup crossed)
    OBVIOUS
  <2>. QED
    BY <1>2, <2>1, <2>3, <2>4, HeardKept, Zenon DEF HeadInv
<1>3. ASSUME faults = 0, NEW t \in Procs PROVE Timely(proc[t])'
  BY <1>3, TimelyKept, Zenon DEF HeadInv, Alone
<1>. QED
  BY <1>1, <1>2, <1>3, Zenon DEF HeadInv

\* A fault leaves nothing to promise but the writers.
LEMMA HeadFault ==
    ASSUME TypeInv, HeadInv, NEW s \in Procs, Alone(s), Enters(s), crossed \subseteq crossed',
           faults' = faults + 1
    PROVE  HeadInv'
<1>1. faults' # 0
  BY SMTT(40) DEF TypeInv, TypeOK
<1>. QED
  BY <1>1, OneWriterStep, Zenon DEF HeadInv

\* s is at one of the steps that neither write a snapshot nor resolve branches.
Bystands(st) == st \in {"idle", "list", "reset", "judge", "gate", "perform", "close", "state",
                        "base", "delete"}

\* A process that goes there writes nothing.
LEMMA Bystander ==
    ASSUME NEW s \in Procs, NEW st, Goes(s, st), Bystands(st)
    PROVE  /\ Alone(s) /\ Enters(s) /\ ~Fills(proc'[s]) /\ Timely(proc[s])'
BY Zenon DEF Bystands, Goes, Alone, Enters, Writes, Fills, Timely

\* Steps that leave the recorded heads and the branches alone, but for the
\* branch that is deleted.
LEMMA HeadReads ==
    ASSUME TypeInv, HeadInv, NEW s \in Procs,
           \/ \E p \in PRs : Mergeability(s, p) \/ DeleteRead(s, p)
           \/ \E p \in PRs, m \in Methods : MergeLock(s, p, m)
           \/ \E p \in PRs, o \in {"open", "closed"} : StateRead(s, p, o)
           \/ \E p \in PRs, b \in Branches : BaseResolve(s, p, b)
           \/ MergeGate(s) \/ MergeFails(s) \/ DeleteHead(s)
           \/ SyncReset(s) \/ Judge(s) \/ StateWrite(s) \/ BaseWrite(s) \/ MergeCommit(s)
    PROVE  HeadInv'
<1>. DEFINE v == proc[s]
<1>1. \E st : Goes(s, st) /\ Bystands(st)
  <2>1. MergeFails(s) \/ DeleteHead(s) \/ SyncReset(s) \/ Judge(s) \/ StateWrite(s)
        \/ BaseWrite(s) \/ MergeCommit(s) => Goes(s, "idle")
    BY GoesIdle, Zenon DEF MergeFails, DeleteHead, SyncReset, Judge, StateWrite, BaseWrite,
        MergeCommit
  <2>2. \A st \in {"idle", "judge", "delete", "gate", "state", "base", "perform"} : Bystands(st)
    BY Zenon DEF Bystands
  <2>. QED
    BY <2>1, <2>2, GoesOn, Zenon
<1>2. Alone(s) /\ Enters(s) /\ ~Fills(proc'[s]) /\ Timely(proc[s])'
  BY <1>1, Bystander, Zenon
<1>3. \/ v.step = "idle" \/ v.step = "gate" \/ v.step = "perform" \/ v.step = "delete"
      \/ v.step = "reset" \/ v.step = "judge" \/ v.step = "state" \/ v.step = "base"
      \/ v.step = "close"
  BY Zenon DEF Mergeability, DeleteRead, MergeLock, StateRead, BaseResolve, MergeGate,
      MergeFails, DeleteHead, SyncReset, Judge, StateWrite, BaseWrite, MergeCommit, At
<1>4. UNCHANGED <<events, syncs, faults, crossed>> /\ moved \subseteq moved'
  BY ZenonT(30) DEF Mergeability, DeleteRead, MergeLock, StateRead, BaseResolve, MergeGate,
      MergeFails, DeleteHead, SyncReset, Judge, StateWrite, BaseWrite, MergeCommit, queues
<1>5. TipsKept
  <2>1. UNCHANGED git \/ DeleteHead(s)
    BY Zenon DEF Mergeability, DeleteRead, MergeLock, StateRead, BaseResolve, MergeGate,
      MergeFails, SyncReset, Judge, StateWrite, BaseWrite, MergeCommit
  <2>. QED
    BY <2>1 DEF git, TipsKept, DeleteHead, TypeInv, TypeOK
<1>6. HeadsKept
  <2>1. CASE UNCHANGED pr
    BY <1>4, <2>1 DEF HeadsKept, Unmerged, Opened
  <2>2. CASE SyncReset(s) \/ Judge(s) \/ StateWrite(s) \/ BaseWrite(s) \/ MergeCommit(s)
    <3>1. v \in Proc /\ Sound(v) /\ v.p \in PRs /\ Opened(v.p)
      BY <2>2, OwnWork, Zenon DEF Sound, SyncReset, Judge, StateWrite, BaseWrite, MergeCommit, At
    <3>2. CASE \E x \in Verdicts : pr' = [pr EXCEPT ![v.p].verdict = x]
      <4>1. PICK x \in Verdicts : pr' = [pr EXCEPT ![v.p].verdict = x]
        BY <3>2, Zenon
      <4>. HIDE DEF v
      <4>2. /\ Wrote(v.p) /\ pr'[v.p].open = pr[v.p].open /\ pr'[v.p].merged = pr[v.p].merged
            /\ pr'[v.p].base = pr[v.p].base /\ pr'[v.p].head = pr[v.p].head
            /\ pr'[v.p].hoid = pr[v.p].hoid
        BY <3>1, <4>1, VerdictRow, ZenonT(40)
      <4>. QED
        BY <1>4, <3>1, <4>2, Zenon DEF HeadsKept, Wrote, Unmerged, Opened
    <3>3. CASE Wrote(v.p) /\ (pr'[v.p].open = FALSE \/ v.p \in moved')
      BY <1>4, <3>1, <3>3, Zenon DEF HeadsKept, Wrote, Unmerged, Opened
    <3>4. SyncReset(s) \/ Judge(s) => \E x \in Verdicts : pr' = [pr EXCEPT ![v.p].verdict = x]
      BY Zenon DEF SyncReset, Judge, Judgement, Verdicts
    <3>5. ASSUME StateWrite(s) PROVE Wrote(v.p) /\ (pr'[v.p].open = FALSE \/ v.p \in moved')
      <4>1. PICK x \in BOOLEAN : /\ pr' = [pr EXCEPT ![v.p].open = x]
                                 /\ x = FALSE \/ v.p \in moved'
        BY <3>5, Zenon DEF StateWrite
      <4>. HIDE DEF v
      <4>. QED
        BY <3>1, <4>1, StateRow, Zenon
    <3>6. ASSUME BaseWrite(s) PROVE Wrote(v.p) /\ v.p \in moved'
      <4>1. v.base \in Branches /\ v.boid \in Commits
        BY <3>1, <3>6, ZenonT(40) DEF Sound, BaseWrite, At, Known
      <4>2. pr' = [pr EXCEPT ![v.p].base = v.base, ![v.p].boid = v.boid] /\ v.p \in moved'
        BY <3>6, Zenon DEF BaseWrite
      <4>. HIDE DEF v
      <4>. QED
        BY <3>1, <4>1, <4>2, BaseRow, ZenonT(40)
    <3>7. ASSUME MergeCommit(s) PROVE Wrote(v.p) /\ pr'[v.p].open = FALSE
      <4>1. v.hoid \in Commits /\ v.boid \in Commits
        BY <3>1, <3>7, ZenonT(40) DEF Sound, MergeCommit, At, Known
      <4>2. pr' = [pr EXCEPT ![v.p].merged = v.boid, ![v.p].mhead = v.hoid,
                             ![v.p].verdict = "clean", ![v.p].open = FALSE]
        BY <3>7, Zenon DEF MergeCommit
      <4>. HIDE DEF v
      <4>. QED
        BY <3>1, <4>1, <4>2, MergedRow, Zenon
    <3>. QED
      BY <2>2, <3>2, <3>3, <3>4, <3>5, <3>6, <3>7, Zenon
  <2>. QED
    BY <2>1, <2>2, Zenon DEF Mergeability, DeleteRead, MergeLock, StateRead, BaseResolve, MergeGate,
      MergeFails, DeleteHead
<1>7. ComingKept
  BY <1>2, <1>3, <1>4, ComingStill, ZenonT(40)
<1>8. ~Fills(proc[s])
  BY <1>3, Zenon DEF Fills
<1>. QED
  BY <1>2, <1>4, <1>5, <1>6, <1>7, <1>8, HeadQuiet, Zenon

\* Create resolves, then probes; an update-branch begins.
LEMMA HeadBegins ==
    ASSUME TypeInv, HeadInv, NEW s \in Procs,
           \/ \E p \in PRs, b, h \in Branches : CreateResolve(s, p, b, h)
           \/ CreateProbe(s)
           \/ \E p \in PRs, m \in {"merge", "rebase"} : UpdateRead(s, p, m)
    PROVE  HeadInv'
<1>1. /\ UNCHANGED <<git, pr, events, syncs, faults, moved>> /\ crossed \subseteq crossed'
      /\ proc[s].step \in {"idle", "probe"}
  BY Zenon DEF CreateResolve, CreateProbe, UpdateRead, queues, Overlap, At
<1>2. TipsKept /\ HeadsKept
  BY <1>1 DEF git, TipsKept, HeadsKept, Unmerged, Opened
<1>3. ASSUME Alone(s), Enters(s), ~Fills(proc'[s]), Timely(proc[s]) => Timely(proc[s])'
      PROVE  HeadInv'
  <2>1. ~Fills(proc[s]) /\ proc[s].step # "list"
    BY <1>1 DEF Fills
  <2>2. ComingKept
    BY <1>1, <1>3, <2>1, ComingStill
  <2>. QED
    BY <1>1, <1>2, <1>3, <2>1, <2>2, HeadQuiet, Zenon
<1>4. ASSUME NEW p \in PRs, NEW b \in Branches, NEW h \in Branches, CreateResolve(s, p, b, h)
      PROVE  HeadInv'
  <2>1. PICK w \in Proc : Begin(s, w) /\ w.step = "probe" /\ w.p = p /\ w.head = h /\ w.hoid = tip[h]
    BY <1>4, CreateResolveMove, SMTT(40)
  <2>2. proc'[s] = w /\ Alone(s)
    BY <2>1, BeginEffect DEF TypeInv, Alone
  <2>3. UNCHANGED tip
    BY <1>1 DEF git
  <2>. QED
    BY <1>3, <2>1, <2>2, <2>3, ZenonT(40) DEF Enters, Writes, Fills, Timely
<1>5. ASSUME CreateProbe(s) PROVE HeadInv'
  <2>1. CASE Done(s)
    <3>1. Alone(s) /\ Enters(s) /\ ~Fills(proc'[s]) /\ Timely(proc[s])'
      BY <2>1, GoesIdle, Bystander, ZenonT(40) DEF Bystands
    <3>. QED
      BY <1>3, <3>1
  <2>2. CASE Go(s, "insert")
    <3>1. PICK w \in Proc : /\ Begin(s, w) /\ w.step = "insert" /\ w.p = proc[s].p
                            /\ w.head = proc[s].head /\ w.hoid = proc[s].hoid
      BY <2>2, GoMove, SMTT(40) DEF Steps
    <3>2. proc'[s] = w /\ Alone(s) /\ At(s, "probe")
      BY <1>5, <3>1, BeginEffect DEF TypeInv, Alone, CreateProbe
    <3>3. \A t \in Procs : t # s => proc[t].p # proc[s].p
      BY <3>2, Zenon DEF TypeInv, ProcsOK, At
    <3>4. ComingKept
      BY <1>1, <3>2, ComingStill, Zenon DEF At
    <3>5. UNCHANGED <<tip, crossed>>
      BY <1>1, <1>5, ZenonT(40) DEF git, CreateProbe
    <3>6. Timely(proc[s]) => Timely(proc[s])'
      BY <3>1, <3>2, <3>4, <3>5, Zenon DEF Timely, ComingKept, At
    <3>. QED
      BY <1>3, <3>1, <3>2, <3>3, <3>6, ZenonT(40) DEF Enters, Writes, Fills
  <2>. QED
    BY <1>5, <2>1, <2>2, ZenonT(40) DEF CreateProbe
<1>6. ASSUME NEW p \in PRs, NEW m \in {"merge", "rebase"}, UpdateRead(s, p, m) PROVE HeadInv'
  <2>1. Begin(s, Loaded("update", p, m)) /\ Overlap(p)
    BY <1>6, Zenon DEF UpdateRead
  <2>2. Loaded("update", p, m).step = "update" /\ Loaded("update", p, m).p = p
    BY Zenon DEF Loaded, Keeping, On, Idle
  <2>3. proc'[s].step = "update" /\ proc'[s].p = p /\ Alone(s)
    BY <2>1, <2>2, Zenon DEF Begin, Alone, TypeInv, TypeOK
  <2>4. Enters(s)
    BY <2>1, <2>3, Zenon DEF Enters, Overlap, Writers, Writes
  <2>. QED
    BY <1>3, <2>3, <2>4 DEF Fills, Timely
<1>. QED
  BY <1>4, <1>5, <1>6, Zenon

\* push:process takes an event in hand: what it tells of is still to be told.
LEMMA HeadProcess ==
    ASSUME TypeInv, HeadInv, NEW s \in Procs, NEW e \in events, ProcessPush(s, e)
    PROVE  HeadInv'
<1>1. /\ UNCHANGED <<git, pr, syncs, moved, crossed>> /\ events' = events \ {e}
      /\ At(s, "idle") /\ (UNCHANGED faults \/ faults' = faults + 1)
  BY Zenon DEF ProcessPush, Spend
<1>2. PICK w \in Proc : Begin(s, w) /\ w.step = "list" /\ w.base = e.ref
  BY ProcessPushMove, Zenon
<1>3. proc'[s] = w /\ Goes(s, "list")
  BY <1>2, BeginEffect, GoesTo DEF TypeInv
<1>4. Alone(s) /\ Enters(s) /\ ~Fills(proc'[s]) /\ Timely(proc[s])' /\ ~Fills(proc[s])
  BY <1>1, <1>3, Bystander, Zenon DEF Bystands, Fills, At
<1>5. TipsKept /\ HeadsKept
  BY <1>1, Zenon DEF git, TipsKept, HeadsKept, Unmerged, Opened
<1>6. ComingKept
  <2>. SUFFICES ASSUME NEW b, Coming(b) PROVE Coming(b)'
    BY Zenon DEF ComingKept
  <2>1. CASE e.ref = b
    BY <1>2, <1>3, <2>1, Zenon DEF Coming, At
  <2>2. CASE e.ref # b /\ \E d \in events : d.ref = b
    BY <1>1, <2>2, Zenon DEF Coming
  <2>3. CASE \E t \in Procs : At(t, "list") /\ proc[t].base = b
    BY <1>1, <1>4, <2>3, Zenon DEF Coming, Alone, At
  <2>. QED
    BY <2>1, <2>2, <2>3, Zenon DEF Coming
<1>7. CASE UNCHANGED faults
  BY <1>1, <1>4, <1>5, <1>6, <1>7, HeadQuiet, Zenon
<1>8. CASE faults' = faults + 1
  BY <1>1, <1>4, <1>8, HeadFault, Zenon
<1>. QED
  BY <1>1, <1>7, <1>8, Zenon

\* push:process enqueues a synchronization for every open request of the
\* branch it tells of; a request being created meanwhile does not hear of it.
LEMMA HeadList ==
    ASSUME TypeInv, HeadInv, NEW s \in Procs, ListPRs(s)
    PROVE  HeadInv'
<1>. DEFINE b == proc[s].base
<1>1. UNCHANGED <<git, pr, moved>> /\ At(s, "list") /\ crossed \subseteq crossed'
  BY Zenon DEF ListPRs
<1>2. Alone(s) /\ Enters(s) /\ ~Fills(proc'[s]) /\ Timely(proc[s])'
  BY GoesIdle, Bystander, Zenon DEF ListPRs, Bystands
<1>3. CASE faults' = faults + 1
  BY <1>1, <1>2, <1>3, HeadFault, Zenon
<1>4. CASE Enqueue(Matching(b)) /\ UNCHANGED <<events, faults>>
  <2>1. /\ \A p \in Matching(b) : syncs'[p] > 0
        /\ \A p \in PRs : syncs[p] > 0 => syncs'[p] > 0
    <3>1. \A p \in PRs : syncs[p] \in Nat /\ syncs'[p] \in Nat
      BY <1>4, EnqueueEffect, SMTT(40) DEF TypeInv, TypeOK
    <3>. QED
      BY <1>4, <3>1, EnqueueEffect, SMTT(40)
  <2>2. ASSUME NEW c, c # b, Coming(c) PROVE Coming(c)'
    BY <1>2, <1>4, <2>2, Zenon DEF Coming, Alone, At
  <2>3. UNCHANGED tip
    BY <1>1, Zenon DEF git
  <2>. HIDE DEF b
  <2>4. ASSUME faults = 0, NEW p \in PRs \ (moved \cup crossed), Current(p) PROVE Heard(p)'
    <3>1. CASE pr[p].head = b
      <4>1. p \in Matching(b)
        BY <2>4, <3>1 DEF Matching, Current
      <4>. QED
        BY <2>1, <4>1, Zenon DEF Heard
    <3>2. CASE pr[p].head # b /\ Coming(pr[p].head)
      BY <1>1, <2>2, <3>2, Zenon DEF Heard
    <3>3. CASE ~Coming(pr[p].head)
      <4>1. Heard(p)
        BY <2>4, ZenonT(40) DEF HeadInv
      <4>2. ~Fills(proc[s])
        BY <1>1 DEF Fills, At
      <4>. QED
        BY <1>1, <1>2, <2>1, <2>3, <3>3, <4>1, <4>2, Zenon DEF Heard, Alone
    <3>. QED
      BY <3>1, <3>2, <3>3, Zenon
  <2>5. ASSUME faults = 0, NEW t \in Procs PROVE Timely(proc[t])'
    <3>1. CASE t = s
      BY <1>2, <3>1
    <3>2. CASE t # s
      <4>1. proc'[t] = proc[t] /\ Timely(proc[t])
        BY <1>2, <2>5, <3>2 DEF Alone, HeadInv
      <4>2. CASE proc[t].head = b /\ proc[t].step \in {"probe", "insert"}
        <5>1. proc[t].p \in PRs
          BY <4>2, OwnWork, Zenon DEF Sound
        <5>2. proc[t].p \in crossed'
          BY <4>2, <5>1, Zenon DEF ListPRs, b
        <5>. QED
          BY <4>1, <5>2, Zenon DEF Timely
      <4>3. CASE proc[t].head # b \/ proc[t].step \notin {"probe", "insert"}
        BY <1>1, <2>2, <2>3, <4>1, <4>3, ZenonT(40) DEF Timely
      <4>. QED
        BY <4>2, <4>3
    <3>. QED
      BY <3>1, <3>2, Zenon
  <2>6. OneWriter'
    BY <1>1, <1>2, OneWriterStep, Zenon DEF HeadInv
  <2>7. \A p \in PRs : Current(p)' => Current(p)
    BY <1>1, <2>3 DEF Current, Unmerged, Opened
  <2>. QED
    BY <1>1, <1>4, <2>4, <2>5, <2>6, <2>7, ZenonT(40) DEF HeadInv
<1>. QED
  BY <1>3, <1>4, Zenon DEF ListPRs, Spend

\* A push adds the event that tells of it, or is a fault.
LEMMA HeadPush ==
    ASSUME TypeInv, HeadInv, NEW b \in Branches, Push(b) \/ PushDelete(b)
    PROVE  HeadInv'
<1>1. PICK n \in Commits \cup {None} : Pushed(b, n)
  BY AnyPush, Zenon
<1>2. /\ \A c \in Branches : c # b => tip'[c] = tip[c]
      /\ \/ events' = events \cup {[ref |-> b, after |-> n]} /\ UNCHANGED faults
         \/ faults' = faults + 1
  BY <1>1, Zenon DEF Pushed, Announce, Spend
<1>3. UNCHANGED <<pr, proc, syncs, moved, crossed>>
  BY AnyPush, Zenon
<1>4. OneWriter'
  BY <1>3, SMTT(40) DEF HeadInv, OneWriter, Writers
<1>5. CASE faults' = faults + 1
  <2>1. faults' # 0
    BY <1>5, SMTT(40) DEF TypeInv, TypeOK
  <2>. QED
    BY <1>4, <2>1, Zenon DEF HeadInv
<1>6. CASE events' = events \cup {[ref |-> b, after |-> n]} /\ UNCHANGED faults
  <2>1. Coming(b)'
    <3>1. [ref |-> b, after |-> n] \in events' /\ [ref |-> b, after |-> n].ref = b
      BY <1>6
    <3>. QED
      BY <3>1, Zenon DEF Coming
  <2>2. ComingKept
    BY <1>3, <1>6, Zenon DEF ComingKept, Coming, At
  <2>3. ASSUME faults = 0, NEW p \in PRs \ (moved \cup crossed), Current(p)' PROVE Heard(p)'
    <3>1. CASE pr[p].head = b
      BY <1>3, <2>1, <3>1, Zenon DEF Heard
    <3>2. CASE pr[p].head # b
      <4>1. Opened(p) /\ pr[p] \in Row
        BY <1>3, <2>3, Zenon DEF Current, Unmerged, Opened, TypeInv, TypeOK
      <4>2. pr[p].head \in Branches
        BY <4>1 DEF Row
      <4>3. tip'[pr[p].head] = tip[pr[p].head] /\ Current(p)
        BY <1>2, <1>3, <2>3, <3>2, <4>2, ZenonT(40) DEF Current, Unmerged, Opened
      <4>4. Heard(p)
        BY <2>3, <4>3, ZenonT(40) DEF HeadInv
      <4>. QED
        BY <1>3, <2>2, <4>3, <4>4, Zenon DEF Heard, ComingKept
    <3>. QED
      BY <3>1, <3>2, Zenon
  <2>4. ASSUME faults = 0, NEW t \in Procs PROVE Timely(proc[t])'
    <3>1. Timely(proc[t])
      BY <2>4, Zenon DEF HeadInv
    <3>2. proc[t].step \in {"probe", "insert"} => proc[t].head \in Branches
      BY OwnWork, Zenon DEF Sound
    <3>3. CASE proc[t].head = b
      BY <1>3, <2>1, <3>3, Zenon DEF Timely
    <3>4. CASE proc[t].head # b
      BY <1>2, <1>3, <2>2, <3>1, <3>2, <3>4, ZenonT(40) DEF Timely, ComingKept
    <3>. QED
      BY <3>3, <3>4
  <2>. QED
    BY <1>3, <1>4, <1>6, <2>3, <2>4 DEF HeadInv
<1>. QED
  BY <1>2, <1>5, <1>6, Zenon

\* A process that writes the snapshot is the only one and has the tip, or
\* there is a synchronization to come.
LEMMA HeadSnapshot ==
    ASSUME TypeInv, HeadInv, NEW s \in Procs, CreateFill(s) \/ SyncRefresh(s) \/ UpdateRecord(s)
    PROVE  HeadInv'
<1>. DEFINE v == proc[s]
<1>1. v \in Proc /\ Sound(v) /\ v.p \in PRs /\ Opened(v.p) /\ v.boid \in Commits /\ v.hoid \in Commits
      /\ Fills(v)
  BY OwnWork, Zenon DEF CreateFill, SyncRefresh, UpdateRecord, At, Sound, Known, Fills
<1>2. UNCHANGED <<git, events, syncs, moved, crossed>> /\ v.step # "list"
  <2>1. v.step # "list"
    BY <1>1, Zenon DEF Fills
  <2>. QED
    BY <2>1, Zenon DEF CreateFill, SyncRefresh, UpdateRecord, queues
<1>3. Alone(s) /\ Enters(s) /\ ~Fills(proc'[s]) /\ Timely(proc[s])'
  <2>1. Goes(s, "idle") \/ Goes(s, "reset")
    BY GoesIdle, GoesOn, Zenon DEF CreateFill, UpdateRecord
  <2>. QED
    BY <2>1, Bystander DEF Bystands
<1>4. CASE faults' = faults + 1
  BY <1>2, <1>3, <1>4, HeadFault
<1>5. CASE pr' = [pr EXCEPT ![v.p].boid = v.boid, ![v.p].hoid = v.hoid] /\ UNCHANGED faults
  <2>. HIDE DEF v
  <2>1. /\ Wrote(v.p) /\ pr'[v.p].open = pr[v.p].open /\ pr'[v.p].merged = pr[v.p].merged
        /\ pr'[v.p].base = pr[v.p].base /\ pr'[v.p].head = pr[v.p].head
        /\ pr'[v.p].hoid = v.hoid
    BY <1>1, <1>5, SnapshotRow, ZenonT(40)
  <2>2. ComingKept
    BY <1>2, <1>3, ComingStill DEF v
  <2>3. UNCHANGED tip
    BY <1>2 DEF git
  <2>4. ASSUME faults = 0, NEW p \in PRs \ (moved \cup crossed), Current(p)' PROVE Heard(p)'
    <3>1. Current(p)
      <4>1. CASE p = v.p
        BY <1>1, <2>1, <2>3, <2>4, <4>1, Zenon DEF Current, Unmerged, Opened
      <4>2. CASE p # v.p
        BY <2>1, <2>3, <2>4, <4>2, Zenon DEF Current, Unmerged, Opened, Wrote
      <4>. QED
        BY <4>1, <4>2, Zenon
    <3>2. Heard(p)
      BY <2>4, <3>1, Zenon DEF HeadInv
    <3>3. CASE p # v.p
      <4>1. pr'[p] = pr[p] /\ (proc[s].p = p => ~Fills(proc[s]))
        BY <2>1, <3>3, Zenon DEF Wrote, v
      <4>. QED
        BY <1>2, <1>3, <2>2, <2>3, <3>2, <4>1, HeardKept, Zenon
    <3>4. CASE p = v.p /\ (Coming(pr[p].head) \/ syncs[p] > 0)
      BY <1>2, <2>1, <2>2, <3>4, Zenon DEF Heard, ComingKept
    <3>5. CASE p = v.p /\ ~Coming(pr[p].head) /\ ~(syncs[p] > 0)
      <4>1. \A t \in Procs : proc[t].p = p /\ Fills(proc[t]) => t = s
        BY <1>1, <2>4, <3>5, ZenonT(40) DEF HeadInv, OneWriter, Writers, Fills, v
      <4>2. v.hoid = tip[pr[p].head]
        BY <1>1, <3>2, <3>5, <4>1, Zenon DEF Heard, v
      <4>3. \A t \in Procs : proc'[t].p = p => ~Fills(proc'[t])
        BY <1>3, <4>1, Zenon DEF Alone
      <4>. QED
        BY <2>1, <2>3, <3>5, <4>2, <4>3, Zenon DEF Heard
    <3>. QED
      BY <3>3, <3>4, <3>5, Zenon
  <2>5. ASSUME faults = 0, NEW t \in Procs PROVE Timely(proc[t])'
    <3>1. TipsKept
      BY <2>3, Zenon DEF TipsKept
    <3>. QED
      BY <1>2, <1>3, <2>2, <2>5, <3>1, TimelyKept, Zenon DEF HeadInv, Alone
  <2>6. OneWriter'
    BY <1>2, <1>3, OneWriterStep, Zenon DEF HeadInv
  <2>. QED
    BY <1>2, <1>5, <2>4, <2>5, <2>6, ZenonT(40) DEF HeadInv
<1>. QED
  BY <1>4, <1>5, Zenon DEF CreateFill, SyncRefresh, UpdateRecord, Spend

\* The new request is filled by the Create that inserted it.
LEMMA HeadCommit ==
    ASSUME TypeInv, HeadInv, NEW s \in Procs, CreateCommit(s)
    PROVE  HeadInv'
<1>. DEFINE v == proc[s]
<1>1. /\ v.step = "insert" /\ v.p \in PRs /\ v.base \in Branches /\ v.head \in Branches
      /\ v.boid \in Commits /\ v.hoid \in Commits
  BY OwnWork, Zenon DEF CreateCommit, At, Sound, Known
<1>2. UNCHANGED <<git, events, syncs, moved, crossed>>
  BY Zenon DEF CreateCommit, queues
<1>3. CASE Done(s) /\ faults' = faults + 1
  BY <1>2, <1>3, GoesIdle, Bystander, HeadFault DEF Bystands
<1>4. CASE /\ pr' = [pr EXCEPT ![v.p] = Row0(v.base, v.head, v.boid, v.hoid)]
           /\ Begin(s, Keeping("fill", v.p, v.boid, v.hoid))
           /\ UNCHANGED faults
  <2>. HIDE DEF v
  <2>1. (\A q \in PRs : q # v.p => pr'[q] = pr[q]) /\ pr'[v.p].head = v.head
    BY <1>1, <1>4, Zenon DEF TypeInv, TypeOK, Row0
  <2>2. /\ proc'[s].step = "fill" /\ proc'[s].p = v.p /\ proc'[s].hoid = v.hoid /\ Alone(s)
    <3>1. Keeps(Keeping("fill", v.p, v.boid, v.hoid), "fill", v.p, v.boid, v.hoid)
      BY <1>1, Keepers, KeepingWork, Zenon
    <3>. QED
      BY <1>4, <3>1, BeginEffect, Zenon DEF Keeps, Alone, TypeInv
  <2>3. Enters(s)
    BY <1>1, <2>2, Zenon DEF Enters, Writes, v
  <2>4. ComingKept /\ UNCHANGED tip
    BY <1>1, <1>2, <2>2, ComingStill, Zenon DEF git, v
  <2>5. ASSUME faults = 0, NEW p \in PRs \ (moved \cup crossed), Current(p)' PROVE Heard(p)'
    <3>1. CASE p # v.p
      <4>1. pr'[p] = pr[p] /\ proc[s].p # p /\ proc'[s].p # p
        BY <2>1, <2>2, <3>1, Zenon DEF v
      <4>2. Current(p)
        BY <2>4, <2>5, <4>1 DEF Current, Unmerged, Opened
      <4>3. Heard(p)
        BY <2>5, <4>2, Zenon DEF HeadInv
      <4>. QED
        BY <1>2, <2>2, <2>4, <4>1, <4>3, HeardKept, Zenon
    <3>2. CASE p = v.p
      <4>1. tip[v.head] \in {None, v.hoid} \/ Coming(v.head)
        BY <1>1, <2>5, <3>2, Zenon DEF HeadInv, Timely, v
      <4>2. CASE Coming(v.head)
        BY <2>1, <2>4, <3>2, <4>2, Zenon DEF Heard, ComingKept
      <4>3. CASE tip[v.head] \in {None, v.hoid}
        <5>1. tip'[v.head] = v.hoid
          BY <2>1, <2>4, <2>5, <3>2, <4>3, Zenon DEF Current
        <5>2. Fills(proc'[s])
          BY <2>2, Zenon DEF Fills
        <5>. QED
          BY <2>1, <2>2, <3>2, <5>1, <5>2, Zenon DEF Heard
      <4>. QED
        BY <4>1, <4>2, <4>3, Zenon
    <3>. QED
      BY <3>1, <3>2, Zenon
  <2>6. ASSUME faults = 0, NEW t \in Procs PROVE Timely(proc[t])'
    <3>1. TipsKept
      BY <2>4, Zenon DEF TipsKept
    <3>2. CASE t # s
      BY <1>2, <2>2, <2>4, <2>6, <3>1, <3>2, TimelyKept, Zenon DEF HeadInv, Alone
    <3>3. CASE t = s
      BY <2>2, <3>3 DEF Timely
    <3>. QED
      BY <3>2, <3>3
  <2>7. OneWriter'
    BY <1>2, <2>2, <2>3, OneWriterStep DEF HeadInv
  <2>. QED
    BY <1>2, <1>4, <2>5, <2>6, <2>7 DEF HeadInv
<1>. QED
  BY <1>3, <1>4, Zenon DEF CreateCommit, Spend

\* A synchronization has resolved the tip it will record.
LEMMA HeadSync ==
    ASSUME TypeInv, HeadInv, NEW s \in Procs, NEW q \in PRs, SyncResolve(s, q)
    PROVE  HeadInv'
<1>1. /\ UNCHANGED <<git, pr, events, faults, moved>> /\ At(s, "idle")
      /\ syncs' = [syncs EXCEPT ![q] = @ - 1] /\ syncs[q] > 0
  BY Zenon DEF SyncResolve
<1>2. UNCHANGED tip /\ TipsKept
  BY <1>1, Zenon DEF git, TipsKept
<1>3. \A p \in PRs : p # q => syncs'[p] = syncs[p]
  BY <1>1 DEF TypeInv, TypeOK
<1>4. pr[q] \in Row
  BY <1>1, ZenonT(40) DEF TypeInv, TypeOK, RowsOK, Opened
<1>5. ASSUME Alone(s), Enters(s), crossed \subseteq crossed', Timely(proc[s]) => Timely(proc[s])',
             proc'[s].p # q => ~Fills(proc'[s]), proc'[s].p \in PRs => proc'[s].p = q,
             q \notin crossed' /\ Current(q) => Heard(q)'
      PROVE  HeadInv'
  <2>1. ComingKept
    BY <1>1, <1>5, ComingStill DEF At
  <2>2. ASSUME faults = 0, NEW p \in PRs \ (moved \cup crossed'), Current(p) PROVE Heard(p)'
    <3>1. CASE p # q
      <4>1. Heard(p)
        BY <1>5, <2>2, Zenon DEF HeadInv
      <4>2. ~Fills(proc[s]) /\ proc'[s].p # p
        BY <1>1, <1>5, <3>1, Zenon DEF Fills, At
      <4>. QED
        BY <1>1, <1>2, <1>3, <1>5, <2>1, <3>1, <4>1, <4>2, HeardKept, Zenon
    <3>. QED
      BY <1>5, <2>2, <3>1, Zenon
  <2>3. ASSUME faults = 0, NEW t \in Procs PROVE Timely(proc[t])'
    BY <1>2, <1>5, <2>1, <2>3, TimelyKept, Zenon DEF HeadInv, Alone
  <2>4. OneWriter'
    BY <1>5, OneWriterStep DEF HeadInv
  <2>5. \A p \in PRs : Current(p)' => Current(p)
    BY <1>1, <1>2, Zenon DEF Current, Unmerged, Opened
  <2>. QED
    BY <1>1, <1>5, <2>2, <2>3, <2>4, <2>5, Zenon DEF HeadInv
<1>6. CASE UNCHANGED proc /\ crossed' = crossed \cup {q}
  <2>1. proc'[s] = proc[s] /\ proc[s].p = None /\ ~Fills(proc[s]) /\ ~Writes(proc[s])
    BY <1>1, <1>6, OwnWork, Zenon DEF At, Sound, Fills, Writes
  <2>2. q \in crossed' /\ crossed \subseteq crossed'
    BY <1>6, Zenon
  <2>3. Alone(s) /\ Enters(s) /\ Timely(proc[s])'
    BY <1>1, <1>6, <2>1, Zenon DEF Alone, Enters, Timely, At
  <2>4. None \notin PRs
    BY PullAssumption
  <2>. QED
    BY <1>5, <2>1, <2>2, <2>3, <2>4, Zenon
<1>7. CASE /\ Begin(s, Keeping("sync", q, tip[pr[q].base], tip[pr[q].head]))
           /\ tip[pr[q].base] # None /\ tip[pr[q].head] # None /\ Overlap(q)
  <2>1. tip[pr[q].base] \in Commits /\ tip[pr[q].head] \in Commits
    BY <1>4, <1>7 DEF Row, TypeInv, TypeOK
  <2>2. Keeps(Keeping("sync", q, tip[pr[q].base], tip[pr[q].head]), "sync", q,
              tip[pr[q].base], tip[pr[q].head])
    BY <2>1, Keepers, KeepingWork, Zenon
  <2>3. /\ proc'[s].step = "sync" /\ proc'[s].p = q /\ proc'[s].hoid = tip[pr[q].head]
        /\ Alone(s)
    BY <1>7, <2>2, BeginEffect, ZenonT(40) DEF Keeps, Alone, TypeInv
  <2>4. Enters(s) /\ crossed \subseteq crossed'
    BY <1>7, <2>3, Zenon DEF Enters, Overlap, Writers, Writes
  <2>5. Fills(proc'[s]) /\ Timely(proc[s])'
    BY <2>3, Zenon DEF Fills, Timely
  <2>6. Heard(q)'
    BY <1>1, <1>2, <2>3, <2>5, Zenon DEF Heard
  <2>. QED
    BY <1>5, <2>3, <2>4, <2>5, <2>6, Zenon
<1>. QED
  BY <1>6, <1>7, Zenon DEF SyncResolve

\* The branch b moves; of the requests it is the head of, only q hears of it.
LEMMA HeadMoves ==
    ASSUME TypeInv, HeadInv, NEW s \in Procs, NEW b \in Branches, NEW q \in PRs, Opened(q),
           Alone(s), Enters(s), Unheard(q, b), \A c \in Branches : c # b => tip'[c] = tip[c],
           UNCHANGED <<pr, events, syncs, faults, moved>>, proc[s].step # "list",
           ~Fills(proc[s]), proc'[s].step \notin {"probe", "insert"},
           proc'[s].p = q \/ ~Fills(proc'[s]),
           pr[q].head = b => Heard(q)',
           pr[q].head # b => ~Fills(proc'[s])
    PROVE  HeadInv'
<1>1. crossed \subseteq crossed'
  BY Zenon DEF Unheard
<1>2. ComingKept
  BY ComingStill, Zenon
<1>3. ASSUME faults = 0, NEW p \in PRs \ (moved \cup crossed'), Current(p)' PROVE Heard(p)'
  <2>1. pr[p] \in Row /\ Unmerged(p) /\ pr[p].open
    BY <1>3, Zenon DEF Current, Unmerged, Opened, TypeInv, TypeOK
  <2>2. pr[p].head \in Branches
    BY <2>1, Zenon DEF Row
  <2>3. CASE p = q /\ pr[q].head = b
    BY <2>3, Zenon
  <2>4. CASE p # q \/ pr[q].head # b
    <3>1. pr[p].head # b
      BY <1>3, <2>1, <2>4, Zenon DEF Unheard, Unmerged
    <3>2. tip'[pr[p].head] = tip[pr[p].head] /\ Current(p)
      BY <1>3, <2>1, <2>2, <3>1, Zenon DEF Current
    <3>3. Heard(p)
      BY <1>1, <1>3, <3>2 DEF HeadInv
    <3>4. proc'[s].p = p => ~Fills(proc'[s])
      BY <2>4, Zenon
    <3>. QED
      BY <1>2, <3>2, <3>3, <3>4, HeardKept, Zenon
  <2>. QED
    BY <2>3, <2>4, Zenon
<1>4. ASSUME faults = 0, NEW t \in Procs PROVE Timely(proc[t])'
  <2>1. CASE t = s
    BY <2>1, Zenon DEF Timely
  <2>2. CASE t # s
    <3>. SUFFICES ASSUME proc[t].step \in {"probe", "insert"}, proc[t].p \notin crossed'
                  PROVE  tip'[proc[t].head] \in {None, proc[t].hoid} \/ Coming(proc[t].head)'
      BY <2>2, Zenon DEF Timely, Alone
    <3>1. proc[t].p \in PRs /\ proc[t].head \in Branches /\ ~Opened(proc[t].p)
      BY OwnWork, Zenon DEF Sound
    <3>2. proc[t].head # b
      BY <3>1, Zenon DEF Unheard
    <3>3. tip[proc[t].head] \in {None, proc[t].hoid} \/ Coming(proc[t].head)
      BY <1>1, <1>4, Zenon DEF HeadInv, Timely
    <3>4. CASE Coming(proc[t].head)
      BY <1>2, <2>2, <3>4, Zenon DEF ComingKept, Alone
    <3>5. CASE tip[proc[t].head] \in {None, proc[t].hoid}
      BY <3>1, <3>2, <3>5, Zenon
    <3>. QED
      BY <3>3, <3>4, <3>5, Zenon
  <2>. QED
    BY <2>1, <2>2
<1>5. OneWriter'
  BY <1>1, OneWriterStep DEF HeadInv
<1>. QED
  BY <1>3, <1>4, <1>5 DEF HeadInv

\* A merge moves its base, which is not the head of its own request.
LEMMA HeadMergePerform ==
    ASSUME TypeInv, HeadInv, NEW s \in Procs, MergePerform(s)
    PROVE  HeadInv'
<1>. DEFINE v == proc[s]
<1>1. /\ v.step = "perform" /\ v.p \in PRs /\ Opened(v.p) /\ v.base \in Branches
      /\ v.base # pr[v.p].head
  BY OwnWork, Zenon DEF MergePerform, Sound, Locks, At
<1>2. \A c \in Branches : c # v.base => tip'[c] = tip[c]
  BY MergePerformMove, Zenon
<1>3. UNCHANGED <<pr, events, syncs, faults, moved>> /\ Unheard(v.p, v.base)
  BY Zenon DEF MergePerform, queues
<1>4. Goes(s, "close")
  BY GoesOn, Zenon
<1>5. Alone(s) /\ Enters(s) /\ ~Fills(proc'[s])
  BY <1>4, Bystander DEF Bystands
<1>6. proc[s].step # "list" /\ ~Fills(proc[s]) /\ proc'[s].step \notin {"probe", "insert"}
  BY <1>1, <1>4, Zenon DEF Fills, Goes
<1>. HIDE DEF v
<1>. QED
  BY <1>1, <1>2, <1>3, <1>5, <1>6, HeadMoves, Zenon

\* update-branch moves the head, and its own request will record that.
LEMMA HeadUpdatePerform ==
    ASSUME TypeInv, HeadInv, NEW s \in Procs, UpdatePerform(s)
    PROVE  HeadInv'
<1>. DEFINE v == proc[s]
<1>1. /\ v.step = "update" /\ v.p \in PRs /\ Opened(v.p) /\ v.head \in Branches
      /\ v.head = pr[v.p].head
  BY OwnWork, Zenon DEF UpdatePerform, Sound, At
<1>2. /\ UNCHANGED <<pr, events, syncs, faults, moved>>
  BY Zenon DEF UpdatePerform, queues
<1>3. proc[s].step # "list" /\ ~Fills(proc[s])
  BY <1>1, Zenon DEF Fills
<1>4. CASE Done(s)
  <2>1. UNCHANGED <<git, crossed>>
    BY <1>4, UpdateEnds, Zenon
  <2>2. TipsKept /\ HeadsKept /\ crossed \subseteq crossed'
    BY <1>2, <2>1, Zenon DEF git, TipsKept, HeadsKept, Unmerged, Opened
  <2>3. Alone(s) /\ Enters(s) /\ ~Fills(proc'[s]) /\ Timely(proc[s])'
    BY <1>4, GoesIdle, Bystander DEF Bystands
  <2>4. ComingKept
    BY <1>2, <1>3, <2>3, ComingStill
  <2>. QED
    BY <1>2, <1>3, <2>2, <2>3, <2>4, HeadQuiet, Zenon
<1>5. CASE ~Done(s)
  <2>1. PICK n \in Commits, w \in Proc :
          /\ Begin(s, w) /\ w.step = "record" /\ w.p = v.p /\ w.hoid = n
          /\ tip'[v.head] = n
          /\ \A c \in Branches : c # v.head => tip'[c] = tip[c]
          /\ Unheard(v.p, v.head)
    BY <1>5, UpdatePerformMove, Zenon
  <2>2. proc'[s] = w /\ Alone(s)
    BY <2>1, BeginEffect, Zenon DEF TypeInv, Alone
  <2>3. Enters(s) /\ Fills(proc'[s]) /\ proc'[s].step \notin {"probe", "insert"}
    BY <1>1, <2>1, <2>2, ZenonT(40) DEF Enters, Writes, Fills
  <2>4. PICK q \in PRs : q = v.p
    BY <1>1, Zenon
  <2>. HIDE DEF v
  <2>5. Heard(q)'
    BY <1>1, <1>2, <2>1, <2>2, <2>3, <2>4, Zenon DEF Heard
  <2>. QED
    BY <1>1, <1>2, <1>3, <2>1, <2>2, <2>3, <2>4, <2>5, HeadMoves, Zenon
<1>. QED
  BY <1>4, <1>5

\* HeadInv holds at the start, and
LEMMA HeadInit == Init => HeadInv
<1>. SUFFICES ASSUME Init PROVE HeadInv
  OBVIOUS
<1>1. (\A s \in Procs : proc[s].step = "idle") /\ \A p \in PRs : ~Opened(p)
  BY IdleWork, Zenon DEF Init, Opened
<1>. QED
  BY <1>1 DEF HeadInv, OneWriter, Writers, Current, Unmerged, Timely

\* every step keeps it.
LEMMA HeadStep == TypeInv /\ HeadInv /\ [Next]_vars => HeadInv'
<1>. SUFFICES ASSUME TypeInv, HeadInv, [Next]_vars PROVE HeadInv'
  OBVIOUS
<1>1. CASE UNCHANGED vars
  <2>. UNCHANGED <<tip, pr, events, syncs, proc, faults, moved, crossed>>
    BY <1>1, Zenon DEF vars
  <2>1. OneWriter'
    BY SMTT(40) DEF HeadInv, OneWriter, Writers
  <2>2. \A b : Coming(b)' <=> Coming(b)
    BY Zenon DEF Coming, At
  <2>3. ASSUME NEW q \in PRs PROVE (Current(q)' <=> Current(q)) /\ (Heard(q)' <=> Heard(q))
    BY <2>2, Zenon DEF Current, Unmerged, Opened, Heard
  <2>4. ASSUME NEW t \in Procs, Timely(proc[t]) PROVE Timely(proc[t])'
    BY <2>2, <2>4, Zenon DEF Timely
  <2>. QED
    BY <2>1, <2>3, <2>4, Zenon DEF HeadInv
<1>2. CASE \E b \in Branches : Push(b) \/ PushDelete(b)
  BY <1>2, HeadPush
<1>3. ASSUME NEW s \in Procs,
             \/ \E p \in PRs : Mergeability(s, p) \/ DeleteRead(s, p)
             \/ \E p \in PRs, m \in Methods : MergeLock(s, p, m)
             \/ \E p \in PRs, o \in {"open", "closed"} : StateRead(s, p, o)
             \/ \E p \in PRs, b \in Branches : BaseResolve(s, p, b)
             \/ MergeGate(s) \/ MergeFails(s) \/ DeleteHead(s)
             \/ SyncReset(s) \/ Judge(s) \/ StateWrite(s) \/ BaseWrite(s) \/ MergeCommit(s)
      PROVE  HeadInv'
  BY <1>3, HeadReads, Zenon
<1>4. ASSUME NEW s \in Procs,
             \/ \E p \in PRs, b, h \in Branches : CreateResolve(s, p, b, h)
             \/ CreateProbe(s)
             \/ \E p \in PRs, m \in {"merge", "rebase"} : UpdateRead(s, p, m)
      PROVE  HeadInv'
  BY <1>4, HeadBegins, ZenonT(40)
<1>5. ASSUME NEW s \in Procs, SyncLost(s) \/ MergeTorn(s) PROVE HeadInv'
  <2>1. Goes(s, "idle") /\ faults' = faults + 1 /\ UNCHANGED crossed
    BY <1>5, GoesIdle, Zenon DEF SyncLost, MergeTorn, Spend
  <2>. QED
    BY <2>1, Bystander, HeadFault, ZenonT(40) DEF Bystands
<1>6. ASSUME NEW s \in Procs,
             \/ \E e \in events : ProcessPush(s, e)
             \/ ListPRs(s) \/ CreateCommit(s)
             \/ \E p \in PRs : SyncResolve(s, p)
             \/ CreateFill(s) \/ SyncRefresh(s) \/ UpdateRecord(s)
             \/ MergePerform(s) \/ UpdatePerform(s)
      PROVE  HeadInv'
  BY <1>6, HeadProcess, HeadList, HeadCommit, HeadSync, HeadSnapshot, HeadMergePerform,
     HeadUpdatePerform
<1>. QED
  BY <1>1, <1>2, <1>3, <1>4, <1>5, <1>6, Zenon DEF Next

\* Once push events and synchronizations have drained, an open request shows
\* the tip of its head branch, unless a fault lost something, it was reopened
\* or retargeted, its head moved unheard, its synchronization was given up over
\* a missing branch or two writers of its snapshot overlapped.
THEOREM HeadIsFresh == Spec => []HeadFresh
<1>1. HeadInv => HeadFresh
  <2>. SUFFICES ASSUME HeadInv, Quiet, faults = 0, NEW p \in PRs \ (moved \cup crossed),
                       Current(p), syncs[p] = 0
                PROVE  pr[p].hoid = tip[pr[p].head]
    BY Zenon DEF HeadFresh, Current
  <2>1. ~Coming(pr[p].head) /\ \A s \in Procs : ~Fills(proc[s])
    BY Zenon DEF Quiet, Coming, Fills, At
  <2>2. Heard(p) /\ ~(syncs[p] > 0)
    BY SMTT(40) DEF HeadInv
  <2>. QED
    BY <2>1, <2>2, Zenon DEF Heard
<1>. QED
  BY <1>1, TypeInit, TypeStep, HeadInit, HeadStep, PTL DEF Spec
=============================================================================
