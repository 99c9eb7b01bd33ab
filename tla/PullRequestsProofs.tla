------------------------- MODULE PullRequestsProofs -------------------------
(***************************************************************************)
(* Proofs about PullRequests for any branches, requests, processes,        *)
(* commits, user requests and faults.                                      *)
(***************************************************************************)
EXTENDS PullRequests, TLAPS

(* The inductive invariant *)

Known == {c \in Commits : Exists(c)}

\* The row lock of Merge.
Locks(w) == w.step \in {"gate", "perform", "close"}

\* What the process in the middle of w knows: for a request that is being
\* created, that nobody else has its number; for any other, that it exists.
Sound(w) ==
    /\ w.step \in {"idle", "list"} => w.p = None
    /\ w.step \notin {"idle", "list"} => w.p \in PRs
    /\ w.step = "list" => w.base \in Branches /\ (w.base = Default => w.hoid \in Commits)
    /\ w.step \in {"probe", "insert"} =>
          /\ ~Opened(w.p)
          /\ w.base \in Branches /\ w.head \in Branches /\ w.base # w.head
    /\ w.step \notin {"idle", "list", "probe", "insert"} => Opened(w.p)
    /\ w.step \in {"probe", "insert", "fill", "sync", "judge", "gate", "perform",
                   "close", "update", "record"} =>
          w.boid \in Known /\ w.hoid \in Known
    /\ Locks(w) => /\ pr[w.p].merged = None
                   /\ w.base \in Branches /\ w.base # pr[w.p].head
    /\ w.step = "base" => /\ w.base \in Branches /\ w.base # pr[w.p].head
                          /\ w.boid \in Known
    /\ w.step = "update" => /\ w.base \in Branches /\ w.head \in Branches
                            /\ w.head = pr[w.p].head
    /\ w.step = "delete" => /\ w.head = pr[w.p].head /\ w.head # Default
                            /\ pr[w.p].merged # None
    /\ w.step = "state" => w.aim \in {"open", "closed"}

ProcsOK ==
    /\ \A s \in Procs : Sound(proc[s])
    /\ \A s, t \in Procs : s # t /\ proc[s].p = proc[t].p =>
          /\ proc[s].step \notin {"probe", "insert"}
          /\ ~(Locks(proc[s]) /\ Locks(proc[t]))

\* Every commit that is named somewhere exists; the default branch stays.
RowsOK ==
    /\ tip[Default] # None
    /\ \A b \in Branches : tip[b] # None => tip[b] \in Known
    /\ \A e \in events : e.ref = Default => e.after \in Commits
    /\ \A p \in PRs : Opened(p) =>
          /\ pr[p].boid \in Known /\ pr[p].hoid \in Known
          /\ pr[p].base # pr[p].head
    /\ \A p \in PRs : syncs[p] > 0 => Opened(p)

TypeInv == TypeOK /\ RowsOK /\ ProcsOK

-----------------------------------------------------------------------------
Closing(p, l) ==
    \E s \in Procs : /\ At(s, "close") /\ proc[s].p = p
                     /\ l = [on |-> proc[s].base, commit |-> proc[s].boid, head |-> proc[s].hoid]

\* What has landed: by whom it is, or will be, recorded, and where it still is.
LandInv ==
    /\ \A p \in PRs : \A l \in landed[p] :
          /\ Opened(p) /\ l.on # pr[p].head /\ l.head \in Known
          /\ l.on = Default /\ "force" \in Rules[Default] =>
                has[l.head] \subseteq has[tip[Default]]
    /\ \A p \in PRs : Opened(p) /\ pr[p].merged # None =>
          \E l \in landed[p] : l.commit = pr[p].merged /\ l.head = pr[p].mhead
    /\ \A p \in PRs \ torn :
          \/ landed[p] = {}
          \/ \E l \in landed[p] : /\ landed[p] = {l}
                                  /\ (Opened(p) /\ pr[p].merged # None) \/ Closing(p, l)
    /\ \A s \in Procs : At(s, "close") =>
          [on |-> proc[s].base, commit |-> proc[s].boid, head |-> proc[s].hoid]
              \in landed[proc[s].p]

\* The open requests of a pair of branches, with those about to be inserted.
PairInv ==
    /\ OneOpenPerPair
    /\ \A s \in Procs : At(s, "insert") =>
          /\ \A q \in PRs \ moved : ~(Opened(q) /\ pr[q].open /\ pr[q].base = proc[s].base
                                      /\ pr[q].head = proc[s].head)
          /\ \A t \in Procs \ {s} : At(t, "insert") =>
                <<proc[t].base, proc[t].head>> # <<proc[s].base, proc[s].head>>

-----------------------------------------------------------------------------
\* A move of b that push:process has still to tell the requests about.
Coming(b) ==
    \/ \E e \in events : e.ref = b
    \/ \E s \in Procs : At(s, "list") /\ proc[s].base = b

Fills(w) == w.step \in {"fill", "sync", "record"}

\* The head of p is recorded, or will be.
Heard(p) ==
    LET t == tip[pr[p].head]
    IN  \/ Coming(pr[p].head) \/ syncs[p] > 0
        \/ \E s \in Procs : proc[s].p = p /\ Fills(proc[s]) /\ proc[s].hoid = t
        \/ pr[p].hoid = t /\ \A s \in Procs : proc[s].p = p => ~Fills(proc[s])

\* The snapshot of a request has one writer at a time.
OneWriter == \A p \in PRs \ crossed : \A s, t \in Writers(p) : s = t

\* An open request whose head branch exists.
Current(p) == Unmerged(p) /\ pr[p].open /\ tip[pr[p].head] # None

\* What a Create resolved is still so, or it will be told.
Timely(w) ==
    w.step \in {"probe", "insert"} /\ w.p \notin crossed =>
        tip[w.head] \in {None, w.hoid} \/ Coming(w.head)

HeadInv ==
    /\ OneWriter
    /\ faults = 0 =>
          /\ \A p \in PRs \ (moved \cup crossed) : Current(p) => Heard(p)
          /\ \A s \in Procs : Timely(proc[s])

\* The default branch is at a commit x that somebody recorded or will record,
\* or at one of update-branch, which nobody does.
IsDefault(x) == x = tip[Default] \/ tip[Default] \in updated

DefaultInv ==
    faults = 0 /\ ~mixed =>
        /\ \A e \in events : e.ref = Default => IsDefault(e.after)
        /\ \A s \in Procs : At(s, "close") /\ proc[s].base = Default => IsDefault(proc[s].boid)
        /\ \/ IsDefault(doid)
           \/ \E e \in events : e.ref = Default
           \/ \E s \in Procs : At(s, "close") /\ proc[s].base = Default

-----------------------------------------------------------------------------
(* Work in progress *)

\* The records a process keeps are typed and hold what was put into them.
LEMMA IdleWork == Idle \in Proc /\ Idle.step = "idle" /\ Idle.p = None
BY Zenon DEF Idle, Proc, Steps

\* The records the handlers build are records: of a step on a request,
LEMMA OnWork ==
    ASSUME NEW step \in Steps, NEW p \in PRs
    PROVE  /\ On(step, p) \in Proc
           /\ On(step, p).step = step /\ On(step, p).p = p
BY Zenon DEF On, Idle, Proc

\* The steps a process keeps two commits for.
LEMMA Keepers ==
    "probe" \in Steps /\ "fill" \in Steps /\ "sync" \in Steps /\ "judge" \in Steps /\ "record" \in Steps
BY Zenon DEF Steps

\* w is at the step, on the request p, with the commits x and y.
Keeps(w, step, p, x, y) ==
    w \in Proc /\ w.step = step /\ w.p = p /\ w.boid = x /\ w.hoid = y

\* ... of one that keeps two commits,
LEMMA KeepingWork ==
    ASSUME NEW step \in Steps, NEW p \in PRs, NEW x \in Commits, NEW y \in Commits
    PROVE  Keeps(Keeping(step, p, x, y), step, p, x, y)
BY Zenon DEF Keeps, Keeping, On, Idle, Proc

\* w is at the step with what the row of p has.
Loads(w, step, p, m) ==
    /\ Keeps(w, step, p, pr[p].boid, pr[p].hoid)
    /\ w.base = pr[p].base /\ w.head = pr[p].head /\ w.aim = m

\* ... and of one that keeps a row.
LEMMA LoadedWork ==
    ASSUME NEW step \in Steps, NEW p \in PRs, NEW m \in Methods, pr[p] \in Row
    PROVE  Loads(Loaded(step, p, m), step, p, m)
<1>. DEFINE k == Keeping(step, p, pr[p].boid, pr[p].hoid)
<1>1. pr[p].boid \in Commits /\ pr[p].hoid \in Commits
  BY Zenon DEF Row
<1>2. /\ k \in Proc /\ k.step = step /\ k.p = p
      /\ k.boid = pr[p].boid /\ k.hoid = pr[p].hoid
  <2>1. Keeps(k, step, p, pr[p].boid, pr[p].hoid)
    BY <1>1, KeepingWork, Zenon
  <2>. QED
    BY <2>1, Zenon DEF Keeps
<1>3. Loaded(step, p, m) = [k EXCEPT !.base = pr[p].base, !.head = pr[p].head, !.aim = m]
  BY Zenon DEF Loaded
<1>. HIDE DEF k
<1>. QED
  BY <1>2, <1>3, Zenon DEF Loads, Keeps, Proc, Row

\* One process moves on and the others stay.
LEMMA BeginEffect ==
    ASSUME TypeOK, NEW s \in Procs, NEW w \in Proc, Begin(s, w)
    PROVE  /\ proc' \in [Procs -> Proc] /\ proc'[s] = w
           /\ \A t \in Procs : t # s => proc'[t] = proc[t]
BY Zenon DEF TypeOK, Begin

-----------------------------------------------------------------------------
(* Types *)

\* What no step takes back.
Grown ==
    /\ \A c \in Known : c \in Known'
    /\ \A p \in PRs : Opened(p) =>
          /\ pr'[p] # None /\ pr'[p].head = pr[p].head
          /\ pr[p].merged # None => pr'[p].merged # None

\* The other processes are left what they rely on.
Spared(s) ==
    \A t \in Procs \ {s} :
        /\ proc[t].step \in {"probe", "insert"} => pr'[proc[t].p] = None
        /\ Locks(proc[t]) => pr'[proc[t].p].merged = None

\* s may go on with w beside the other processes.
Apart(s, w) ==
    \A t \in Procs \ {s} : proc[t].p = w.p =>
        w.step \notin {"probe", "insert"} /\ ~(Locks(w) /\ Locks(proc[t]))

\* Everything else that TypeOK asks for, but for processes.
RestOK ==
    /\ events \subseteq Event /\ syncs \in [PRs -> 0 .. MaxSyncs]
    /\ doid \in Commits
    /\ faults \in 0 .. MaxFaults /\ requests \in 0 .. MaxRequests
    /\ landed \in [PRs -> SUBSET Landing]
    /\ torn \subseteq PRs /\ moved \subseteq PRs /\ crossed \subseteq PRs
    /\ mixed \in BOOLEAN /\ updated \subseteq Commits
    /\ \A e \in events : e.ref = Default => e.after \in Commits
GitOK ==
    /\ tip \in [Branches -> Commits \cup {None}]
    /\ anc \in [Commits -> SUBSET Commits] /\ has \in [Commits -> SUBSET Commits]
    /\ \A b \in Branches : tip[b] # None => tip[b] \in Known
    /\ tip[Default] # None
TableOK ==
    /\ pr \in [PRs -> Row \cup {None}]
    /\ \A p \in PRs : Opened(p) =>
          /\ (pr[p].merged = None <=> pr[p].mhead = None)
          /\ pr[p].boid \in Known /\ pr[p].hoid \in Known
          /\ pr[p].base # pr[p].head
    /\ \A p \in PRs : syncs[p] > 0 => Opened(p)

\* TypeInv falls into groups of variables.
LEMMA TypeGroups ==
    /\ TypeInv <=> RestOK /\ GitOK /\ TableOK /\ proc \in [Procs -> Proc] /\ ProcsOK
    /\ TypeInv' <=> RestOK' /\ GitOK' /\ TableOK' /\ proc' \in [Procs -> Proc] /\ ProcsOK'
BY Zenon DEF TypeInv, TypeOK, RowsOK, RestOK, GitOK, TableOK

\* The processes after a step of s.
LEMMA ProcsStep ==
    ASSUME TypeInv, NEW s \in Procs, NEW w \in Proc, Begin(s, w),
           Sound(w)', Apart(s, w), Grown, Spared(s)
    PROVE  proc' \in [Procs -> Proc] /\ ProcsOK'
<1>1. /\ proc' \in [Procs -> Proc] /\ proc'[s] = w
      /\ \A t \in Procs : t # s => proc'[t] = proc[t]
  BY BeginEffect, Zenon DEF TypeInv
<1>2. ASSUME NEW t \in Procs, t # s PROVE Sound(proc[t])'
  <2>. DEFINE v == proc[t]
  <2>1. Sound(v) /\ v \in Proc
    BY Zenon DEF TypeInv, TypeOK, ProcsOK
  <2>2. /\ v.step \in {"probe", "insert"} => pr'[v.p] = None
        /\ Locks(v) => pr'[v.p].merged = None
    BY <1>2, Zenon DEF Spared
  <2>3. proc'[t] = v
    BY <1>1, <1>2, Zenon
  <2>. HIDE DEF v
  <2>. QED
    BY <2>1, <2>2, <2>3 DEF Sound, Grown, Opened, Locks, Proc
<1>3. \A t \in Procs : Sound(proc[t])'
  BY <1>1, <1>2, Zenon
<1>4. ASSUME NEW t \in Procs, NEW u \in Procs, t # u, proc'[t].p = proc'[u].p
      PROVE  proc'[t].step \notin {"probe", "insert"} /\ ~(Locks(proc'[t]) /\ Locks(proc'[u]))
  <2>1. CASE t # s /\ u # s
    BY <1>1, <1>4, <2>1, Zenon DEF TypeInv, ProcsOK
  <2>2. CASE t = s
    BY <1>1, <1>4, <2>2, SMTT(40) DEF Apart
  <2>3. CASE u = s
    <3>1. proc'[t] = proc[t] /\ proc[t].p = w.p /\ proc'[u] = w
      BY <1>1, <1>4, <2>3
    <3>2. ~(Locks(w) /\ Locks(proc[t])) /\ w.step \notin {"probe", "insert"}
      BY <1>4, <2>3, <3>1, Zenon DEF Apart
    <3>3. proc[t].step \in {"probe", "insert"} => pr'[proc[t].p] = None /\ proc[t].p \in PRs
      BY <1>4, <2>3, Zenon DEF Spared, TypeInv, ProcsOK, Sound
    <3>4. w.p \in PRs => pr'[w.p] # None
      BY <3>2, PullAssumption, Zenon DEF Sound, Opened
    <3>. QED
      BY <3>1, <3>2, <3>3, <3>4, Zenon
  <2>. QED
    BY <2>1, <2>2, <2>3, Zenon
<1>. QED
  BY <1>1, <1>3, <1>4, Zenon DEF ProcsOK

\* A step that writes neither rows nor branches.
LEMMA ReadStep ==
    ASSUME TypeInv, NEW s \in Procs, NEW w \in Proc, Begin(s, w), Sound(w), Apart(s, w),
           UNCHANGED <<git, pr>>, RestOK', \A p \in PRs : syncs'[p] > 0 => Opened(p)
    PROVE  TypeInv'
<1>1. UNCHANGED <<tip, anc, has, pr>>
  BY Zenon DEF git
<1>2. Sound(w)'
  BY <1>1, Zenon DEF Sound, Opened, Known, Exists, Locks
<1>3. Grown
  BY <1>1, Zenon DEF Grown, Known, Exists, Opened
<1>4. Spared(s)
  BY <1>1, SMTT(40) DEF Spared, TypeInv, ProcsOK, Sound, Opened
<1>5. GitOK' /\ TableOK'
  BY <1>1, TypeGroups, Zenon DEF GitOK, TableOK, Known, Exists, Opened
<1>. QED
  BY <1>2, <1>3, <1>4, <1>5, ProcsStep, TypeGroups, Zenon

\* A process that is through.
LEMMA IdleSound == Sound(Idle) /\ \A s \in Procs : TypeInv => Apart(s, Idle)
BY IdleWork DEF Sound, Locks, Apart

\* A process that takes up a request that exists, or goes on with its own.
LEMMA ApartOpened ==
    ASSUME TypeInv, NEW s \in Procs, NEW w \in Proc,
           w.step \notin {"probe", "insert"},
           Locks(w) => LockFree(w.p) \/ (Locks(proc[s]) /\ proc[s].p = w.p)
    PROVE  Apart(s, w)
BY Zenon DEF Apart, TypeInv, ProcsOK, LockFree, Locks

\* What the steps that begin something keep.
LEMMA ProcessPushMove ==
    ASSUME TypeInv, NEW s \in Procs, NEW e \in events, ProcessPush(s, e)
    PROVE  \E w \in Proc : /\ Begin(s, w) /\ w.step = "list" /\ w.p = None
                           /\ w.base = e.ref /\ w.hoid = e.after
<1>. DEFINE w == [Idle EXCEPT !.step = "list", !.base = e.ref, !.hoid = e.after]
<1>1. e \in Event
  BY Zenon DEF TypeInv, TypeOK
<1>2. w \in Proc /\ w.step = "list" /\ w.p = None /\ w.base = e.ref /\ w.hoid = e.after
  BY <1>1, Zenon DEF Idle, Proc, Steps, Event
<1>3. Begin(s, w)
  BY Zenon DEF ProcessPush
<1>. HIDE DEF w
<1>. QED
  BY <1>2, <1>3, Zenon

\* What each handler has in hand when it goes on: Create has resolved both branches;
LEMMA CreateResolveMove ==
    ASSUME TypeInv, NEW s \in Procs, NEW p \in PRs, NEW b \in Branches, NEW h \in Branches,
           CreateResolve(s, p, b, h)
    PROVE  \E w \in Proc : /\ Begin(s, w) /\ w.step = "probe" /\ w.p = p
                           /\ w.base = b /\ w.head = h /\ w.boid = tip[b] /\ w.hoid = tip[h]
<1>. DEFINE k == Keeping("probe", p, tip[b], tip[h])
            w == [k EXCEPT !.base = b, !.head = h]
<1>1. tip[b] \in Commits /\ tip[h] \in Commits
  BY DEF CreateResolve, TypeInv, TypeOK
<1>2. k \in Proc /\ k.step = "probe" /\ k.p = p /\ k.boid = tip[b] /\ k.hoid = tip[h]
  <2>1. Keeps(k, "probe", p, tip[b], tip[h])
    BY <1>1, Keepers, KeepingWork, Zenon
  <2>. QED
    BY <2>1, Zenon DEF Keeps
<1>3. Begin(s, w)
  BY Zenon DEF CreateResolve
<1>. HIDE DEF k
<1>4. /\ w \in Proc /\ w.step = "probe" /\ w.p = p
      /\ w.base = b /\ w.head = h /\ w.boid = tip[b] /\ w.hoid = tip[h]
  BY <1>2, Zenon DEF Proc
<1>. HIDE DEF w
<1>. QED
  BY <1>3, <1>4, Zenon

\* a handler that only goes on keeps what it has;
LEMMA GoMove ==
    ASSUME TypeInv, NEW s \in Procs, NEW step \in Steps, Go(s, step)
    PROVE  \E w \in Proc : /\ Begin(s, w) /\ w.step = step /\ w.p = proc[s].p
                           /\ w.base = proc[s].base /\ w.head = proc[s].head
                           /\ w.boid = proc[s].boid /\ w.hoid = proc[s].hoid
                           /\ w.aim = proc[s].aim
<1>. DEFINE k == proc[s]
            w == [k EXCEPT !.step = step]
<1>1. k \in Proc
  BY Zenon DEF TypeInv, TypeOK
<1>2. Begin(s, w)
  BY Zenon DEF Go
<1>. HIDE DEF k
<1>3. /\ w \in Proc /\ w.step = step /\ w.p = k.p /\ w.base = k.base /\ w.head = k.head
      /\ w.boid = k.boid /\ w.hoid = k.hoid /\ w.aim = k.aim
  BY <1>1, Zenon DEF Proc
<1>. HIDE DEF w
<1>. QED
  BY <1>2, <1>3, Zenon DEF k

\* SetState has read the row;
LEMMA StateReadMove ==
    ASSUME TypeInv, NEW s \in Procs, NEW p \in PRs, NEW state \in {"open", "closed"},
           StateRead(s, p, state)
    PROVE  \E w \in Proc : Begin(s, w) /\ w.step = "state" /\ w.p = p /\ w.aim = state
<1>. DEFINE k == On("state", p)
            w == [k EXCEPT !.aim = state]
<1>1. k \in Proc /\ k.step = "state" /\ k.p = p
  BY OnWork DEF Steps
<1>2. Begin(s, w)
  BY Zenon DEF StateRead
<1>. HIDE DEF k
<1>3. w \in Proc /\ w.step = "state" /\ w.p = p /\ w.aim = state
  BY <1>1 DEF Proc
<1>. HIDE DEF w
<1>. QED
  BY <1>2, <1>3, Zenon

\* the base change has resolved the new base;
LEMMA BaseResolveMove ==
    ASSUME TypeInv, NEW s \in Procs, NEW p \in PRs, NEW b \in Branches, BaseResolve(s, p, b)
    PROVE  \E w \in Proc : /\ Begin(s, w) /\ w.step = "base" /\ w.p = p
                           /\ w.base = b /\ w.boid = tip[b]
<1>. DEFINE k == On("base", p)
            w == [k EXCEPT !.base = b, !.boid = tip[b]]
<1>1. k \in Proc /\ k.step = "base" /\ k.p = p /\ tip[b] \in Commits
  BY OnWork, SMTT(40) DEF Steps, TypeInv, TypeOK, BaseResolve
<1>2. Begin(s, w)
  BY Zenon DEF BaseResolve
<1>. HIDE DEF k
<1>3. w \in Proc /\ w.step = "base" /\ w.p = p /\ w.base = b /\ w.boid = tip[b]
  BY <1>1, Zenon DEF Proc
<1>. HIDE DEF w
<1>. QED
  BY <1>2, <1>3

\* the deletion of the head branch has read where it was merged.
LEMMA DeleteReadMove ==
    ASSUME TypeInv, NEW s \in Procs, NEW p \in PRs, DeleteRead(s, p)
    PROVE  \E w \in Proc : /\ Begin(s, w) /\ w.step = "delete" /\ w.p = p
                           /\ w.head = pr[p].head /\ w.hoid = pr[p].hoid
<1>. DEFINE k == On("delete", p)
            w == [k EXCEPT !.head = pr[p].head, !.hoid = pr[p].hoid]
<1>1. k \in Proc /\ k.step = "delete" /\ k.p = p /\ pr[p] \in Row
  BY OnWork, SMTT(40) DEF Steps, TypeInv, TypeOK, DeleteRead, Opened
<1>2. Begin(s, w)
  BY Zenon DEF DeleteRead
<1>. HIDE DEF k
<1>3. w \in Proc /\ w.step = "delete" /\ w.p = p /\ w.head = pr[p].head /\ w.hoid = pr[p].hoid
  BY <1>1, Zenon DEF Proc, Row
<1>. HIDE DEF w
<1>. QED
  BY <1>2, <1>3, Zenon

-----------------------------------------------------------------------------
(* Rows and branches after a write *)

\* The row of p is written, and no other.
Wrote(p) ==
    /\ pr' \in [PRs -> Row \cup {None}] /\ pr'[p] \in Row
    /\ \A q \in PRs : q # p => pr'[q] = pr[q]

\* SetPullRequestSnapshot.
LEMMA SnapshotRow ==
    ASSUME TypeInv, NEW p \in PRs, Opened(p), NEW x \in Commits, NEW y \in Commits,
           pr' = [pr EXCEPT ![p].boid = x, ![p].hoid = y]
    PROVE  /\ Wrote(p) /\ pr'[p].boid = x /\ pr'[p].hoid = y
           /\ pr'[p].base = pr[p].base /\ pr'[p].head = pr[p].head
           /\ pr'[p].verdict = pr[p].verdict /\ pr'[p].open = pr[p].open
           /\ pr'[p].merged = pr[p].merged /\ pr'[p].mhead = pr[p].mhead
<1>1. pr[p] \in Row /\ pr \in [PRs -> Row \cup {None}]
  BY Zenon DEF TypeInv, TypeOK, Opened
<1>. QED
  BY <1>1, Zenon DEF Wrote, Row

\* SetPullRequestMergeability.
LEMMA VerdictRow ==
    ASSUME TypeInv, NEW p \in PRs, Opened(p), NEW v \in Verdicts,
           pr' = [pr EXCEPT ![p].verdict = v]
    PROVE  /\ Wrote(p) /\ pr'[p].boid = pr[p].boid /\ pr'[p].hoid = pr[p].hoid
           /\ pr'[p].base = pr[p].base /\ pr'[p].head = pr[p].head
           /\ pr'[p].verdict = v /\ pr'[p].open = pr[p].open
           /\ pr'[p].merged = pr[p].merged /\ pr'[p].mhead = pr[p].mhead
<1>1. pr[p] \in Row /\ pr \in [PRs -> Row \cup {None}]
  BY Zenon DEF TypeInv, TypeOK, Opened
<1>. QED
  BY <1>1, Zenon DEF Wrote, Row

\* SetPullRequestMerged and SetIssueState.
LEMMA MergedRow ==
    ASSUME TypeInv, NEW p \in PRs, Opened(p), NEW x \in Commits, NEW y \in Commits,
           pr' = [pr EXCEPT ![p].merged = x, ![p].mhead = y, ![p].verdict = "clean",
                            ![p].open = FALSE]
    PROVE  /\ Wrote(p) /\ pr'[p].boid = pr[p].boid /\ pr'[p].hoid = pr[p].hoid
           /\ pr'[p].base = pr[p].base /\ pr'[p].head = pr[p].head
           /\ pr'[p].verdict = "clean" /\ pr'[p].open = FALSE
           /\ pr'[p].merged = x /\ pr'[p].mhead = y
<1>1. pr[p] \in Row /\ pr \in [PRs -> Row \cup {None}]
  BY Zenon DEF TypeInv, TypeOK, Opened
<1>. QED
  BY <1>1, Zenon DEF Wrote, Row, Verdicts

\* issues.SetState.
LEMMA StateRow ==
    ASSUME TypeInv, NEW p \in PRs, Opened(p), NEW o \in BOOLEAN,
           pr' = [pr EXCEPT ![p].open = o]
    PROVE  /\ Wrote(p) /\ pr'[p].boid = pr[p].boid /\ pr'[p].hoid = pr[p].hoid
           /\ pr'[p].base = pr[p].base /\ pr'[p].head = pr[p].head
           /\ pr'[p].verdict = pr[p].verdict /\ pr'[p].open = o
           /\ pr'[p].merged = pr[p].merged /\ pr'[p].mhead = pr[p].mhead
<1>1. pr[p] \in Row /\ pr \in [PRs -> Row \cup {None}]
  BY Zenon DEF TypeInv, TypeOK, Opened
<1>. QED
  BY <1>1, Zenon DEF Wrote, Row

\* SetBase.
LEMMA BaseRow ==
    ASSUME TypeInv, NEW p \in PRs, Opened(p), NEW b \in Branches, NEW x \in Commits,
           pr' = [pr EXCEPT ![p].base = b, ![p].boid = x]
    PROVE  /\ Wrote(p) /\ pr'[p].boid = x /\ pr'[p].hoid = pr[p].hoid
           /\ pr'[p].base = b /\ pr'[p].head = pr[p].head
           /\ pr'[p].verdict = pr[p].verdict /\ pr'[p].open = pr[p].open
           /\ pr'[p].merged = pr[p].merged /\ pr'[p].mhead = pr[p].mhead
<1>1. pr[p] \in Row /\ pr \in [PRs -> Row \cup {None}]
  BY Zenon DEF TypeInv, TypeOK, Opened
<1>. QED
  BY <1>1, Zenon DEF Wrote, Row

\* The inserts of Create.
LEMMA NewRow ==
    ASSUME TypeInv, NEW p \in PRs, NEW b \in Branches, NEW h \in Branches,
           NEW x \in Commits, NEW y \in Commits, pr' = [pr EXCEPT ![p] = Row0(b, h, x, y)]
    PROVE  /\ Wrote(p) /\ pr'[p].boid = x /\ pr'[p].hoid = y
           /\ pr'[p].base = b /\ pr'[p].head = h /\ pr'[p].open = TRUE
           /\ pr'[p].merged = None /\ pr'[p].mhead = None
<1>1. Row0(b, h, x, y) \in Row
  BY Zenon DEF Row0, Row, Verdicts
<1>2. pr \in [PRs -> Row \cup {None}]
  BY Zenon DEF TypeInv, TypeOK
<1>3. pr'[p] = Row0(b, h, x, y)
  BY <1>2, Zenon
<1>. QED
  BY <1>1, <1>2, <1>3 DEF Wrote, Row0

\* A write to the row of s's own request.
LEMMA WriteStep ==
    ASSUME TypeInv, NEW s \in Procs, NEW w \in Proc, Begin(s, w), NEW p \in PRs, Wrote(p),
           p = proc[s].p, Opened(p) \/ At(s, "insert"),
           pr'[p].merged = None <=> pr'[p].mhead = None,
           pr'[p].boid \in Known, pr'[p].hoid \in Known, pr'[p].base # pr'[p].head,
           Opened(p) => /\ pr'[p].head = pr[p].head
                        /\ pr[p].merged # None => pr'[p].merged # None
                        /\ LockFree(p) \/ Locks(proc[s]) \/ pr'[p].merged = pr[p].merged,
           Sound(w)', Apart(s, w), UNCHANGED <<git, syncs>>, RestOK'
    PROVE  TypeInv'
<1>1. UNCHANGED <<tip, anc, has>> /\ Known' = Known
  BY Zenon DEF git, Known, Exists
<1>2. pr'[p] # None
  BY PullAssumption, Zenon DEF Wrote
<1>3. Grown
  BY <1>1, <1>2, SMTT(30), ZenonT(30) DEF Grown, Opened, Wrote
<1>4. Spared(s)
  <2>. SUFFICES ASSUME NEW t \in Procs, t # s
                PROVE  /\ proc[t].step \in {"probe", "insert"} => pr'[proc[t].p] = None
                       /\ Locks(proc[t]) => pr'[proc[t].p].merged = None
    BY Zenon DEF Spared
  <2>. DEFINE v == proc[t]
  <2>1. Sound(v)
    BY Zenon DEF TypeInv, ProcsOK
  <2>2. CASE v.p = p
    <3>1. v.step \notin {"probe", "insert"}
      BY <2>2, Zenon DEF TypeInv, ProcsOK
    <3>2. Locks(v) => Opened(p) /\ ~LockFree(p) /\ ~Locks(proc[s]) /\ pr[p].merged = None
      <4>1. Locks(v) => Opened(p) /\ pr[p].merged = None
        BY <2>1, <2>2, ZenonT(30) DEF Sound, Locks
      <4>2. Locks(v) => ~LockFree(p)
        BY <2>2, Zenon DEF LockFree, Locks
      <4>3. Locks(v) => ~Locks(proc[s])
        BY <2>2, Zenon DEF TypeInv, ProcsOK
      <4>. QED
        BY <4>1, <4>2, <4>3, Zenon
    <3>. QED
      BY <2>2, <3>1, <3>2, Zenon
  <2>3. CASE v.p # p
    BY <2>1, <2>3, Zenon DEF Sound, Locks, Wrote, Opened
  <2>. QED
    BY <2>2, <2>3, Zenon
<1>5. GitOK'
  BY <1>1, TypeGroups, Zenon DEF GitOK
<1>6. TableOK'
  BY <1>1, <1>2, TypeGroups, ZenonT(30) DEF TableOK, Wrote, Opened
<1>. QED
  BY <1>3, <1>4, <1>5, <1>6, ProcsStep, TypeGroups, Zenon

\* The branch b is now at the commit n, with the changes h, and the commits
\* there were are what they were.
Committed(b, n, h) ==
    /\ GitOK' /\ tip'[b] = n /\ has'[n] = h /\ n \in Known'
    /\ \A c \in Branches : c # b => tip'[c] = tip[c]
    /\ \A d \in Known : d \in Known' /\ anc'[d] = anc[d] /\ has'[d] = has[d]

\* A commit becomes the tip of a branch: what was there before stays.
LEMMA CommitEffect ==
    ASSUME TypeInv, NEW b \in Branches, NEW n \in Commits, NEW a \in SUBSET Commits,
           NEW h \in SUBSET Commits, Commit(b, n, a, h),
           n \notin Known \/ (a = anc[n] /\ h = has[n])
    PROVE  Committed(b, n, h)
<1>1. /\ tip \in [Branches -> Commits \cup {None}]
      /\ anc \in [Commits -> SUBSET Commits] /\ has \in [Commits -> SUBSET Commits]
      /\ \A c \in Branches : tip[c] # None => tip[c] \in Known
  BY Zenon DEF TypeInv, TypeOK, RowsOK
<1>2. /\ tip' \in [Branches -> Commits \cup {None}] /\ tip'[b] = n
      /\ \A c \in Branches : c # b => tip'[c] = tip[c]
  BY <1>1, Zenon DEF Commit
<1>3. /\ anc' \in [Commits -> SUBSET Commits] /\ anc'[n] = a \cup {n}
      /\ \A c \in Commits : c # n => anc'[c] = anc[c]
  BY <1>1, Zenon DEF Commit
<1>4. /\ has' \in [Commits -> SUBSET Commits] /\ has'[n] = h
      /\ \A c \in Commits : c # n => has'[c] = has[c]
  BY <1>1, Zenon DEF Commit
<1>5. n \in Known'
  BY <1>3, Zenon DEF Known, Exists
<1>6. ASSUME NEW c \in Known PROVE c \in Known' /\ anc'[c] = anc[c] /\ has'[c] = has[c]
  <2>1. CASE c = n
    BY <1>3, <1>4, <1>5, <1>6, <2>1, Zenon DEF Known, Exists
  <2>2. CASE c # n
    BY <1>3, <1>4, <1>6, <2>2, Zenon DEF Known, Exists
  <2>. QED
    BY <2>1, <2>2, Zenon
<1>7. tip'[Default] # None
  BY <1>2, PullAssumption, Zenon DEF TypeInv, RowsOK
<1>8. GitOK'
  BY <1>1, <1>2, <1>3, <1>4, <1>5, <1>6, <1>7, Zenon DEF GitOK
<1>. QED
  BY <1>2, <1>4, <1>5, <1>6, <1>8, Zenon DEF Committed

\* A step of s that moves branches and leaves the rows alone.
LEMMA BranchStep ==
    ASSUME TypeInv, NEW s \in Procs, NEW w \in Proc, Begin(s, w), Sound(w)', Apart(s, w),
           GitOK', \A c \in Known : c \in Known', UNCHANGED <<pr, syncs>>, RestOK'
    PROVE  TypeInv'
<1>1. Grown
  BY SMTT(30), ZenonT(30) DEF Grown, Opened
<1>2. Spared(s)
  BY Zenon DEF Spared, TypeInv, ProcsOK, Sound, Opened
<1>3. TableOK'
  BY TypeGroups, Zenon DEF TableOK, Opened
<1>. QED
  BY <1>1, <1>2, <1>3, ProcsStep, TypeGroups, Zenon

-----------------------------------------------------------------------------
(* Every step keeps TypeInv *)

\* A step that only ends what s is in the middle of, or counts.
LEMMA IdleStep ==
    ASSUME TypeInv, NEW s \in Procs, Done(s), UNCHANGED <<git, pr>>, RestOK',
           \A p \in PRs : syncs'[p] > 0 => Opened(p)
    PROVE  TypeInv'
BY ReadStep, IdleSound, IdleWork, Zenon DEF Done

\* What s is in the middle of.
LEMMA OwnWork ==
    ASSUME TypeInv, NEW s \in Procs
    PROVE  proc[s] \in Proc /\ Sound(proc[s])
BY Zenon DEF TypeInv, TypeOK, ProcsOK

\* The jobs push:process adds belong to requests that exist.
LEMMA EnqueueEffect ==
    ASSUME TypeInv, NEW b, Enqueue(Matching(b))
    PROVE  /\ syncs' \in [PRs -> 0 .. MaxSyncs]
           /\ \A p \in PRs : syncs'[p] > 0 => Opened(p)
           /\ \A p \in Matching(b) : syncs'[p] > 0
           /\ \A p \in PRs : syncs'[p] >= syncs[p]
<1>1. /\ syncs \in [PRs -> 0 .. MaxSyncs] /\ \A p \in PRs : syncs[p] > 0 => Opened(p)
  BY Zenon DEF TypeInv, TypeOK, RowsOK
<1>2. \A p \in Matching(b) : Opened(p) /\ p \in PRs
  BY Zenon DEF Matching, Unmerged
<1>3. MaxSyncs \in Nat /\ MaxSyncs > 0
  BY PullAssumption, SMTT(40)
<1>. QED
  BY <1>1, <1>2, <1>3, SMTT(40) DEF Enqueue

\* b is pushed to: it is now at n, or gone, and the hook told of it.
Pushed(b, n) ==
    /\ GitOK' /\ tip'[b] = n
    /\ \A c \in Branches : c # b => tip'[c] = tip[c]
    /\ \A d \in Known : d \in Known' /\ anc'[d] = anc[d] /\ has'[d] = has[d]
    /\ Announce(b, n)

\* What a push of commits does: the new tip holds what the commit c it was
\* accepted for holds.
LEMMA PushMove ==
    ASSUME TypeInv, NEW b \in Branches, Push(b)
    PROVE  \E c \in Known : \E n \in Commits :
              Accepts(b, c) /\ Pushed(b, n) /\ n \in Known' /\ has[c] \subseteq has'[n]
<1>1. PICK c \in Commits :
        /\ Exists(c) /\ Accepts(b, c)
        /\ \/ \E n \in Fresh : Commit(b, n, anc[c], has[c] \cup {n}) /\ Announce(b, n)
           \/ tip' = [tip EXCEPT ![b] = c] /\ Announce(b, c) /\ UNCHANGED <<anc, has>>
  BY Zenon DEF Push
<1>2. c \in Known
  BY <1>1, Zenon DEF Known
<1>3. ASSUME NEW n \in Fresh, Commit(b, n, anc[c], has[c] \cup {n}), Announce(b, n)
      PROVE  n \in Commits /\ Pushed(b, n) /\ n \in Known' /\ has[c] \subseteq has'[n]
  <2>1. n \in Commits /\ n \notin Known
    BY DEF Fresh, Known
  <2>2. anc[c] \in SUBSET Commits /\ has[c] \cup {n} \in SUBSET Commits
    BY <2>1, Zenon DEF TypeInv, TypeOK
  <2>3. Committed(b, n, has[c] \cup {n})
    BY <1>3, <2>1, <2>2, CommitEffect, Zenon
  <2>. QED
    BY <1>3, <2>1, <2>3, Zenon DEF Committed, Pushed
<1>4. ASSUME tip' = [tip EXCEPT ![b] = c], Announce(b, c), UNCHANGED <<anc, has>>
      PROVE  Pushed(b, c) /\ c \in Known' /\ has[c] \subseteq has'[c]
  <2>1. Known' = Known
    BY <1>4, Zenon DEF Known, Exists
  <2>2. /\ tip' \in [Branches -> Commits \cup {None}] /\ tip'[b] = c
        /\ \A d \in Branches : d # b => tip'[d] = tip[d]
    BY <1>4, Zenon DEF TypeInv, TypeOK
  <2>3. tip'[Default] # None
    BY <2>2, PullAssumption, Zenon DEF TypeInv, RowsOK
  <2>4. GitOK'
    BY <1>2, <1>4, <2>1, <2>2, <2>3, Zenon DEF GitOK, TypeInv, TypeOK, RowsOK
  <2>. QED
    BY <1>2, <1>4, <2>1, <2>2, <2>4, Zenon DEF Pushed
<1>. QED
  BY <1>1, <1>2, <1>3, <1>4, Zenon

\* What a push that deletes a branch does.
LEMMA PushDeleteMove ==
    ASSUME TypeInv, NEW b \in Branches, PushDelete(b)
    PROVE  b # Default /\ Pushed(b, None) /\ UNCHANGED <<anc, has>>
<1>1. /\ b # Default /\ Announce(b, None) /\ UNCHANGED <<anc, has>>
      /\ tip' = [tip EXCEPT ![b] = None]
  BY Zenon DEF PushDelete
<1>2. Known' = Known
  BY <1>1, Zenon DEF Known, Exists
<1>3. /\ tip' \in [Branches -> Commits \cup {None}] /\ tip'[b] = None
      /\ \A d \in Branches : d # b => tip'[d] = tip[d]
  BY <1>1, Zenon DEF TypeInv, TypeOK
<1>4. tip'[Default] # None
  BY <1>1, <1>3, PullAssumption, Zenon DEF TypeInv, RowsOK
<1>5. GitOK'
  BY <1>1, <1>2, <1>3, <1>4, Zenon DEF GitOK, TypeInv, TypeOK, RowsOK
<1>. QED
  BY <1>1, <1>2, <1>3, <1>5, Zenon DEF Pushed

\* Both kinds of push.
LEMMA AnyPush ==
    ASSUME TypeInv, NEW b \in Branches, Push(b) \/ PushDelete(b)
    PROVE  /\ \E n \in Commits \cup {None} : Pushed(b, n) /\ (b = Default => n \in Commits)
           /\ UNCHANGED <<pr, syncs, doid, proc, landed, torn, moved, crossed, updated>>
<1>1. CASE Push(b)
  BY <1>1, PushMove, Zenon DEF Push
<1>2. CASE PushDelete(b)
  BY <1>2, PushDeleteMove, Zenon DEF PushDelete
<1>. QED
  BY <1>1, <1>2, Zenon

\* Push and PushDelete keep TypeInv.
LEMMA TypePush ==
    ASSUME TypeInv, NEW b \in Branches, Push(b) \/ PushDelete(b)
    PROVE  TypeInv'
<1>1. PICK n \in Commits \cup {None} : Pushed(b, n) /\ (b = Default => n \in Commits)
  BY AnyPush, Zenon
<1>2. UNCHANGED <<pr, syncs, doid, proc, landed, torn, moved, crossed, updated>>
  BY AnyPush, Zenon
<1>3. /\ GitOK' /\ \A c \in Known : c \in Known'
      /\ \/ events' = events \cup {[ref |-> b, after |-> n]} /\ UNCHANGED faults
         \/ Fault("hook") /\ Spend /\ UNCHANGED events
  BY <1>1, Zenon DEF Pushed, Announce
<1>4. RestOK'
  <2>1. RestOK
    BY TypeGroups, Zenon
  <2>2. [ref |-> b, after |-> n] \in Event
    BY Zenon DEF Event
  <2>3. events' \subseteq Event
    BY <1>3, <2>1, <2>2, Zenon DEF RestOK
  <2>4. \A e \in events' : e.ref = Default => e.after \in Commits
    BY <1>1, <1>3, <2>1, SMTT(40) DEF RestOK
  <2>5. faults' \in 0 .. MaxFaults
    BY <1>3, <2>1, PullAssumption, SMTT(40) DEF RestOK, Fault, Spend
  <2>6. requests' \in 0 .. MaxRequests
    <3>1. UNCHANGED requests \/ Request("rewrite")
      BY Zenon DEF Push, PushDelete
    <3>. QED
      BY <2>1, <3>1, PullAssumption, SMTT(40) DEF RestOK, Request
  <2>7. mixed' \in BOOLEAN
    BY <2>1, ZenonT(10) DEF RestOK, Push, PushDelete, Mix
  <2>. QED
    BY <1>2, <2>1, <2>3, <2>4, <2>5, <2>6, <2>7, Zenon DEF RestOK
<1>5. TableOK'
  BY <1>2, <1>3, TypeGroups, Zenon DEF TableOK, Opened
<1>6. ProcsOK'
  <2>1. \A s \in Procs : Sound(proc[s])'
    BY <1>2, <1>3, OwnWork, SMTT(40) DEF Sound, Opened, Locks
  <2>. QED
    BY <1>2, <2>1, Zenon DEF ProcsOK, TypeInv, Locks
<1>7. proc' \in [Procs -> Proc]
  BY <1>2, TypeGroups, Zenon
<1>. QED
  BY <1>3, <1>4, <1>5, <1>6, <1>7, TypeGroups, Zenon

\* ProcessPush keeps TypeInv.
LEMMA TypeProcessPush ==
    ASSUME TypeInv, NEW s \in Procs, NEW e \in events, ProcessPush(s, e)
    PROVE  TypeInv'
<1>1. PICK w \in Proc : /\ Begin(s, w) /\ w.step = "list" /\ w.p = None
                         /\ w.base = e.ref /\ w.hoid = e.after
  BY ProcessPushMove, Zenon
<1>2. RestOK /\ e \in Event
  BY TypeGroups, Zenon DEF RestOK
<1>3. Sound(w) /\ Apart(s, w)
  BY <1>1, <1>2, ApartOpened, Zenon DEF Sound, Locks, Event, RestOK
<1>4. RestOK'
  <2>1. faults' \in 0 .. MaxFaults
    BY <1>2, PullAssumption, SMTT(40) DEF ProcessPush, RestOK, Fault, Spend
  <2>2. doid' \in Commits
    BY <1>2, Zenon DEF ProcessPush, RestOK
  <2>3. events' \subseteq Event /\ \A d \in events' : d.ref = Default => d.after \in Commits
    BY <1>2, Zenon DEF ProcessPush, RestOK
  <2>. QED
    BY <1>2, <2>1, <2>2, <2>3, Zenon DEF RestOK, ProcessPush
<1>5. UNCHANGED <<git, pr, syncs>>
  BY Zenon DEF ProcessPush
<1>. QED
  BY <1>1, <1>3, <1>4, <1>5, ReadStep, TypeGroups, Zenon DEF TableOK

\* ListPRs keeps TypeInv.
LEMMA TypeListPRs ==
    ASSUME TypeInv, NEW s \in Procs, ListPRs(s)
    PROVE  TypeInv'
<1>1. RestOK /\ At(s, "list") /\ proc[s] \in Proc /\ Sound(proc[s])
  BY TypeGroups, OwnWork, Zenon DEF ListPRs
<1>2. /\ proc[s].base \in Branches /\ proc[s].hoid \in Commits \cup {None}
      /\ proc[s].base = Default => proc[s].hoid \in Commits
  BY <1>1, Zenon DEF Sound, At, Proc
<1>3. syncs' \in [PRs -> 0 .. MaxSyncs] /\ \A p \in PRs : syncs'[p] > 0 => Opened(p)
  <2>1. Enqueue(Matching(proc[s].base)) \/ UNCHANGED syncs
    BY Zenon DEF ListPRs
  <2>. QED
    BY <1>1, <2>1, EnqueueEffect, TypeGroups, Zenon DEF RestOK, TableOK
<1>4. events' \subseteq Event /\ \A e \in events' : e.ref = Default => e.after \in Commits
  <2>1. UNCHANGED events \/ events' = events \cup {[ref |-> proc[s].base, after |-> proc[s].hoid]}
    BY Zenon DEF ListPRs
  <2>. QED
    BY <1>1, <1>2, <2>1, SMTT(40) DEF RestOK, Event
<1>5. faults' \in 0 .. MaxFaults
  BY <1>1, PullAssumption, SMTT(40) DEF ListPRs, RestOK, Fault, Spend
<1>6. mixed' \in BOOLEAN
  BY <1>1, ZenonT(10) DEF ListPRs, RestOK, Mix
<1>7. crossed' \subseteq PRs
  BY <1>1, Zenon DEF ListPRs, RestOK
<1>8. RestOK'
  BY <1>1, <1>3, <1>4, <1>5, <1>6, <1>7, Zenon DEF RestOK, ListPRs
<1>. QED
  BY <1>3, <1>8, IdleStep, Zenon DEF ListPRs

\* CreateResolve keeps TypeInv.
LEMMA TypeCreateResolve ==
    ASSUME TypeInv, NEW s \in Procs, NEW p \in PRs, NEW b \in Branches, NEW h \in Branches, CreateResolve(s, p, b, h)
    PROVE  TypeInv'
<1>1. PICK w \in Proc : /\ Begin(s, w) /\ w.step = "probe" /\ w.p = p
                         /\ w.base = b /\ w.head = h /\ w.boid = tip[b] /\ w.hoid = tip[h]
  BY CreateResolveMove, SMTT(40)
<1>2. tip[b] \in Known /\ tip[h] \in Known
  BY Zenon DEF CreateResolve, TypeInv, RowsOK
<1>3. Sound(w)
  BY <1>1, <1>2, Zenon DEF Sound, Locks, CreateResolve
<1>4. Apart(s, w)
  BY <1>1, Zenon DEF Apart, CreateResolve
<1>5. RestOK'
  BY TypeGroups, Zenon DEF RestOK, CreateResolve, queues
<1>6. UNCHANGED <<git, pr, syncs>>
  BY Zenon DEF CreateResolve, queues
<1>. QED
  BY <1>1, <1>3, <1>4, <1>5, <1>6, ReadStep, TypeGroups, Zenon DEF TableOK

\* CreateProbe keeps TypeInv.
LEMMA TypeCreateProbe ==
    ASSUME TypeInv, NEW s \in Procs, CreateProbe(s)
    PROVE  TypeInv'
<1>1. RestOK' /\ UNCHANGED <<git, pr, syncs>>
  BY TypeGroups, Zenon DEF RestOK, CreateProbe, queues
<1>2. CASE Done(s)
  BY <1>1, <1>2, IdleStep, TypeGroups, Zenon DEF TableOK
<1>3. CASE Go(s, "insert")
  <2>1. PICK w \in Proc : /\ Begin(s, w) /\ w.step = "insert" /\ w.p = proc[s].p
                           /\ w.base = proc[s].base /\ w.head = proc[s].head
                           /\ w.boid = proc[s].boid /\ w.hoid = proc[s].hoid
    BY <1>3, GoMove, SMTT(40) DEF Steps
  <2>2. Sound(w)
    BY <2>1, OwnWork, Zenon DEF Sound, Locks, CreateProbe, At
  <2>3. Apart(s, w)
    BY <2>1, Zenon DEF Apart, TypeInv, ProcsOK, CreateProbe, At, Locks
  <2>. QED
    BY <1>1, <2>1, <2>2, <2>3, ReadStep, TypeGroups, SMTT(30), ZenonT(30) DEF TableOK
<1>. QED
  BY <1>2, <1>3, Zenon DEF CreateProbe

\* SyncResolve keeps TypeInv.
LEMMA TypeSyncResolve ==
    ASSUME TypeInv, NEW s \in Procs, NEW p \in PRs, SyncResolve(s, p)
    PROVE  TypeInv'
<1>1. RestOK /\ TableOK
  BY TypeGroups, Zenon
<1>2. syncs[p] \in 0 .. MaxSyncs /\ syncs[p] > 0 /\ Opened(p) /\ pr[p] \in Row
  BY <1>1, ZenonT(30) DEF SyncResolve, RestOK, TableOK, Opened
<1>3. /\ syncs' \in [PRs -> 0 .. MaxSyncs] /\ \A q \in PRs : syncs'[q] > 0 => Opened(q)
  BY <1>1, <1>2, PullAssumption, Z3T(20), Zenon DEF SyncResolve, RestOK, TableOK
<1>4. crossed' \subseteq PRs
  BY <1>1, Zenon DEF SyncResolve, Overlap, RestOK
<1>5. RestOK' /\ UNCHANGED <<git, pr>>
  BY <1>1, <1>3, <1>4, Zenon DEF SyncResolve, RestOK
<1>6. CASE UNCHANGED proc
  <2>1. GitOK' /\ TableOK' /\ proc' \in [Procs -> Proc]
    BY <1>3, <1>5, <1>6, TypeGroups, Zenon DEF git, GitOK, TableOK, Known, Exists, Opened
  <2>2. UNCHANGED <<tip, anc, has, pr, proc>>
    BY <1>5, <1>6, Zenon DEF git
  <2>3. ProcsOK'
    BY <2>2, OwnWork, ZenonT(30) DEF TypeInv, ProcsOK, Sound, Locks, Known, Exists, Opened
  <2>. QED
    BY <1>5, <2>1, <2>3, TypeGroups, SMTT(20)
<1>7. CASE tip[pr[p].base] # None /\ tip[pr[p].head] # None /\
           Begin(s, Keeping("sync", p, tip[pr[p].base], tip[pr[p].head]))
  <2>. DEFINE x == tip[pr[p].base]
              y == tip[pr[p].head]
              w == Keeping("sync", p, x, y)
  <2>1. x \in Known /\ y \in Known /\ x \in Commits /\ y \in Commits
    BY <1>2, <1>7, Zenon DEF Row, TypeInv, TypeOK, RowsOK
  <2>2. w \in Proc /\ w.step = "sync" /\ w.p = p /\ w.boid = x /\ w.hoid = y
    <3>1. Keeps(w, "sync", p, x, y)
      BY <2>1, Keepers, KeepingWork, Zenon
    <3>. QED
      BY <3>1, Zenon DEF Keeps
  <2>3. Begin(s, w)
    BY <1>7, Zenon
  <2>. HIDE DEF w
  <2>4. Sound(w) /\ Apart(s, w)
    BY <1>2, <2>1, <2>2, ApartOpened, Zenon DEF Sound, Locks
  <2>. QED
    BY <1>3, <1>5, <2>2, <2>3, <2>4, ReadStep, Zenon
<1>. QED
  BY <1>6, <1>7, Zenon DEF SyncResolve

\* Mergeability keeps TypeInv.
LEMMA TypeMergeability ==
    ASSUME TypeInv, NEW s \in Procs, NEW p \in PRs, Mergeability(s, p)
    PROVE  TypeInv'
<1>. DEFINE w == Keeping("judge", p, pr[p].boid, pr[p].hoid)
<1>1. Opened(p) /\ pr[p] \in Row /\ pr[p].boid \in Known /\ pr[p].hoid \in Known
  BY ZenonT(30) DEF Mergeability, TypeInv, TypeOK, RowsOK, Opened
<1>2. /\ w \in Proc /\ w.step = "judge" /\ w.p = p
      /\ w.boid = pr[p].boid /\ w.hoid = pr[p].hoid
  <2>1. Keeps(w, "judge", p, pr[p].boid, pr[p].hoid)
    BY <1>1, Keepers, KeepingWork, Zenon DEF Known
  <2>. QED
    BY <2>1, Zenon DEF Keeps
<1>3. Begin(s, w)
  BY Zenon DEF Mergeability
<1>. HIDE DEF w
<1>4. Sound(w) /\ Apart(s, w)
  BY <1>1, <1>2, ApartOpened, Zenon DEF Sound, Locks
<1>5. RestOK' /\ UNCHANGED <<git, pr, syncs>>
  BY TypeGroups, Zenon DEF RestOK, Mergeability, queues
<1>. QED
  BY <1>2, <1>3, <1>4, <1>5, ReadStep, TypeGroups, Zenon DEF TableOK

\* MergeLock keeps TypeInv.
LEMMA TypeMergeLock ==
    ASSUME TypeInv, NEW s \in Procs, NEW p \in PRs, NEW m \in Methods, MergeLock(s, p, m)
    PROVE  TypeInv'
<1>. DEFINE w == Loaded("gate", p, m)
<1>1. /\ Opened(p) /\ pr[p] \in Row /\ pr[p].boid \in Known /\ pr[p].hoid \in Known
      /\ pr[p].merged = None /\ LockFree(p) /\ pr[p].base # pr[p].head
  BY Zenon DEF MergeLock, Unmerged, TypeInv, TypeOK, RowsOK, Opened
<1>2. /\ w \in Proc /\ w.step = "gate" /\ w.p = p
      /\ w.boid = pr[p].boid /\ w.hoid = pr[p].hoid /\ w.base = pr[p].base
  <2>1. "gate" \in Steps
    BY Zenon DEF Steps
  <2>2. Loads(w, "gate", p, m)
    BY <1>1, <2>1, LoadedWork, Zenon
  <2>. QED
    BY <2>2, Zenon DEF Loads, Keeps
<1>3. Begin(s, w)
  BY Zenon DEF MergeLock
<1>. HIDE DEF w
<1>4. Sound(w) /\ Apart(s, w)
  BY <1>1, <1>2, ApartOpened, ZenonT(30) DEF Sound, Locks, Row
<1>5. RestOK' /\ UNCHANGED <<git, pr, syncs>>
  <2>1. RestOK
    BY TypeGroups, SMTT(30), ZenonT(30)
  <2>2. requests' \in 0 .. MaxRequests
    BY <2>1, PullAssumption, Z3T(20), Zenon DEF RestOK, MergeLock, Request
  <2>. QED
    BY <2>1, <2>2, Zenon DEF RestOK, MergeLock, queues
<1>. QED
  BY <1>2, <1>3, <1>4, <1>5, ReadStep, TypeGroups, Zenon DEF TableOK

\* MergeGate keeps TypeInv.
LEMMA TypeMergeGate ==
    ASSUME TypeInv, NEW s \in Procs, MergeGate(s)
    PROVE  TypeInv'
<1>1. RestOK /\ proc[s] \in Proc /\ Sound(proc[s]) /\ At(s, "gate")
  BY TypeGroups, OwnWork, SMTT(30), ZenonT(30) DEF MergeGate
<1>4. RestOK' /\ UNCHANGED <<git, pr, syncs>>
  BY <1>1, Zenon DEF MergeGate, RestOK, queues
<1>5. CASE Done(s)
  BY <1>4, <1>5, IdleStep, TypeGroups, Zenon DEF TableOK
<1>6. CASE Go(s, "perform")
  <2>1. PICK w \in Proc : /\ Begin(s, w) /\ w.step = "perform" /\ w.p = proc[s].p
                           /\ w.base = proc[s].base /\ w.head = proc[s].head
                           /\ w.boid = proc[s].boid /\ w.hoid = proc[s].hoid
    BY <1>6, GoMove, SMTT(40) DEF Steps
  <2>2. Sound(w)
    BY <1>1, <2>1, Zenon DEF Sound, Locks, At
  <2>3. Apart(s, w)
    BY <1>1, <2>1, ApartOpened, Zenon DEF Locks, At
  <2>. QED
    BY <1>4, <2>1, <2>2, <2>3, ReadStep, TypeGroups, ZenonT(30) DEF TableOK
<1>. QED
  BY <1>5, <1>6, Zenon DEF MergeGate

\* StateRead keeps TypeInv.
LEMMA TypeStateRead ==
    ASSUME TypeInv, NEW s \in Procs, NEW p \in PRs, NEW o \in {"open", "closed"}, StateRead(s, p, o)
    PROVE  TypeInv'
<1>1. PICK w \in Proc : Begin(s, w) /\ w.step = "state" /\ w.p = p /\ w.aim = o
  BY StateReadMove, SMTT(40)
<1>2. Sound(w) /\ Apart(s, w)
  BY <1>1, ApartOpened, Zenon DEF Sound, Locks, StateRead, Unmerged
<1>3. RestOK' /\ UNCHANGED <<git, pr, syncs>>
  <2>1. RestOK
    BY TypeGroups, Zenon
  <2>2. requests' \in 0 .. MaxRequests
    BY <2>1, PullAssumption, SMTT(40) DEF RestOK, StateRead, Request
  <2>. QED
    BY <2>1, <2>2, Zenon DEF RestOK, StateRead, queues
<1>. QED
  BY <1>1, <1>2, <1>3, ReadStep, TypeGroups, Zenon DEF TableOK

\* BaseResolve keeps TypeInv.
LEMMA TypeBaseResolve ==
    ASSUME TypeInv, NEW s \in Procs, NEW p \in PRs, NEW b \in Branches, BaseResolve(s, p, b)
    PROVE  TypeInv'
<1>1. PICK w \in Proc : /\ Begin(s, w) /\ w.step = "base" /\ w.p = p
                         /\ w.base = b /\ w.boid = tip[b]
  BY BaseResolveMove, SMTT(40)
<1>2. tip[b] \in Known
  BY Zenon DEF BaseResolve, TypeInv, RowsOK
<1>3. Sound(w) /\ Apart(s, w)
  BY <1>1, <1>2, ApartOpened, Zenon DEF Sound, Locks, BaseResolve
<1>4. RestOK' /\ UNCHANGED <<git, pr, syncs>>
  <2>1. RestOK
    BY TypeGroups, Zenon
  <2>2. requests' \in 0 .. MaxRequests
    BY <2>1, PullAssumption, SMTT(40) DEF RestOK, BaseResolve, Request
  <2>. QED
    BY <2>1, <2>2, Zenon DEF RestOK, BaseResolve, queues
<1>. QED
  BY <1>1, <1>3, <1>4, ReadStep, TypeGroups, Zenon DEF TableOK

\* UpdateRead keeps TypeInv.
LEMMA TypeUpdateRead ==
    ASSUME TypeInv, NEW s \in Procs, NEW p \in PRs, NEW m \in {"merge", "rebase"}, UpdateRead(s, p, m)
    PROVE  TypeInv'
<1>. DEFINE w == Loaded("update", p, m)
<1>1. /\ Opened(p) /\ pr[p] \in Row /\ pr[p].boid \in Known /\ pr[p].hoid \in Known
  BY ZenonT(30) DEF UpdateRead, Unmerged, TypeInv, TypeOK, RowsOK, Opened
<1>2. /\ w \in Proc /\ w.step = "update" /\ w.p = p /\ w.head = pr[p].head
      /\ w.boid = pr[p].boid /\ w.hoid = pr[p].hoid /\ w.base = pr[p].base
  <2>1. m \in Methods /\ "update" \in Steps
    BY Zenon DEF Steps, Methods
  <2>2. Loads(w, "update", p, m)
    BY <1>1, <2>1, LoadedWork, ZenonT(60)
  <2>. QED
    BY <2>2, Zenon DEF Loads, Keeps
<1>3. Begin(s, w)
  BY Zenon DEF UpdateRead
<1>. HIDE DEF w
<1>4. Sound(w) /\ Apart(s, w)
  BY <1>1, <1>2, ApartOpened, Zenon DEF Sound, Locks, Row
<1>5. RestOK' /\ UNCHANGED <<git, pr, syncs>>
  <2>1. RestOK
    BY TypeGroups, Zenon
  <2>2. requests' \in 0 .. MaxRequests
    <3>1. Request("update")
      BY Zenon DEF UpdateRead
    <3>. QED
      BY <2>1, <3>1, PullAssumption, SMTT(40) DEF RestOK, Request
  <2>3. crossed' \subseteq PRs
    BY <2>1, Zenon DEF RestOK, UpdateRead, Overlap
  <2>. QED
    BY <2>1, <2>2, <2>3, Zenon DEF RestOK, UpdateRead, queues
<1>. QED
  BY <1>2, <1>3, <1>4, <1>5, ReadStep, TypeGroups, Zenon DEF TableOK

\* DeleteRead keeps TypeInv.
LEMMA TypeDeleteRead ==
    ASSUME TypeInv, NEW s \in Procs, NEW p \in PRs, DeleteRead(s, p)
    PROVE  TypeInv'
<1>1. PICK w \in Proc : /\ Begin(s, w) /\ w.step = "delete" /\ w.p = p
                         /\ w.head = pr[p].head /\ w.hoid = pr[p].hoid
  BY DeleteReadMove, SMTT(40)
<1>2. Sound(w) /\ Apart(s, w)
  BY <1>1, ApartOpened, Zenon DEF Sound, Locks, DeleteRead
<1>3. RestOK' /\ UNCHANGED <<git, pr, syncs>>
  <2>1. RestOK
    BY TypeGroups, Zenon
  <2>2. requests' \in 0 .. MaxRequests
    BY <2>1, PullAssumption, SMTT(40) DEF RestOK, DeleteRead, Request
  <2>. QED
    BY <2>1, <2>2, Zenon DEF RestOK, DeleteRead, queues
<1>. QED
  BY <1>1, <1>2, <1>3, ReadStep, TypeGroups, Zenon DEF TableOK

\* SyncLost keeps TypeInv.
LEMMA TypeSyncLost ==
    ASSUME TypeInv, NEW s \in Procs, SyncLost(s)
    PROVE  TypeInv'
<1>1. RestOK /\ TableOK /\ Sound(proc[s])
  BY TypeGroups, OwnWork
<1>2. proc[s].p \in PRs /\ Opened(proc[s].p)
  BY <1>1, Zenon DEF Sound, SyncLost
<1>3. /\ syncs' \in [PRs -> 0 .. MaxSyncs] /\ \A q \in PRs : syncs'[q] > 0 => Opened(q)
  BY <1>1, <1>2, PullAssumption, SMTT(40) DEF SyncLost, RestOK, TableOK
<1>4. faults' \in 0 .. MaxFaults
  BY <1>1, PullAssumption, SMTT(30), ZenonT(30) DEF SyncLost, RestOK, Fault, Spend
<1>5. RestOK'
  BY <1>1, <1>3, <1>4, Zenon DEF SyncLost, RestOK
<1>. QED
  BY <1>3, <1>5, IdleStep, Zenon DEF SyncLost

\* MergeFails keeps TypeInv.
LEMMA TypeMergeFails ==
    ASSUME TypeInv, NEW s \in Procs, MergeFails(s)
    PROVE  TypeInv'
<1>1. RestOK' /\ UNCHANGED <<git, pr, syncs>> /\ Done(s)
  BY TypeGroups, SMTT(30), ZenonT(30) DEF RestOK, MergeFails, queues
<1>. QED
  BY <1>1, IdleStep, TypeGroups, Zenon DEF TableOK

\* MergeTorn keeps TypeInv.
LEMMA TypeMergeTorn ==
    ASSUME TypeInv, NEW s \in Procs, MergeTorn(s)
    PROVE  TypeInv'
<1>1. RestOK /\ Sound(proc[s])
  BY TypeGroups, OwnWork
<1>2. faults' \in 0 .. MaxFaults
  BY <1>1, PullAssumption, SMTT(40) DEF MergeTorn, RestOK, Fault, Spend
<1>3. torn' \subseteq PRs
  BY <1>1, Zenon DEF MergeTorn, RestOK, Sound, At
<1>4. RestOK' /\ UNCHANGED <<git, pr, syncs>> /\ Done(s)
  BY <1>1, <1>2, <1>3 DEF MergeTorn, RestOK, queues
<1>. QED
  BY <1>4, IdleStep, TypeGroups, Zenon DEF TableOK

\* CreateCommit keeps TypeInv.
LEMMA TypeCreateCommit ==
    ASSUME TypeInv, NEW s \in Procs, CreateCommit(s)
    PROVE  TypeInv'
<1>. DEFINE v == proc[s]
<1>1. RestOK /\ v \in Proc /\ Sound(v) /\ v.step = "insert"
  BY TypeGroups, OwnWork, Zenon DEF CreateCommit, At
<1>2. /\ v.p \in PRs /\ ~Opened(v.p) /\ v.base \in Branches /\ v.head \in Branches
      /\ v.base # v.head /\ v.boid \in Known /\ v.hoid \in Known
      /\ v.boid \in Commits /\ v.hoid \in Commits
  BY <1>1, Zenon DEF Sound, Known
<1>3. faults' \in 0 .. MaxFaults
  BY <1>1, PullAssumption, SMTT(40) DEF CreateCommit, RestOK, Fault, Spend
<1>4. RestOK' /\ UNCHANGED <<git, syncs>>
  BY <1>1, <1>3, Zenon DEF CreateCommit, RestOK, queues
<1>5. CASE /\ pr' = [pr EXCEPT ![v.p] = Row0(v.base, v.head, v.boid, v.hoid)]
           /\ Begin(s, Keeping("fill", v.p, v.boid, v.hoid))
  <2>1. PICK p \in PRs, b \in Branches, h \in Branches, x \in Commits, y \in Commits :
          p = v.p /\ b = v.base /\ h = v.head /\ x = v.boid /\ y = v.hoid
    BY <1>2, SMTT(30), ZenonT(30)
  <2>2. pr' = [pr EXCEPT ![p] = Row0(b, h, x, y)] /\ Begin(s, Keeping("fill", p, x, y))
    BY <1>5, <2>1, Zenon
  <2>3. /\ Wrote(p) /\ pr'[p].boid = x /\ pr'[p].hoid = y
        /\ pr'[p].base = b /\ pr'[p].head = h
        /\ pr'[p].merged = None /\ pr'[p].mhead = None
    BY <2>2, NewRow, ZenonT(40)
  <2>4. PICK w \in Proc : /\ Begin(s, w) /\ w.step = "fill" /\ w.p = p
                           /\ w.boid = x /\ w.hoid = y
    <3>1. Keeps(Keeping("fill", p, x, y), "fill", p, x, y)
      BY Keepers, KeepingWork, Zenon
    <3>. QED
      BY <2>2, <3>1, Zenon DEF Keeps
  <2>5. Known' = Known /\ pr'[p] # None
    BY <1>4, <2>3, PullAssumption, Zenon DEF git, Known, Exists, Wrote
  <2>6. x \in Known /\ y \in Known /\ b # h /\ ~Opened(p) /\ At(s, "insert") /\ p = proc[s].p
    BY <1>1, <1>2, <2>1, Zenon DEF At
  <2>7. Sound(w)'
    BY <2>4, <2>5, <2>6, ZenonT(30) DEF Sound, Locks, Opened
  <2>8. Apart(s, w)
    BY <2>4, ApartOpened, Zenon DEF Locks
  <2>. HIDE DEF v
  <2>. QED
    BY <1>4, <2>3, <2>4, <2>6, <2>7, <2>8, WriteStep, Zenon
<1>6. CASE Done(s) /\ UNCHANGED pr
  BY <1>4, <1>6, IdleStep, TypeGroups, Zenon DEF TableOK
<1>. QED
  BY <1>5, <1>6, Zenon DEF CreateCommit

\* A write to the row of an existing request that leaves its branches and its
\* merge alone, and ends.
LEMMA EndStep ==
    ASSUME TypeInv, NEW s \in Procs, NEW w \in Proc, Begin(s, w), NEW p \in PRs, Wrote(p),
           p = proc[s].p, Opened(p), w = Idle \/ (w.step = "reset" /\ w.p = p),
           pr'[p].boid \in Known, pr'[p].hoid \in Known, pr'[p].base # pr'[p].head,
           pr'[p].head = pr[p].head,
           pr'[p].merged = pr[p].merged, pr'[p].mhead = pr[p].mhead,
           UNCHANGED <<git, syncs>>, RestOK'
    PROVE  TypeInv'
<1>1. pr[p].merged = None <=> pr[p].mhead = None
  BY ZenonT(30) DEF TypeInv, TypeOK
<1>2. pr'[p] # None
  BY PullAssumption, Zenon DEF Wrote
<1>3. Sound(w)' /\ Apart(s, w)
  <2>1. CASE w = Idle
    <3>1. w.step = "idle" /\ w.p = None
      BY <2>1, IdleWork, Zenon
    <3>. QED
      BY <2>1, <3>1, IdleSound, Zenon DEF Sound, Locks
  <2>2. CASE w.step = "reset" /\ w.p = p
    BY <1>2, <2>2, ApartOpened, Zenon DEF Sound, Locks, Opened
  <2>. QED
    BY <2>1, <2>2, Zenon
<1>. QED
  BY <1>1, <1>3, WriteStep, Zenon

\* CreateFill keeps TypeInv.
LEMMA TypeCreateFill ==
    ASSUME TypeInv, NEW s \in Procs, CreateFill(s)
    PROVE  TypeInv'
<1>. DEFINE v == proc[s]
<1>1. RestOK /\ v \in Proc /\ Sound(v) /\ v.step = "fill"
  BY TypeGroups, OwnWork, Zenon DEF CreateFill, At
<1>2. /\ v.p \in PRs /\ Opened(v.p) /\ v.boid \in Known /\ v.hoid \in Known
      /\ v.boid \in Commits /\ v.hoid \in Commits
  BY <1>1, Zenon DEF Sound, Known
<1>3. faults' \in 0 .. MaxFaults
  BY <1>1, PullAssumption, SMTT(40) DEF CreateFill, RestOK, Fault, Spend
<1>4. RestOK' /\ UNCHANGED <<git, syncs>>
  BY <1>1, <1>3, Zenon DEF CreateFill, RestOK, queues
<1>5. CASE pr' = [pr EXCEPT ![v.p].boid = v.boid, ![v.p].hoid = v.hoid]
  <2>1. v.p = proc[s].p
    OBVIOUS
  <2>2. Begin(s, Idle)
    BY Zenon DEF CreateFill, Done
  <2>3. pr[v.p].base # pr[v.p].head
    BY <1>2, Zenon DEF TypeInv, RowsOK
  <2>. HIDE DEF v
  <2>4. /\ Wrote(v.p) /\ pr'[v.p].boid = v.boid /\ pr'[v.p].hoid = v.hoid
        /\ pr'[v.p].base = pr[v.p].base /\ pr'[v.p].head = pr[v.p].head
        /\ pr'[v.p].merged = pr[v.p].merged /\ pr'[v.p].mhead = pr[v.p].mhead
    BY <1>2, <1>5, SnapshotRow, Zenon
  <2>. QED
    BY <1>2, <1>4, <2>1, <2>2, <2>3, <2>4, IdleWork, EndStep, Zenon
<1>6. CASE UNCHANGED pr
  BY <1>4, <1>6, IdleStep, TypeGroups DEF TableOK, CreateFill
<1>. QED
  BY <1>5, <1>6, Zenon DEF CreateFill

\* UpdateRecord keeps TypeInv.
LEMMA TypeUpdateRecord ==
    ASSUME TypeInv, NEW s \in Procs, UpdateRecord(s)
    PROVE  TypeInv'
<1>. DEFINE v == proc[s]
<1>1. RestOK /\ v \in Proc /\ Sound(v) /\ v.step = "record"
  BY TypeGroups, OwnWork, Zenon DEF UpdateRecord, At
<1>2. /\ v.p \in PRs /\ Opened(v.p) /\ v.boid \in Known /\ v.hoid \in Known
      /\ v.boid \in Commits /\ v.hoid \in Commits
  BY <1>1, Zenon DEF Sound, Known
<1>3. faults' \in 0 .. MaxFaults /\ torn' \subseteq PRs
  BY <1>1, <1>2, PullAssumption, SMTT(40) DEF UpdateRecord, RestOK, Fault, Spend
<1>4. RestOK' /\ UNCHANGED <<git, syncs>>
  BY <1>1, <1>3, Zenon DEF UpdateRecord, RestOK, queues
<1>5. CASE pr' = [pr EXCEPT ![v.p].boid = v.boid, ![v.p].hoid = v.hoid]
  <2>1. v.p = proc[s].p
    BY Zenon
  <2>2. Begin(s, Idle)
    BY Zenon DEF UpdateRecord, Done
  <2>3. pr[v.p].base # pr[v.p].head
    BY <1>2, Zenon DEF TypeInv, RowsOK
  <2>. HIDE DEF v
  <2>4. /\ Wrote(v.p) /\ pr'[v.p].boid = v.boid /\ pr'[v.p].hoid = v.hoid
        /\ pr'[v.p].base = pr[v.p].base /\ pr'[v.p].head = pr[v.p].head
        /\ pr'[v.p].merged = pr[v.p].merged /\ pr'[v.p].mhead = pr[v.p].mhead
    BY <1>2, <1>5, SnapshotRow, Zenon
  <2>. QED
    BY <1>2, <1>4, <2>1, <2>2, <2>3, <2>4, IdleWork, EndStep, Zenon
<1>6. CASE UNCHANGED pr
  BY <1>4, <1>6, IdleStep, TypeGroups, Zenon DEF TableOK, UpdateRecord
<1>. QED
  BY <1>5, <1>6, Zenon DEF UpdateRecord

\* SyncRefresh keeps TypeInv.
LEMMA TypeSyncRefresh ==
    ASSUME TypeInv, NEW s \in Procs, SyncRefresh(s)
    PROVE  TypeInv'
<1>. DEFINE v == proc[s]
            w == On("reset", v.p)
<1>1. v \in Proc /\ Sound(v) /\ v.step = "sync"
  BY OwnWork, Zenon DEF SyncRefresh, At
<1>2. /\ v.p \in PRs /\ Opened(v.p) /\ v.boid \in Known /\ v.hoid \in Known
      /\ v.boid \in Commits /\ v.hoid \in Commits
  BY <1>1, Zenon DEF Sound, Known
<1>3. RestOK' /\ UNCHANGED <<git, syncs>>
  BY TypeGroups, Zenon DEF SyncRefresh, RestOK, queues
<1>4. w \in Proc /\ w.step = "reset" /\ w.p = v.p
  BY <1>2, OnWork, SMTT(40) DEF Steps
<1>5. v.p = proc[s].p /\ Begin(s, w) /\ pr' = [pr EXCEPT ![v.p].boid = v.boid, ![v.p].hoid = v.hoid]
  BY Zenon DEF SyncRefresh
<1>6. pr[v.p].base # pr[v.p].head
  BY <1>2, Zenon DEF TypeInv, RowsOK
<1>. HIDE DEF v, w
<1>7. /\ Wrote(v.p) /\ pr'[v.p].boid = v.boid /\ pr'[v.p].hoid = v.hoid
      /\ pr'[v.p].base = pr[v.p].base /\ pr'[v.p].head = pr[v.p].head
      /\ pr'[v.p].merged = pr[v.p].merged /\ pr'[v.p].mhead = pr[v.p].mhead
  BY <1>2, <1>5, SnapshotRow, Zenon
<1>. QED
  BY <1>2, <1>3, <1>4, <1>5, <1>6, <1>7, EndStep, Zenon

\* SyncReset keeps TypeInv.
LEMMA TypeSyncReset ==
    ASSUME TypeInv, NEW s \in Procs, SyncReset(s)
    PROVE  TypeInv'
<1>. DEFINE v == proc[s]
<1>1. RestOK /\ v \in Proc /\ Sound(v) /\ v.step = "reset"
  BY TypeGroups, OwnWork, Zenon DEF SyncReset, At
<1>2. /\ v.p \in PRs /\ Opened(v.p) /\ pr[v.p].base # pr[v.p].head
      /\ pr[v.p].boid \in Known /\ pr[v.p].hoid \in Known
  BY <1>1, Zenon DEF Sound, TypeInv, RowsOK
<1>3. RestOK' /\ UNCHANGED <<git, syncs>>
  BY <1>1, Zenon DEF SyncReset, RestOK, queues
<1>4. v.p = proc[s].p /\ Begin(s, Idle) /\ pr' = [pr EXCEPT ![v.p].verdict = "unknown"]
  BY Zenon DEF SyncReset, Done
<1>. HIDE DEF v
<1>6. /\ Wrote(v.p) /\ pr'[v.p].boid = pr[v.p].boid /\ pr'[v.p].hoid = pr[v.p].hoid
      /\ pr'[v.p].base = pr[v.p].base /\ pr'[v.p].head = pr[v.p].head
      /\ pr'[v.p].merged = pr[v.p].merged /\ pr'[v.p].mhead = pr[v.p].mhead
  BY <1>2, <1>4, VerdictRow, Zenon DEF Verdicts
<1>. QED
  BY <1>2, <1>3, <1>4, <1>6, IdleWork, EndStep, Zenon

\* Judge keeps TypeInv.
LEMMA TypeJudge ==
    ASSUME TypeInv, NEW s \in Procs, Judge(s)
    PROVE  TypeInv'
<1>. DEFINE v == proc[s]
<1>1. RestOK /\ v \in Proc /\ Sound(v) /\ v.step = "judge"
  BY TypeGroups, OwnWork, Zenon DEF Judge, At
<1>2. /\ v.p \in PRs /\ Opened(v.p) /\ pr[v.p].base # pr[v.p].head
      /\ pr[v.p].boid \in Known /\ pr[v.p].hoid \in Known
  BY <1>1, Zenon DEF Sound, TypeInv, RowsOK
<1>3. RestOK' /\ UNCHANGED <<git, syncs>>
  BY <1>1 DEF Judge, RestOK, queues
<1>4. v.p = proc[s].p /\ Begin(s, Idle) /\ \E x \in Verdicts : pr' = [pr EXCEPT ![v.p].verdict = x]
  BY Zenon DEF Judge, Done, Judgement, Verdicts
<1>. HIDE DEF v
<1>6. /\ Wrote(v.p) /\ pr'[v.p].boid = pr[v.p].boid /\ pr'[v.p].hoid = pr[v.p].hoid
      /\ pr'[v.p].base = pr[v.p].base /\ pr'[v.p].head = pr[v.p].head
      /\ pr'[v.p].merged = pr[v.p].merged /\ pr'[v.p].mhead = pr[v.p].mhead
  BY <1>2, <1>4, VerdictRow, Zenon
<1>. QED
  BY <1>2, <1>3, <1>4, <1>6, IdleWork, EndStep, Zenon

\* StateWrite keeps TypeInv.
LEMMA TypeStateWrite ==
    ASSUME TypeInv, NEW s \in Procs, StateWrite(s)
    PROVE  TypeInv'
<1>. DEFINE v == proc[s]
<1>1. RestOK /\ v \in Proc /\ Sound(v) /\ v.step = "state"
  BY TypeGroups, OwnWork DEF StateWrite, At
<1>2. /\ v.p \in PRs /\ Opened(v.p) /\ pr[v.p].base # pr[v.p].head
      /\ pr[v.p].boid \in Known /\ pr[v.p].hoid \in Known
  BY <1>1, Zenon DEF Sound, TypeInv, RowsOK
<1>3. RestOK' /\ UNCHANGED <<git, syncs>>
  <2>1. moved' \subseteq PRs
    BY <1>1, <1>2, Zenon DEF StateWrite, RestOK
  <2>. QED
    BY <1>1, <2>1, Zenon DEF StateWrite, RestOK, queues
<1>4. v.p = proc[s].p /\ Begin(s, Idle) /\ pr' = [pr EXCEPT ![v.p].open = (v.aim = "open")]
  BY Zenon DEF StateWrite, Done
<1>5. (v.aim = "open") \in BOOLEAN
  BY Zenon
<1>. HIDE DEF v
<1>6. /\ Wrote(v.p) /\ pr'[v.p].boid = pr[v.p].boid /\ pr'[v.p].hoid = pr[v.p].hoid
      /\ pr'[v.p].base = pr[v.p].base /\ pr'[v.p].head = pr[v.p].head
      /\ pr'[v.p].merged = pr[v.p].merged /\ pr'[v.p].mhead = pr[v.p].mhead
  BY <1>2, <1>4, <1>5, StateRow, Zenon
<1>. QED
  BY <1>2, <1>3, <1>4, <1>6, IdleWork, EndStep, Zenon

\* BaseWrite keeps TypeInv.
LEMMA TypeBaseWrite ==
    ASSUME TypeInv, NEW s \in Procs, BaseWrite(s)
    PROVE  TypeInv'
<1>. DEFINE v == proc[s]
<1>1. RestOK /\ v \in Proc /\ Sound(v) /\ v.step = "base"
  BY TypeGroups, OwnWork, Zenon DEF BaseWrite, At
<1>2. /\ v.p \in PRs /\ Opened(v.p) /\ pr[v.p].base # pr[v.p].head
      /\ pr[v.p].boid \in Known /\ pr[v.p].hoid \in Known
  BY <1>1, Zenon DEF Sound, TypeInv, RowsOK
<1>3. RestOK' /\ UNCHANGED <<git, syncs>>
  <2>1. moved' \subseteq PRs
    BY <1>1, <1>2, Zenon DEF BaseWrite, RestOK
  <2>. QED
    BY <1>1, <2>1, Zenon DEF BaseWrite, RestOK, queues
<1>4. v.p = proc[s].p /\ Begin(s, Idle) /\ pr' = [pr EXCEPT ![v.p].base = v.base, ![v.p].boid = v.boid]
  BY Zenon DEF BaseWrite, Done
<1>5. /\ v.base \in Branches /\ v.base # pr[v.p].head
      /\ v.boid \in Known /\ v.boid \in Commits
  BY <1>1, Zenon DEF Sound, Known
<1>. HIDE DEF v
<1>6. /\ Wrote(v.p) /\ pr'[v.p].boid = v.boid /\ pr'[v.p].hoid = pr[v.p].hoid
      /\ pr'[v.p].base = v.base /\ pr'[v.p].head = pr[v.p].head
      /\ pr'[v.p].merged = pr[v.p].merged /\ pr'[v.p].mhead = pr[v.p].mhead
  BY <1>2, <1>4, <1>5, BaseRow, Zenon
<1>. QED
  BY <1>2, <1>3, <1>4, <1>5, <1>6, IdleWork, EndStep, Zenon

\* MergeCommit keeps TypeInv.
LEMMA TypeMergeCommit ==
    ASSUME TypeInv, NEW s \in Procs, MergeCommit(s)
    PROVE  TypeInv'
<1>. DEFINE v == proc[s]
<1>1. RestOK /\ v \in Proc /\ Sound(v) /\ v.step = "close"
  BY TypeGroups, OwnWork, Zenon DEF MergeCommit, At
<1>2. /\ v.p \in PRs /\ Opened(v.p) /\ pr[v.p].base # pr[v.p].head
      /\ pr[v.p].boid \in Known /\ pr[v.p].hoid \in Known
      /\ v.boid \in Commits /\ v.hoid \in Commits /\ Locks(v)
  BY <1>1, Zenon DEF Sound, TypeInv, RowsOK, Known, Locks
<1>3. RestOK' /\ UNCHANGED <<git, syncs>>
  <2>1. doid' \in Commits
    BY <1>1, <1>2, Zenon DEF MergeCommit, RestOK
  <2>. QED
    BY <1>1, <2>1, Zenon DEF MergeCommit, RestOK, queues
<1>4. /\ v.p = proc[s].p /\ v = proc[s] /\ Begin(s, Idle)
      /\ pr' = [pr EXCEPT ![v.p].merged = v.boid, ![v.p].mhead = v.hoid,
                          ![v.p].verdict = "clean", ![v.p].open = FALSE]
  BY Zenon DEF MergeCommit, Done
<1>. HIDE DEF v
<1>5. /\ Wrote(v.p) /\ pr'[v.p].boid = pr[v.p].boid /\ pr'[v.p].hoid = pr[v.p].hoid
      /\ pr'[v.p].base = pr[v.p].base /\ pr'[v.p].head = pr[v.p].head
      /\ pr'[v.p].merged = v.boid /\ pr'[v.p].mhead = v.hoid
  BY <1>2, <1>4, MergedRow, ZenonT(60)
<1>6. v.boid # None /\ v.hoid # None
  BY <1>2, PullAssumption, Zenon
<1>7. Sound(Idle)' /\ Apart(s, Idle)
  BY IdleWork, IdleSound, Zenon DEF Sound, Locks
<1>. QED
  BY <1>2, <1>3, <1>4, <1>5, <1>6, <1>7, IdleWork, WriteStep, Zenon

\* What PerformMerge builds is new, or is the base itself.
LEMMA MergedCommit ==
    ASSUME TypeInv, NEW s \in Procs, At(s, "perform"), NEW n \in Fresh
    PROVE  /\ Merged(s, n).commit \in Commits
           /\ Merged(s, n).anc \in SUBSET Commits /\ Merged(s, n).has \in SUBSET Commits
           /\ \/ Merged(s, n).commit \notin Known
              \/ /\ Merged(s, n).anc = anc[Merged(s, n).commit]
                 /\ Merged(s, n).has = has[Merged(s, n).commit]
           /\ has[proc[s].boid] \subseteq Merged(s, n).has
           /\ has[proc[s].hoid] \subseteq Merged(s, n).has
           /\ Merged(s, n).anc \subseteq anc[proc[s].boid] \cup anc[proc[s].hoid]
<1>. DEFINE x == proc[s].boid
            y == proc[s].hoid
<1>1. x \in Known /\ y \in Known /\ x \in Commits /\ y \in Commits
  BY OwnWork, Zenon DEF Sound, Locks, At, Known
<1>2. anc \in [Commits -> SUBSET Commits] /\ has \in [Commits -> SUBSET Commits]
  BY Zenon DEF TypeInv, TypeOK
<1>3. n \in Commits /\ n \notin Known
  BY Zenon DEF Fresh, Known
<1>4. CASE proc[s].aim = "rebase" /\ has[y] \subseteq has[x]
  <2>1. Merged(s, n) = [commit |-> x, anc |-> anc[x], has |-> has[x]]
    BY <1>4 DEF Merged
  <2>. QED
    BY <1>1, <1>2, <1>4, <2>1, SMTT(40)
<1>5. CASE ~(proc[s].aim = "rebase" /\ has[y] \subseteq has[x])
  <2>1. /\ Merged(s, n).commit = n /\ Merged(s, n).has = has[x] \cup has[y]
        /\ Merged(s, n).anc \in {anc[x], anc[x] \cup anc[y]}
    BY <1>5, Zenon DEF Merged
  <2>. QED
    BY <1>1, <1>2, <1>3, <2>1, Zenon
<1>. QED
  BY <1>4, <1>5, Zenon

\* What MergePerform does.
LEMMA MergePerformMove ==
    ASSUME TypeInv, NEW s \in Procs, MergePerform(s)
    PROVE  \E c \in Commits : \E w \in Proc :
              /\ Begin(s, w) /\ w.step = "close" /\ w.p = proc[s].p /\ w.base = proc[s].base
              /\ w.head = proc[s].head /\ w.boid = c /\ w.hoid = proc[s].hoid
              /\ landed' = [landed EXCEPT ![proc[s].p] =
                    @ \cup {[on |-> proc[s].base, commit |-> c, head |-> proc[s].hoid]}]
              /\ GitOK' /\ tip'[proc[s].base] = c
              /\ \A b \in Branches : b # proc[s].base => tip'[b] = tip[b]
              /\ c \in Known'
              /\ \A d \in Known : d \in Known' /\ anc'[d] = anc[d] /\ has'[d] = has[d]
              /\ has[proc[s].boid] \subseteq has'[c] /\ has[proc[s].hoid] \subseteq has'[c]
<1>1. PICK n \in Fresh :
        /\ Commit(proc[s].base, Merged(s, n).commit, Merged(s, n).anc, Merged(s, n).has)
        /\ landed' = [landed EXCEPT ![proc[s].p] =
              @ \cup {[on |-> proc[s].base, commit |-> Merged(s, n).commit, head |-> proc[s].hoid]}]
        /\ Begin(s, [proc[s] EXCEPT !.step = "close", !.boid = Merged(s, n).commit, !.aim = None])
  BY Zenon DEF MergePerform
<1>. DEFINE m == Merged(s, n)
            c == m.commit
            k == proc[s]
            w == [k EXCEPT !.step = "close", !.boid = c, !.aim = None]
<1>2. At(s, "perform") /\ k.base \in Branches /\ k \in Proc
  BY OwnWork, Zenon DEF MergePerform, Sound, Locks, At
<1>3. /\ c \in Commits /\ m.anc \in SUBSET Commits /\ m.has \in SUBSET Commits
      /\ c \notin Known \/ (m.anc = anc[c] /\ m.has = has[c])
      /\ has[k.boid] \subseteq m.has /\ has[k.hoid] \subseteq m.has
  BY <1>2, MergedCommit, Zenon
<1>4. Begin(s, w) /\ Commit(k.base, c, m.anc, m.has)
  BY <1>1, Zenon
<1>5. landed' = [landed EXCEPT ![k.p] = @ \cup {[on |-> k.base, commit |-> c, head |-> k.hoid]}]
  BY <1>1
<1>. HIDE DEF m, k
<1>6. /\ GitOK' /\ tip'[k.base] = c
      /\ \A b \in Branches : b # k.base => tip'[b] = tip[b]
      /\ c \in Known' /\ has'[c] = m.has
      /\ \A d \in Known : d \in Known' /\ anc'[d] = anc[d] /\ has'[d] = has[d]
  <2>1. PICK b \in Branches, x \in Commits, a \in SUBSET Commits, h \in SUBSET Commits :
          b = k.base /\ x = c /\ a = m.anc /\ h = m.has
    BY <1>2, <1>3, Zenon
  <2>2. Commit(b, x, a, h) /\ (x \notin Known \/ (a = anc[x] /\ h = has[x]))
    BY <1>3, <1>4, <2>1
  <2>3. Committed(b, x, h)
    BY <2>2, CommitEffect, Zenon
  <2>. HIDE DEF c
  <2>. QED
    BY <2>1, <2>3, Zenon DEF Committed
<1>7. /\ w \in Proc /\ w.step = "close" /\ w.p = k.p /\ w.base = k.base
      /\ w.head = k.head /\ w.boid = c /\ w.hoid = k.hoid
  <2>. HIDE DEF c
  <2>. QED
    BY <1>2, <1>3, Zenon DEF Proc, Steps
<1>. HIDE DEF w, c
<1>. QED
  BY <1>3, <1>4, <1>5, <1>6, <1>7, Zenon DEF k

\* MergePerform keeps TypeInv.
LEMMA TypeMergePerform ==
    ASSUME TypeInv, NEW s \in Procs, MergePerform(s)
    PROVE  TypeInv'
<1>. DEFINE v == proc[s]
<1>1. RestOK /\ v \in Proc /\ Sound(v) /\ v.step = "perform"
  BY TypeGroups, OwnWork, Zenon DEF MergePerform, At
<1>2. PICK c \in Commits, w \in Proc :
        /\ Begin(s, w) /\ w.step = "close" /\ w.p = v.p /\ w.base = v.base
        /\ w.boid = c /\ w.hoid = v.hoid
        /\ landed' = [landed EXCEPT ![v.p] =
              @ \cup {[on |-> v.base, commit |-> c, head |-> v.hoid]}]
        /\ GitOK' /\ c \in Known' /\ \A d \in Known : d \in Known'
  BY MergePerformMove
<1>3. /\ v.p \in PRs /\ Opened(v.p) /\ v.hoid \in Known /\ v.hoid \in Commits
      /\ v.base \in Branches /\ pr[v.p].merged = None /\ v.base # pr[v.p].head
  BY <1>1, Zenon DEF Sound, Known, Locks
<1>4. UNCHANGED <<pr, syncs>>
  BY Zenon DEF MergePerform, queues
<1>5. Sound(w)'
  BY <1>2, <1>3, <1>4, Zenon DEF Sound, Locks, Opened
<1>6. Apart(s, w)
  BY <1>1, <1>2, ApartOpened, Z3T(20), Zenon DEF Locks
<1>7. landed' \in [PRs -> SUBSET Landing]
  <2>. HIDE DEF v
  <2>1. [on |-> v.base, commit |-> c, head |-> v.hoid] \in Landing
    BY <1>3, ZenonT(60) DEF Landing
  <2>. QED
    BY <1>1, <1>2, <1>3, <2>1, ZenonT(60) DEF RestOK
<1>8. RestOK'
  <2>1. mixed' \in BOOLEAN
    BY <1>1, ZenonT(10) DEF MergePerform, RestOK, Mix
  <2>2. crossed' \subseteq PRs
    BY <1>1, Zenon DEF MergePerform, RestOK, Unheard
  <2>. QED
    BY <1>1, <1>7, <2>1, <2>2, Zenon DEF MergePerform, RestOK, queues
<1>. QED
  BY <1>2, <1>4, <1>5, <1>6, <1>8, BranchStep

\* What UpdatePerform does when it moves the head.
LEMMA UpdatePerformMove ==
    ASSUME TypeInv, NEW s \in Procs, UpdatePerform(s), ~Done(s)
    PROVE  \E n \in Commits : \E w \in Proc :
              /\ Begin(s, w) /\ w.step = "record" /\ w.p = proc[s].p
              /\ w.boid = proc[s].boid /\ w.hoid = n
              /\ tip[proc[s].head] = proc[s].hoid
              /\ GitOK' /\ tip'[proc[s].head] = n
              /\ \A b \in Branches : b # proc[s].head => tip'[b] = tip[b]
              /\ n \in Known' /\ n \notin Known
              /\ \A d \in Known : d \in Known' /\ anc'[d] = anc[d] /\ has'[d] = has[d]
              /\ has[proc[s].hoid] \subseteq has'[n]
              /\ updated' = IF proc[s].head = Default THEN updated \cup {n} ELSE updated
              /\ Unheard(proc[s].p, proc[s].head)
<1>. DEFINE k == proc[s]
            b == tip[k.base]
            a == IF k.aim = "rebase" THEN anc[b] ELSE anc[b] \cup anc[k.hoid]
            h == has[b] \cup has[k.hoid]
<1>1. PICK n \in Fresh :
        /\ b # None /\ tip[k.head] = k.hoid
        /\ Commit(k.head, n, a, h)
        /\ Begin(s, Keeping("record", k.p, k.boid, n))
        /\ updated' = IF k.head = Default THEN updated \cup {n} ELSE updated
        /\ Unheard(k.p, k.head)
  BY Zenon DEF UpdatePerform
<1>2. /\ k.p \in PRs /\ k.base \in Branches /\ k.head \in Branches
      /\ k.boid \in Commits /\ k.hoid \in Commits
  BY OwnWork, Zenon DEF UpdatePerform, Sound, Locks, At, Known
<1>3. n \in Commits /\ n \notin Known
  BY Zenon DEF Fresh, Known
<1>4. b \in Commits
  BY <1>1, <1>2, Zenon DEF TypeInv, TypeOK
<1>5. a \in SUBSET Commits /\ h \in SUBSET Commits
  BY <1>2, <1>4, Zenon DEF TypeInv, TypeOK
<1>6. has[k.hoid] \subseteq h
  BY Zenon
<1>. DEFINE w == Keeping("record", k.p, k.boid, n)
<1>7. w \in Proc /\ w.step = "record" /\ w.p = k.p /\ w.boid = k.boid /\ w.hoid = n
  <2>1. Keeps(w, "record", k.p, k.boid, n)
    BY <1>2, <1>3, Keepers, KeepingWork, Zenon
  <2>. QED
    BY <2>1, Zenon DEF Keeps
<1>8. Begin(s, w)
  BY <1>1, Zenon
<1>. HIDE DEF w, k, a, h, b
<1>9. /\ GitOK' /\ tip'[k.head] = n /\ has'[n] = h /\ n \in Known'
      /\ \A c \in Branches : c # k.head => tip'[c] = tip[c]
      /\ \A d \in Known : d \in Known' /\ anc'[d] = anc[d] /\ has'[d] = has[d]
  <2>1. k.head \in Branches /\ Commit(k.head, n, a, h)
    BY <1>1, <1>2, Zenon
  <2>2. Committed(k.head, n, h)
    BY <1>3, <1>5, <2>1, CommitEffect, Zenon
  <2>. QED
    BY <2>2, Zenon DEF Committed
<1>. QED
  BY <1>1, <1>3, <1>6, <1>7, <1>8, <1>9, Zenon DEF k

\* UpdatePerform keeps TypeInv.
LEMMA TypeUpdatePerform ==
    ASSUME TypeInv, NEW s \in Procs, UpdatePerform(s)
    PROVE  TypeInv'
<1>. DEFINE v == proc[s]
<1>1. RestOK /\ v \in Proc /\ Sound(v) /\ v.step = "update" /\ UNCHANGED <<pr, syncs>>
  BY TypeGroups, OwnWork, Zenon DEF UpdatePerform, At, queues
<1>2. v.p \in PRs /\ Opened(v.p) /\ v.boid \in Known
  BY <1>1, Zenon DEF Sound
<1>3. CASE Done(s)
  <2>1. UNCHANGED git \/ (\E n \in Fresh : Begin(s, Keeping("record", v.p, v.boid, n)))
    BY Zenon DEF UpdatePerform
  <2>2. ASSUME NEW n \in Fresh, Begin(s, Keeping("record", v.p, v.boid, n)) PROVE FALSE
    <3>. DEFINE w == Keeping("record", v.p, v.boid, n)
    <3>1. w \in Proc /\ w.step = "record"
      <4>1. Keeps(w, "record", v.p, v.boid, n)
        BY <1>2, Keepers, KeepingWork, Zenon DEF Fresh, Known
      <4>. QED
        BY <4>1, Zenon DEF Keeps
    <3>2. proc'[s] = w /\ proc'[s] = Idle
      BY <1>3, <2>2, <3>1, BeginEffect, IdleWork, Zenon DEF TypeInv, Done
    <3>. QED
      BY <3>1, <3>2, IdleWork, Zenon
  <2>3. UNCHANGED <<git, updated, crossed>>
    BY <2>2, Zenon DEF UpdatePerform
  <2>4. RestOK'
    BY <1>1, <2>3, Zenon DEF RestOK, UpdatePerform, queues
  <2>. QED
    BY <1>1, <1>3, <2>3, <2>4, IdleStep, TypeGroups, Zenon DEF TableOK
<1>4. CASE ~Done(s)
  <2>1. PICK n \in Commits, w \in Proc :
              /\ Begin(s, w) /\ w.step = "record" /\ w.p = v.p
              /\ w.boid = v.boid /\ w.hoid = n
              /\ GitOK' /\ n \in Known' /\ \A d \in Known : d \in Known'
              /\ updated' = IF v.head = Default THEN updated \cup {n} ELSE updated
              /\ Unheard(v.p, v.head)
    BY <1>4, UpdatePerformMove, Zenon
  <2>2. Sound(w)'
    BY <1>1, <1>2, <2>1, Zenon DEF Sound, Locks, Opened
  <2>3. Apart(s, w)
    BY <2>1, ApartOpened, Zenon DEF Locks
  <2>4. RestOK'
    <3>1. updated' \subseteq Commits
      BY <1>1, <2>1, Zenon DEF RestOK
    <3>2. crossed' \subseteq PRs
      BY <1>1, <2>1, Zenon DEF RestOK, Unheard
    <3>. QED
      BY <1>1, <3>1, <3>2, Zenon DEF UpdatePerform, RestOK, queues
  <2>. QED
    BY <1>1, <2>1, <2>2, <2>3, <2>4, BranchStep, Zenon
<1>. QED
  BY <1>3, <1>4, Zenon

\* DeleteHead keeps TypeInv.
LEMMA TypeDeleteHead ==
    ASSUME TypeInv, NEW s \in Procs, DeleteHead(s)
    PROVE  TypeInv'
<1>1. RestOK' /\ UNCHANGED <<anc, has, pr, syncs>> /\ Done(s)
  BY TypeGroups, Zenon DEF RestOK, DeleteHead, queues
<1>2. Known' = Known
  BY <1>1, Zenon DEF Known, Exists
<1>3. \A b \in Branches : tip'[b] # None => tip'[b] = tip[b]
  BY Zenon DEF DeleteHead, TypeInv, TypeOK
<1>4. tip' \in [Branches -> Commits \cup {None}]
  BY Zenon DEF DeleteHead, TypeInv, TypeOK
<1>5. tip'[Default] # None
  <2>1. proc[s].head # Default
    BY OwnWork, Zenon DEF DeleteHead, Sound, At
  <2>. QED
    BY <2>1, PullAssumption, Zenon DEF DeleteHead, TypeInv, TypeOK, RowsOK
<1>6. GitOK'
  BY <1>1, <1>2, <1>3, <1>4, <1>5, TypeGroups, Zenon DEF GitOK
<1>7. Sound(Idle)' /\ Apart(s, Idle)
  BY IdleWork, IdleSound, Zenon DEF Sound, Locks
<1>. QED
  BY <1>1, <1>2, <1>6, <1>7, IdleWork, BranchStep, SMTT(30), ZenonT(30) DEF Done

\* TypeInv holds at the start.
LEMMA TypeInit == Init => TypeInv
<1>. SUFFICES ASSUME Init PROVE TypeInv
  BY Zenon
<1>1. RestOK
  <2>1. doid \in Commits /\ faults \in 0 .. MaxFaults /\ requests \in 0 .. MaxRequests
    BY PullAssumption, SMTT(40) DEF Init, Commits
  <2>2. syncs \in [PRs -> 0 .. MaxSyncs]
    BY PullAssumption, SMTT(40) DEF Init
  <2>. QED
    BY <2>1, <2>2, Zenon DEF Init, RestOK
<1>2. GitOK
  <2>1. tip \in [Branches -> Commits \cup {None}]
    BY PullAssumption, Zenon DEF Init
  <2>2. 0 \in Commits
    BY PullAssumption, Zenon DEF Commits
  <2>3. anc \in [Commits -> SUBSET Commits] /\ has \in [Commits -> SUBSET Commits]
    BY <2>2 DEF Init
  <2>4. \A b \in Branches : tip[b] \in Known
    BY PullAssumption, Zenon DEF Init, Known, Exists
  <2>5. tip[Default] # None
    BY PullAssumption, Zenon DEF Init
  <2>. QED
    BY <2>1, <2>3, <2>4, <2>5, Zenon DEF GitOK
<1>3. TableOK
  BY SMTT(40) DEF Init, TableOK, Opened
<1>4. proc \in [Procs -> Proc] /\ \A s \in Procs : proc[s] = Idle
  BY IdleWork, Zenon DEF Init
<1>5. ProcsOK
  <2>1. \A s \in Procs : Sound(proc[s])
    BY <1>4, IdleSound, Zenon
  <2>. QED
    BY <1>4, <2>1, IdleWork, Zenon DEF ProcsOK, Locks
<1>. QED
  BY <1>1, <1>2, <1>3, <1>4, <1>5, TypeGroups, Zenon

\* Every step keeps the types, and with them that commits, requests and locks
\* a process goes on with are there.
LEMMA TypeStep == TypeInv /\ [Next]_vars => TypeInv'
<1>. SUFFICES ASSUME TypeInv, [Next]_vars PROVE TypeInv'
  BY Zenon
<1>1. CASE UNCHANGED vars
  <2>1. RestOK' /\ proc' \in [Procs -> Proc] /\ UNCHANGED <<tip, anc, has, pr, proc, syncs>>
    BY <1>1, TypeGroups, Zenon DEF vars, RestOK
  <2>2. GitOK' /\ TableOK'
    BY <2>1, TypeGroups, Zenon DEF GitOK, TableOK, Known, Exists, Opened
  <2>3. ProcsOK'
    BY <2>1, OwnWork, ZenonT(60) DEF TypeInv, ProcsOK, Sound, Locks, Known, Exists, Opened
  <2>. QED
    BY <2>1, <2>2, <2>3, TypeGroups, Zenon
<1>2. CASE \E b \in Branches : Push(b) \/ PushDelete(b)
  BY <1>2, TypePush, Zenon
<1>3. ASSUME NEW s \in Procs,
             \/ \E e \in events : ProcessPush(s, e)
             \/ ListPRs(s)
             \/ \E p \in PRs, b, h \in Branches : CreateResolve(s, p, b, h)
             \/ CreateProbe(s) \/ CreateCommit(s) \/ CreateFill(s)
      PROVE  TypeInv'
  BY <1>3, TypeProcessPush, TypeListPRs, TypeCreateResolve, TypeCreateProbe,
     TypeCreateCommit, TypeCreateFill, Zenon
<1>4. ASSUME NEW s \in Procs,
             \/ \E p \in PRs : SyncResolve(s, p) \/ Mergeability(s, p) \/ DeleteRead(s, p)
             \/ SyncRefresh(s) \/ SyncReset(s) \/ SyncLost(s) \/ Judge(s)
      PROVE  TypeInv'
  BY <1>4, TypeSyncResolve, TypeMergeability, TypeDeleteRead, TypeSyncRefresh,
     TypeSyncReset, TypeSyncLost, TypeJudge, Zenon
<1>5. ASSUME NEW s \in Procs,
             \/ \E p \in PRs, m \in Methods : MergeLock(s, p, m)
             \/ MergeGate(s) \/ MergePerform(s) \/ MergeFails(s) \/ MergeCommit(s) \/ MergeTorn(s)
      PROVE  TypeInv'
  BY <1>5, TypeMergeLock, TypeMergeGate, TypeMergePerform, TypeMergeFails,
     TypeMergeCommit, TypeMergeTorn
<1>6. ASSUME NEW s \in Procs,
             \/ \E p \in PRs, o \in {"open", "closed"} : StateRead(s, p, o)
             \/ StateWrite(s)
             \/ \E p \in PRs, b \in Branches : BaseResolve(s, p, b)
             \/ BaseWrite(s)
             \/ \E p \in PRs, m \in {"merge", "rebase"} : UpdateRead(s, p, m)
             \/ UpdatePerform(s) \/ UpdateRecord(s) \/ DeleteHead(s)
      PROVE  TypeInv'
  BY <1>6, TypeStateRead, TypeStateWrite, TypeBaseResolve, TypeBaseWrite, TypeUpdateRead,
     TypeUpdatePerform, TypeUpdateRecord, TypeDeleteHead, Zenon
<1>. QED
  BY <1>1, <1>2, <1>3, <1>4, <1>5, <1>6, Zenon DEF Next

\* Type correctness of the rows, the branches, the queues and of what every
\* process is in the middle of.
THEOREM TypeCorrect == Spec => []TypeOK
<1>1. TypeInv => TypeOK
  BY Zenon DEF TypeInv
<1>. QED
  BY <1>1, TypeInit, TypeStep, PTL DEF Spec

-----------------------------------------------------------------------------
(* What leaves a branch *)

\* A commit holds the changes of every commit in its history.
HistInv == \A c \in Known : \A d \in anc[c] : d \in Known /\ has[d] \subseteq has[c]

\* The content of a commit never changes, and only a push to a branch whose
\* rule allows it takes changes off the branch.
Onward ==
    /\ \A c \in Known : c \in Known' /\ has'[c] = has[c]
    /\ \A b \in Branches : Overwritten(b) => "force" \notin Rules[b] /\ UNCHANGED proc

\* A step that leaves the repository alone.
LEMMA OnwardSame == ASSUME TypeInv, UNCHANGED git PROVE Onward
<1>1. UNCHANGED <<tip, anc, has>>
  BY Zenon DEF git
<1>. QED
  BY <1>1, Zenon DEF Onward, Overwritten, Known, Exists

\* A push that may not be forced fast-forwards.
LEMMA OnwardPush == ASSUME TypeInv, HistInv, NEW b \in Branches, Push(b) PROVE Onward
<1>1. PICK c \in Known, n \in Commits :
        Accepts(b, c) /\ Pushed(b, n) /\ has[c] \subseteq has'[n]
  BY PushMove, Zenon
<1>2. /\ tip'[b] = n /\ \A d \in Branches : d # b => tip'[d] = tip[d]
      /\ \A d \in Known : d \in Known' /\ has'[d] = has[d]
  BY <1>1, Zenon DEF Pushed
<1>3. \A d \in Branches : tip[d] # None => tip[d] \in Known
  BY Zenon DEF TypeInv, RowsOK
<1>4. \A d \in Branches : d # b => ~Overwritten(d)
  BY <1>2, <1>3, Zenon DEF Overwritten
<1>5. Overwritten(b) => "force" \notin Rules[b]
  <2>. SUFFICES ASSUME Overwritten(b), "force" \in Rules[b] PROVE FALSE
    BY Zenon
  <2>1. tip[b] \in anc[c]
    BY <1>1, Zenon DEF Accepts, Overwritten
  <2>2. has[tip[b]] \subseteq has[c]
    BY <2>1, Zenon DEF HistInv
  <2>. QED
    BY <1>1, <1>2, <2>2, Zenon DEF Overwritten
<1>. QED
  BY <1>2, <1>4, <1>5, Zenon DEF Onward, Push

\* A branch that is deleted is not overwritten.
LEMMA OnwardPushDelete == ASSUME TypeInv, NEW b \in Branches, PushDelete(b) PROVE Onward
<1>1. Pushed(b, None)
  BY PushDeleteMove, Zenon
<1>2. \A d \in Branches : tip[d] # None => tip[d] \in Known
  BY Zenon DEF TypeInv, RowsOK
<1>3. \A d \in Branches : ~Overwritten(d)
  BY <1>1, <1>2, Zenon DEF Overwritten, Pushed
<1>. QED
  BY <1>1, <1>3, Zenon DEF Onward, Pushed

\* update-ref moves the base from the commit that was merged onto.
LEMMA OnwardMergePerform == ASSUME TypeInv, NEW s \in Procs, MergePerform(s) PROVE Onward
<1>1. PICK c \in Commits :
        /\ tip'[proc[s].base] = c
        /\ \A b \in Branches : b # proc[s].base => tip'[b] = tip[b]
        /\ \A d \in Known : d \in Known' /\ has'[d] = has[d]
        /\ has[proc[s].boid] \subseteq has'[c]
  BY MergePerformMove, ZenonT(30)
<1>2. tip[proc[s].base] = proc[s].boid /\ proc[s].boid \in Known
  BY OwnWork, Zenon DEF MergePerform, Sound, At
<1>3. \A c1 \in Branches : tip[c1] # None => tip[c1] \in Known
  BY Zenon DEF TypeInv, RowsOK
<1>4. \A b \in Branches : ~Overwritten(b)
  BY <1>1, <1>2, <1>3, Zenon DEF Overwritten
<1>. QED
  BY <1>1, <1>4, Zenon DEF Onward

\* An update-branch that ends moves nothing.
LEMMA UpdateEnds ==
    ASSUME TypeInv, NEW s \in Procs, UpdatePerform(s), Done(s)
    PROVE  UNCHANGED <<git, updated, crossed>>
<1>. SUFFICES ASSUME NEW n \in Fresh, Begin(s, Keeping("record", proc[s].p, proc[s].boid, n))
              PROVE  FALSE
  BY ZenonT(30) DEF UpdatePerform
<1>1. proc'[s] = Idle /\ proc'[s] = Keeping("record", proc[s].p, proc[s].boid, n)
  BY Zenon DEF Done, Begin, TypeInv, TypeOK
<1>2. Idle.step = "idle" /\ Keeping("record", proc[s].p, proc[s].boid, n).step = "record"
  BY Zenon DEF Keeping, On, Idle
<1>. QED
  BY <1>1, <1>2, Zenon

\* update-branch moves the head from the commit it was built on.
LEMMA OnwardUpdatePerform == ASSUME TypeInv, NEW s \in Procs, UpdatePerform(s) PROVE Onward
<1>1. CASE UNCHANGED git
  BY <1>1, OnwardSame, Zenon
<1>2. CASE ~Done(s)
  <2>1. PICK n \in Commits :
          /\ tip[proc[s].head] = proc[s].hoid
          /\ tip'[proc[s].head] = n
          /\ \A b \in Branches : b # proc[s].head => tip'[b] = tip[b]
          /\ \A d \in Known : d \in Known' /\ has'[d] = has[d]
          /\ has[proc[s].hoid] \subseteq has'[n]
    BY <1>2, UpdatePerformMove, Zenon
  <2>2. proc[s].hoid \in Known
    BY OwnWork, Zenon DEF UpdatePerform, Sound, At
  <2>3. \A c \in Branches : tip[c] # None => tip[c] \in Known
    BY Zenon DEF TypeInv, RowsOK
  <2>4. \A b \in Branches : ~Overwritten(b)
    BY <2>1, <2>2, <2>3, Zenon DEF Overwritten
  <2>. QED
    BY <2>1, <2>4, Zenon DEF Onward
<1>3. Done(s) => UNCHANGED git
  BY UpdateEnds, Zenon
<1>. QED
  BY <1>1, <1>2, <1>3, Zenon

\* A branch that is deleted is gone.
LEMMA OnwardDeleteHead == ASSUME TypeInv, NEW s \in Procs, DeleteHead(s) PROVE Onward
<1>1. UNCHANGED <<anc, has>>
  BY Zenon DEF DeleteHead
<1>2. \A b \in Branches : tip'[b] = tip[b] \/ tip'[b] = None
  BY Zenon DEF DeleteHead, TypeInv, TypeOK
<1>. QED
  BY <1>1, <1>2, Zenon DEF Onward, Overwritten, Known, Exists

\* The only steps that touch the repository.
LEMMA WhoMoves ==
    ASSUME [Next]_vars
    PROVE  \/ UNCHANGED git
           \/ \E b \in Branches : Push(b) \/ PushDelete(b)
           \/ \E s \in Procs : MergePerform(s) \/ UpdatePerform(s) \/ DeleteHead(s)
<1>1. CASE UNCHANGED vars
  BY <1>1, Zenon DEF vars, git
<1>2. CASE Next
  <2>1. ASSUME NEW s \in Procs,
               \/ \E e \in events : ProcessPush(s, e)
               \/ ListPRs(s)
               \/ \E p \in PRs, b, h \in Branches : CreateResolve(s, p, b, h)
               \/ CreateProbe(s) \/ CreateCommit(s) \/ CreateFill(s)
               \/ \E p \in PRs : SyncResolve(s, p) \/ Mergeability(s, p) \/ DeleteRead(s, p)
               \/ SyncRefresh(s) \/ SyncReset(s) \/ SyncLost(s) \/ Judge(s)
        PROVE  UNCHANGED git
    BY <2>1, Zenon DEF ProcessPush, ListPRs, CreateResolve, CreateProbe, CreateCommit,
        CreateFill, SyncResolve, SyncRefresh, SyncReset, SyncLost, Mergeability, Judge,
        DeleteRead
  <2>2. ASSUME NEW s \in Procs,
               \/ \E p \in PRs, m \in Methods : MergeLock(s, p, m)
               \/ MergeGate(s) \/ MergeFails(s) \/ MergeCommit(s) \/ MergeTorn(s)
               \/ \E p \in PRs, o \in {"open", "closed"} : StateRead(s, p, o)
               \/ StateWrite(s)
               \/ \E p \in PRs, b \in Branches : BaseResolve(s, p, b)
               \/ BaseWrite(s)
               \/ \E p \in PRs, m \in {"merge", "rebase"} : UpdateRead(s, p, m)
               \/ UpdateRecord(s)
        PROVE  UNCHANGED git
    BY <2>2, Zenon DEF MergeLock, MergeGate, MergeFails, MergeCommit, MergeTorn, StateRead,
        StateWrite, BaseResolve, BaseWrite, UpdateRead, UpdateRecord
  <2>. QED
    BY <1>2, <2>1, <2>2, Zenon DEF Next
<1>. QED
  BY <1>1, <1>2

\* Every step keeps the commits and leaves on a protected branch what is there.
LEMMA OnwardStep == TypeInv /\ HistInv /\ [Next]_vars => Onward
BY WhoMoves, OnwardSame, OnwardPush, OnwardPushDelete, OnwardMergePerform, OnwardUpdatePerform,
   OnwardDeleteHead, Zenon

\* A commit made on top of commits whose changes it holds keeps HistInv.
LEMMA HistCommit ==
    ASSUME TypeInv, HistInv, NEW b \in Branches, NEW n \in Commits, NEW a \in SUBSET Commits,
           NEW h \in SUBSET Commits, Commit(b, n, a, h),
           n \notin Known \/ (a = anc[n] /\ h = has[n]),
           \A d \in a : d \in Known /\ has[d] \subseteq h
    PROVE  HistInv'
<1>1. /\ anc'[n] = a \cup {n} /\ has'[n] = h
      /\ \A c \in Commits : c # n => anc'[c] = anc[c] /\ has'[c] = has[c]
  BY Zenon DEF Commit, TypeInv, TypeOK
<1>2. n \in Known' /\ \A d \in Known : d \in Known' /\ has'[d] = has[d]
  <2>1. Committed(b, n, h)
    BY CommitEffect, Zenon
  <2>. QED
    BY <2>1, Zenon DEF Committed
<1>3. ASSUME NEW c \in Known', NEW d \in anc'[c] PROVE d \in Known' /\ has'[d] \subseteq has'[c]
  <2>1. CASE c = n
    BY <1>1, <1>2, <1>3, <2>1, Zenon
  <2>2. CASE c # n
    <3>1. c \in Known /\ d \in anc[c] /\ has'[c] = has[c]
      BY <1>1, <1>3, <2>2, Zenon DEF Known, Exists
    <3>. QED
      BY <1>2, <3>1, Zenon DEF HistInv
  <2>. QED
    BY <2>1, <2>2, Zenon
<1>. QED
  BY <1>3, Zenon DEF HistInv

\* HistInv holds at the start, and
LEMMA HistInit == Init => HistInv
<1>. SUFFICES ASSUME Init, NEW c \in Known, NEW d \in anc[c]
              PROVE  d \in Known /\ has[d] \subseteq has[c]
  BY Zenon DEF HistInv
<1>1. 0 \in Commits /\ \E b \in Branches : Start[b] = 0
  BY PullAssumption, Zenon DEF Commits
<1>2. c \in Commits /\ c \in anc[c]
  BY Zenon DEF Known, Exists
<1>3. anc[c] = {0, c} /\ anc[0] = {0, 0} /\ has = anc
  BY <1>1, <1>2, Zenon DEF Init
<1>. QED
  BY <1>1, <1>2, <1>3, Zenon DEF Known, Exists

\* every step keeps it.
LEMMA HistStep == TypeInv /\ HistInv /\ [Next]_vars => HistInv'
<1>. SUFFICES ASSUME TypeInv, HistInv, [Next]_vars PROVE HistInv'
  BY Zenon
<1>1. CASE UNCHANGED <<anc, has>>
  BY <1>1, Zenon DEF HistInv, Known, Exists
<1>2. ASSUME NEW b \in Branches, Push(b) PROVE HistInv'
  <2>1. PICK c \in Commits :
          /\ Exists(c)
          /\ \/ \E n \in Fresh : Commit(b, n, anc[c], has[c] \cup {n})
             \/ UNCHANGED <<anc, has>>
    BY <1>2, Zenon DEF Push
  <2>2. ASSUME NEW n \in Fresh, Commit(b, n, anc[c], has[c] \cup {n}) PROVE HistInv'
    <3>1. n \in Commits /\ n \notin Known /\ c \in Known
      BY <2>1, Zenon DEF Fresh, Known
    <3>2. PICK a \in SUBSET Commits, h \in SUBSET Commits : a = anc[c] /\ h = has[c] \cup {n}
      BY <3>1, Zenon DEF TypeInv, TypeOK
    <3>3. \A d \in a : d \in Known /\ has[d] \subseteq h
      BY <3>1, <3>2, Zenon DEF HistInv
    <3>4. Commit(b, n, a, h)
      BY <2>2, <3>2, Zenon
    <3>. QED
      BY <3>1, <3>3, <3>4, HistCommit, Zenon
  <2>. QED
    BY <1>1, <2>1, <2>2, Zenon
<1>3. ASSUME NEW s \in Procs, MergePerform(s) PROVE HistInv'
  <2>1. PICK n \in Fresh :
          Commit(proc[s].base, Merged(s, n).commit, Merged(s, n).anc, Merged(s, n).has)
    BY <1>3, Zenon DEF MergePerform
  <2>. DEFINE m == Merged(s, n)
              k == proc[s]
  <2>2. At(s, "perform") /\ k.base \in Branches /\ k.boid \in Known /\ k.hoid \in Known
    BY <1>3, OwnWork, Zenon DEF MergePerform, Sound, Locks, At
  <2>3. /\ m.commit \in Commits /\ m.anc \in SUBSET Commits /\ m.has \in SUBSET Commits
        /\ m.commit \notin Known \/ (m.anc = anc[m.commit] /\ m.has = has[m.commit])
        /\ has[k.boid] \subseteq m.has /\ has[k.hoid] \subseteq m.has
        /\ m.anc \subseteq anc[k.boid] \cup anc[k.hoid]
    BY <2>2, MergedCommit, Zenon
  <2>4. Commit(k.base, m.commit, m.anc, m.has)
    BY <2>1, Zenon
  <2>. HIDE DEF m, k
  <2>5. PICK b \in Branches, x \in Commits, a \in SUBSET Commits, h \in SUBSET Commits :
          b = k.base /\ x = m.commit /\ a = m.anc /\ h = m.has
    BY <2>2, <2>3, Zenon
  <2>6. Commit(b, x, a, h) /\ (x \notin Known \/ (a = anc[x] /\ h = has[x]))
    BY <2>3, <2>4, <2>5
  <2>7. \A d \in a : d \in Known /\ has[d] \subseteq h
    BY <2>2, <2>3, <2>5, Zenon DEF HistInv
  <2>. QED
    BY <2>6, <2>7, HistCommit, Zenon
<1>4. ASSUME NEW s \in Procs, UpdatePerform(s) PROVE HistInv'
  <2>. DEFINE k == proc[s]
              b == tip[k.base]
  <2>1. CASE UNCHANGED git
    BY <1>1, <2>1, Zenon DEF git
  <2>2. ASSUME NEW n \in Fresh, b # None,
               Commit(k.head, n, IF k.aim = "rebase" THEN anc[b] ELSE anc[b] \cup anc[k.hoid],
                      has[b] \cup has[k.hoid])
        PROVE  HistInv'
    <3>1. k.base \in Branches /\ k.head \in Branches /\ k.hoid \in Known
      BY <1>4, OwnWork, Zenon DEF UpdatePerform, Sound, At
    <3>2. b \in Known /\ n \in Commits /\ n \notin Known
      BY <2>2, <3>1, Zenon DEF TypeInv, RowsOK, Fresh, Known
    <3>. HIDE DEF b, k
    <3>3. PICK a \in SUBSET Commits, h \in SUBSET Commits :
            /\ a = IF k.aim = "rebase" THEN anc[b] ELSE anc[b] \cup anc[k.hoid]
            /\ h = has[b] \cup has[k.hoid]
      BY <3>1, <3>2, Zenon DEF TypeInv, TypeOK, Known
    <3>4. \A d \in a : d \in Known /\ has[d] \subseteq h
      BY <3>1, <3>2, <3>3, Zenon DEF HistInv
    <3>5. Commit(k.head, n, a, h)
      BY <2>2, <3>3, Zenon
    <3>. QED
      BY <3>1, <3>2, <3>4, <3>5, HistCommit, Zenon
  <2>. QED
    BY <1>4, <2>1, <2>2, Zenon DEF UpdatePerform
<1>5. (\E b \in Branches : PushDelete(b)) \/ (\E s \in Procs : DeleteHead(s)) => UNCHANGED <<anc, has>>
  BY Zenon DEF PushDelete, DeleteHead
<1>. QED
  BY <1>1, <1>2, <1>3, <1>4, <1>5, WhoMoves, Zenon DEF git

\* No merge, update-branch or deletion of the server takes a change off a branch
\* that stays, whatever overlaps, and a push does only where no rule of the
\* branch forbids force pushes: an accepted fast-forward holds every change of
\* the tip it replaces, because commits hold the changes of their histories.
THEOREM BranchesKeepChanges == Spec => NothingOverwritten
<1>1. TypeInv /\ HistInv /\ [Next]_vars => [BranchesGrow]_vars
  BY OnwardStep, Zenon DEF Onward, BranchesGrow
<1>. QED
  BY <1>1, TypeInit, TypeStep, HistInit, HistStep, PTL DEF Spec, NothingOverwritten
=============================================================================
