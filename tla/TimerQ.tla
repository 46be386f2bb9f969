------------------------------- MODULE TimerQ -------------------------------
(***************************************************************************)
(* The timer queue library of the talker, src/src/lib/timer_q.             *)
(*                                                                         *)
(* A base is a queue of nodes sorted by time stamp with one call back.     *)
(* Bases sit on one of two linked lists: norm, which timer_q_run_norm      *)
(* walks, and empty, which it does not.  A base that asks for it           *)
(* (_MOVE_WHEN_EMPTY) is put on the empty list when a run leaves it with   *)
(* no nodes; walk (timer_q__walk_base_empty) says how many bases of the    *)
(* empty list the next run must look for because they got a node since.    *)
(* first (timer_q__first_timeval) points at the node with the lowest time  *)
(* stamp, or is NULL when that is not known; a run before that time        *)
(* returns at once.                                                        *)
(*                                                                         *)
(* A run is split into one step per base, node and call back, because a    *)
(* call back may add to, and delete from, the queues being walked.         *)
(***************************************************************************)
EXTENDS Naturals, FiniteSets, SequencesExt

CONSTANTS
  Base,           \* the queues
  Node,           \* the nodes, identified with their call back data
  MoveWhenEmpty,  \* bases with TIMER_Q_FLAG_BASE_MOVE_WHEN_EMPTY
  RunAllBase,     \* bases with TIMER_Q_FLAG_BASE_RUN_ALL
  FromEnd,        \* bases with TIMER_Q_CNTL_BASE_SET_FLAG_INSERT_FROM_END
  Deletable,      \* bases the program may delete
  Reach,          \* Reach[b]: the bases the call back of b adds nodes to
  Deletes,        \* Deletes[b]: the bases it deletes, or deletes nodes from
  MaxTime,        \* bound on the clock and on time stamps
  MaxWalk,        \* bound on timer_q__walk_base_empty
  NoNode          \* the NULL node pointer

ASSUME BaseAssumption ==
  /\ MoveWhenEmpty \subseteq Base
  /\ RunAllBase \subseteq Base
  /\ FromEnd \subseteq Base
  /\ Deletable \subseteq Base
  /\ Reach \in [Base -> SUBSET Base]
  /\ Deletes \in [Base -> SUBSET Base]
ASSUME NodeAssumption == NoNode \notin Node
ASSUME BoundAssumption == MaxTime \in Nat /\ MaxWalk \in Nat

VARIABLES
  norm,       \* timer_q__start_base_norm, head first
  empty,      \* timer_q__start_base_empty, head first
  q,          \* q[b]: the nodes of base b, base->start first
  tv,         \* tv[n]: the time stamp of node n
  quick,      \* nodes whose quick_del is set
  quickBase,  \* bases whose quick_del is set
  walk,       \* timer_q__walk_base_empty
  first,      \* timer_q__first_timeval, as the node it points into
  clock,      \* the time the main loop passes to timer_q_run_norm
  pc,         \* where the library is
  kind,       \* "all" during timer_q_run_all, "norm" otherwise
  runTv,      \* the time stamp the run was given
  pos,        \* the place in norm of the base being run
  cur,        \* the node whose call back is running
  called      \* nodes this timer_q_run_all has called

queues == <<norm, empty, q, tv, quick, quickBase>>
run    == <<pc, kind, runTv, pos, cur>>
vars   == <<norm, empty, q, tv, quick, quickBase, walk, first, clock,
            pc, kind, runTv, pos, cur, called>>

Times == 0..MaxTime

TypeOK ==
  /\ norm \in Seq(Base) /\ empty \in Seq(Base)
  /\ q \in [Base -> Seq(Node)]
  /\ tv \in [Node -> Times]
  /\ quick \subseteq Node /\ quickBase \subseteq Base
  /\ walk \in 0..MaxWalk
  /\ first \in Node \cup {NoNode}
  /\ clock \in Times
  /\ pc \in {"idle", "empties", "base", "nodes", "func", "leave", "crashed"}
  /\ kind \in {"norm", "all"}
  /\ runTv \in Times
  /\ pos \in Nat \ {0}
  /\ cur \in Node \cup {NoNode}
  /\ called \subseteq Node

(***************************************************************************)
(* Helpers.                                                                *)
(***************************************************************************)
Known == ToSet(norm) \cup ToSet(empty)
Pending == UNION {ToSet(q[b]) : b \in Base}

\* A node of base b that still has to be called.
Live(b) == ToSet(q[b]) \ quick

Null(n) == n = NoNode

\* The talker's code runs between library calls, and inside a call back.
MayTouch(b, reach) ==
  \/ pc = "idle"
  \/ pc = "func" /\ b \in reach[norm[pos]]

\* Mutant: the node is always linked at the end.
InsertPoints_append(b, s, t) == {Len(s) + 1}

\* The places in queue s where timer_q__add_node links a node with time t:
\* always exactly one.
InsertPoints(b, s, t) ==
  IF s = <<>> THEN {1}
  ELSE IF t >= tv[s[Len(s)]] THEN {Len(s) + 1}
  ELSE IF t < tv[s[1]] THEN {1}
  ELSE IF b \in FromEnd
       THEN {i \in 2..Len(s) : /\ tv[s[i-1]] <= t
                               /\ \A j \in i..Len(s) : t < tv[s[j]]}
       ELSE {i \in 2..Len(s) : /\ t <= tv[s[i]]
                               /\ \A j \in 2..(i-1) : tv[s[j]] < t}

\* Mutant: the pointer into the deleted node is kept.
Forget_keep(n) == first' = first

\* timer_q__del_node forgets the first time stamp if it is this node's.
Forget(n) == first' = IF first = n THEN NoNode ELSE first

\* Mutant: the test of the flag is inverted.
Bumps_inverted(b) == q[b] = <<>> /\ b \notin MoveWhenEmpty

\* timer_q__add_node asks the next run to look for base b on the empty list.
Bumps(b) == q[b] = <<>> /\ b \in MoveWhenEmpty

\* Mutant: a parked base without nodes is looked for on the norm list.
Hint_walk(b) == walk > 0

\* timer_q_del_base looks for base b on the empty list.
Hint(b) == walk > 0 \/ (b \in MoveWhenEmpty /\ q[b] = <<>>)

\* Mutant: a node is called one tick early.
Due_early(n) == tv[n] <= runTv + 1

\* timer_q__run_norm calls node n in this run.
Due(n) == tv[n] <= runTv

\* Mutant: a node that is due right now waits for the next tick.
Early_now(t) == ~Null(first) /\ tv[first] >= t

\* timer_q_run_norm returns at once.
Early(t) == ~Null(first) /\ tv[first] > t

Init ==
  /\ norm = <<>> /\ empty = <<>>
  /\ q = [b \in Base |-> <<>>]
  /\ tv = [n \in Node |-> 0]
  /\ quick = {} /\ quickBase = {}
  /\ walk = 0
  /\ first = NoNode
  /\ clock = 0
  /\ pc = "idle" /\ kind = "norm" /\ runTv = 0 /\ pos = 1 /\ cur = NoNode
  /\ called = {}

(***************************************************************************)
(* What the program may call.                                              *)
(***************************************************************************)

\* timer_q_add_base, timer_q_add_static_base.
AddBase(b) ==
  /\ pc = "idle"
  /\ b \notin Known
  /\ quickBase' = quickBase \ {b}
  /\ IF b \in MoveWhenEmpty
     THEN norm' = <<b>> \o norm /\ UNCHANGED empty
     ELSE empty' = <<b>> \o empty /\ UNCHANGED norm
  /\ UNCHANGED <<q, tv, quick, walk, first, clock, run, called>>

\* timer_q_add_node, timer_q_add_static_node: the node is scheduled in the
\* future and is on no queue.
AddNode(b, n, t) ==
  /\ MayTouch(b, Reach) /\ b \in Known
  /\ n \notin Pending
  /\ t > clock
  /\ Bumps(b) => walk < MaxWalk
  /\ walk' = IF Bumps(b) THEN walk + 1 ELSE walk
  /\ \E i \in InsertPoints(b, q[b], t) : q' = [q EXCEPT ![b] = InsertAt(@, i, n)]
  /\ tv' = [tv EXCEPT ![n] = t]
  /\ quick' = quick \ {n}
  /\ first' = IF ~Null(first) /\ tv[first] > t THEN n ELSE first
  /\ UNCHANGED <<norm, empty, quickBase, clock, run, called>>

\* timer_q_del_data, timer_q_del_node.
DelNode(b, i) ==
  /\ MayTouch(b, Deletes)
  /\ i \in DOMAIN q[b]
  /\ Forget(q[b][i])
  /\ q' = [q EXCEPT ![b] = RemoveAt(@, i)]
  /\ UNCHANGED <<norm, empty, tv, quick, quickBase, walk, clock, run, called>>

\* timer_q_quick_del_node: the node stays linked until a run meets it.
QuickDelNode(b, n) ==
  /\ MayTouch(b, Deletes)
  /\ n \in Live(b)
  /\ quick' = quick \cup {n}
  /\ UNCHANGED <<norm, empty, q, tv, quickBase, walk, first, clock, run, called>>

\* timer_q_quick_del_base.
QuickDelBase(b) ==
  /\ MayTouch(b, Deletes)
  /\ b \in Deletable \cap Known
  /\ quickBase' = quickBase \cup {b}
  /\ UNCHANGED <<norm, empty, q, tv, quick, walk, first, clock, run, called>>

\* timer_q__del_base: every node is deleted, then the base is forgotten.
Destroy(b) ==
  /\ q' = [q EXCEPT ![b] = <<>>]
  /\ first' = IF first \in ToSet(q[b]) THEN NoNode ELSE first
  /\ quickBase' = quickBase \ {b}

\* timer_q_del_base: the empty list is searched only on a hint, and the
\* search of the norm list does not stop at its end.
DelBase(b) ==
  /\ pc = "idle"
  /\ b \in Deletable \cap Known
  /\ \/ \E i \in DOMAIN empty :
          /\ Hint(b) /\ empty[i] = b
          /\ empty' = RemoveAt(empty, i)
          /\ Destroy(b)
          /\ UNCHANGED <<norm, pc>>
     \/ \E i \in DOMAIN norm :
          /\ norm[i] = b
          /\ norm' = RemoveAt(norm, i)
          /\ Destroy(b)
          /\ UNCHANGED <<empty, pc>>
     \/ /\ ~Hint(b) /\ b \notin ToSet(norm)
        /\ pc' = "crashed"
        /\ UNCHANGED <<norm, empty, q, first, quickBase>>
  /\ UNCHANGED <<tv, quick, walk, clock, kind, runTv, pos, cur, called>>

Tick ==
  /\ pc = "idle"
  /\ clock < MaxTime
  /\ clock' = clock + 1
  /\ UNCHANGED <<queues, walk, first, run, called>>

(***************************************************************************)
(* A run.                                                                  *)
(***************************************************************************)

\* timer_q_run_norm past its early return.
Begin(t) ==
  /\ pc = "idle"
  /\ ~Early(t)
  /\ pc' = "empties" /\ kind' = "norm" /\ runTv' = t
  /\ UNCHANGED <<queues, walk, first, clock, pos, cur, called>>

RunNorm == Begin(clock)

\* timer_q_first_timeval, when the answer is not known.
FirstTimeval == Null(first) /\ Begin(0)

\* timer_q_run_all: the head of the norm list is read before the bases that
\* got nodes are put in front of it, so pos moves along with that head.
RunAll ==
  /\ pc = "idle"
  /\ pc' = "empties" /\ kind' = "all"
  /\ UNCHANGED <<queues, walk, first, clock, runTv, pos, cur, called>>

\* One turn of the loop of timer_q__get_empties that finds a base to move.
MoveBack ==
  /\ pc = "empties" /\ walk > 0
  /\ \E i \in DOMAIN empty :
       /\ q[empty[i]] # <<>>
       /\ \A j \in 1..(i-1) : q[empty[j]] = <<>>
       /\ norm' = <<empty[i]>> \o norm
       /\ empty' = RemoveAt(empty, i)
  /\ walk' = walk - 1
  /\ pos' = IF kind = "all" THEN pos + 1 ELSE pos
  /\ UNCHANGED <<q, tv, quick, quickBase, first, clock, pc, kind, runTv, cur, called>>

\* The end of that loop; timer_q_run_norm then forgets the first time stamp.
StartScan ==
  /\ pc = "empties"
  /\ walk = 0 \/ \A i \in DOMAIN empty : q[empty[i]] = <<>>
  /\ walk' = 0
  /\ first' = IF kind = "all" THEN first ELSE NoNode
  /\ pos' = IF kind = "all" THEN pos ELSE 1
  /\ pc' = "base"
  /\ UNCHANGED <<queues, clock, kind, runTv, cur, called>>

\* timer_q__run_all of one base: every node is called and none is removed.
CallAll ==
  /\ pc = "base" /\ kind = "all"
  /\ pos <= Len(norm)
  /\ called' = IF norm[pos] \in RunAllBase \ quickBase
               THEN called \cup Live(norm[pos]) ELSE called
  /\ pos' = pos + 1
  /\ UNCHANGED <<queues, walk, first, clock, pc, kind, runTv, cur>>

\* timer_q_run_norm reaches a base; a deleted base is not run.
EnterBase ==
  /\ pc = "base" /\ kind = "norm"
  /\ pos <= Len(norm)
  /\ pc' = IF norm[pos] \in quickBase THEN "leave" ELSE "nodes"
  /\ UNCHANGED <<queues, walk, first, clock, kind, runTv, pos, cur, called>>

\* timer_q__run_norm: the head was quickly deleted.
Reap ==
  /\ pc = "nodes"
  /\ LET b == norm[pos]
     IN  /\ q[b] # <<>>
         /\ Head(q[b]) \in quick
         /\ Forget(Head(q[b]))
         /\ q' = [q EXCEPT ![b] = Tail(@)]
  /\ UNCHANGED <<norm, empty, tv, quick, quickBase, walk, clock, run, called>>

\* timer_q__run_norm: the head is due, is unlinked and called.
Fire ==
  /\ pc = "nodes"
  /\ LET b == norm[pos]
     IN  /\ q[b] # <<>>
         /\ Head(q[b]) \notin quick
         /\ Due(Head(q[b]))
         /\ Forget(Head(q[b]))
         /\ q' = [q EXCEPT ![b] = Tail(@)]
         /\ cur' = Head(q[b])
  /\ pc' = "func"
  /\ UNCHANGED <<norm, empty, tv, quick, quickBase, walk, clock, kind, runTv, pos, called>>

CallbackReturn ==
  /\ pc = "func"
  /\ pc' = "nodes" /\ cur' = NoNode
  /\ UNCHANGED <<queues, walk, first, clock, kind, runTv, pos, called>>

\* timer_q__run_norm: the head is not due; it may be the first of all.
EndNodes ==
  /\ pc = "nodes"
  /\ LET b == norm[pos]
     IN  \/ q[b] = <<>> /\ UNCHANGED first
         \/ /\ q[b] # <<>>
            /\ Head(q[b]) \notin quick
            /\ ~Due(Head(q[b]))
            /\ first' = IF ~Null(first) => tv[first] > tv[Head(q[b])]
                        THEN Head(q[b]) ELSE first
  /\ pc' = "leave"
  /\ UNCHANGED <<queues, walk, clock, kind, runTv, pos, cur, called>>

\* Mutant: a base that is parked stays on the norm list.
LeaveBase_linked ==
  /\ pc = "leave"
  /\ LET b == norm[pos]
     IN  empty' = IF q[b] = <<>> /\ b \in MoveWhenEmpty THEN <<b>> \o empty ELSE empty
  /\ pos' = pos + 1
  /\ pc' = "base"
  /\ UNCHANGED <<norm, q, tv, quick, quickBase, walk, first, clock, kind, runTv, cur, called>>

\* timer_q_run_norm leaves a base: it is deleted, parked, or stays.
LeaveBase ==
  /\ pc = "leave"
  /\ LET b == norm[pos]
     IN  \/ /\ b \in quickBase
            /\ norm' = RemoveAt(norm, pos)
            /\ Destroy(b)
            /\ UNCHANGED <<empty, pos>>
         \/ /\ b \notin quickBase
            /\ q[b] = <<>> /\ b \in MoveWhenEmpty
            /\ norm' = RemoveAt(norm, pos)
            /\ empty' = <<b>> \o empty
            /\ UNCHANGED <<q, first, quickBase, pos>>
         \/ /\ b \notin quickBase
            /\ ~(q[b] = <<>> /\ b \in MoveWhenEmpty)
            /\ pos' = pos + 1
            /\ UNCHANGED <<norm, empty, q, first, quickBase>>
  /\ pc' = "base"
  /\ UNCHANGED <<tv, quick, walk, clock, kind, runTv, cur, called>>

RunEnd ==
  /\ pc = "base"
  /\ pos > Len(norm)
  /\ pc' = "idle" /\ kind' = "norm" /\ runTv' = 0 /\ pos' = 1 /\ called' = {}
  /\ UNCHANGED <<queues, walk, first, clock, cur>>

RunStep ==
  \/ MoveBack \/ StartScan \/ CallAll \/ EnterBase \/ Reap \/ Fire
  \/ CallbackReturn \/ EndNodes \/ LeaveBase \/ RunEnd

Client ==
  \/ \E b \in Base : AddBase(b) \/ QuickDelBase(b) \/ DelBase(b)
  \/ \E b \in Base, n \in Node, t \in Times : AddNode(b, n, t)
  \/ \E b \in Base : \E i \in DOMAIN q[b] : DelNode(b, i)
  \/ \E b \in Base, n \in Node : QuickDelNode(b, n)

Next == Client \/ Tick \/ RunNorm \/ FirstTimeval \/ RunAll \/ RunStep

Spec == Init /\ [][Next]_vars

\* The main loop (boot.c) reads the clock and runs the queue over and over, and
\* a call back returns.
Fairness == WF_vars(RunStep) /\ SF_vars(RunNorm)
FairSpec == Spec /\ Fairness

(***************************************************************************)
(* Properties.                                                             *)
(***************************************************************************)

\* The structure the unlinking and inserting code relies on: a node is linked
\* once, a base is on one list, and every queue is in time order.
Sorted ==
  \A b \in Base : \A i, j \in DOMAIN q[b] : i < j => tv[q[b][i]] <= tv[q[b][j]]

LinkedOnce ==
  /\ \A b, c \in Base : \A i \in DOMAIN q[b], j \in DOMAIN q[c] :
       q[b][i] = q[c][j] => b = c /\ i = j
  /\ \A i, j \in DOMAIN norm : norm[i] = norm[j] => i = j
  /\ \A i, j \in DOMAIN empty : empty[i] = empty[j] => i = j
  /\ ToSet(norm) \cap ToSet(empty) = {}

\* The early return of timer_q_run_norm trusts this: between runs a first time
\* stamp that is known is that of a linked node, and no node is earlier.
FirstIsLowest ==
  pc = "idle" /\ ~Null(first) =>
    first \in Pending /\ \A n \in Pending : tv[first] <= tv[n]

\* timer_q__get_empties stops after walk bases, and timer_q_del_base does not
\* look at the empty list at all when walk is 0: the parked bases that have
\* nodes are never more than that.
WalkCoversParked ==
  pc # "crashed" => Cardinality({b \in ToSet(empty) : q[b] # <<>>}) <= walk

\* timer_q_del_base finds the base it is asked to delete.
NoCrash == pc # "crashed"

\* A node whose time has come does not stay linked.
DueLeaves == \A n \in Node : (n \in Pending /\ tv[n] <= clock) ~> (n \notin Pending)

\* timer_q_run_all calls every node of every base with the _RUN_ALL flag.
RunAllCallsAll ==
  pc = "base" /\ kind = "all" /\ pos > Len(norm) =>
    called = UNION {Live(b) : b \in (Known \cap RunAllBase) \ quickBase}

\* The queue keeps the promises of TimerService: home is the base whose queue
\* holds the node.
HomeOf(n) == {b \in Base : n \in ToSet(q[b])}
Service == INSTANCE TimerService WITH
    NoBase <- {}, Base <- {{b} : b \in Base},
    home <- [n \in Node |-> HomeOf(n)], due <- tv, struck <- quick,
    running <- cur, now <- clock
ServiceSpec == Service!ServiceSpec

=============================================================================
