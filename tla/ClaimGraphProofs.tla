-------------------------- MODULE ClaimGraphProofs --------------------------
(***************************************************************************)
(* Proofs about ClaimGraph, for every set of claims, workers and seeds and  *)
(* for every workload.  First compute_impact: on any finite set of edges    *)
(* its breadth-first search finds the least set closed under the impact     *)
(* edges.  Then the inductive invariant of the commands that run side by    *)
(* side, and from both the five properties that the runs check.             *)
(***************************************************************************)
EXTENDS ClaimGraph, FiniteSetTheorems, WellFoundedInduction, TLAPS

-----------------------------------------------------------------------------
(* Induction on an interval, in terms of sets *)

\* Every nonempty set of naturals has a least element.
LEMMA LeastNatural ==
    ASSUME NEW T, T \subseteq Nat, T # {}
    PROVE  \E n \in T : \A m \in T : n <= m
  <1>1. IsWellFoundedOn(OpToRel(<, Nat), Nat)
    BY NatLessThanWellFounded
  <1>2. PICK x \in T : \A y \in T : ~ (<<y, x>> \in OpToRel(<, Nat))
    BY <1>1, WFMin
  <1>3. \A y \in Nat, z \in Nat : y < z => <<y, z>> \in OpToRel(<, Nat)
    BY DEF OpToRel
  <1>4. \A y \in T : ~(y < x)
    BY <1>2, <1>3, Zenon
  <1> QED
    BY <1>4

\* A set that holds 0, and the successor of each of its numbers below N, holds 0 .. N.
LEMMA UpTo ==
    ASSUME NEW N \in Nat, NEW P,
           0 \in P, \A n \in 0 .. N : n \in P /\ n < N => n + 1 \in P
    PROVE  0 .. N \subseteq P
  <1> DEFINE T == 0 .. N \ P
  <1> SUFFICES ASSUME T # {} PROVE FALSE
    OBVIOUS
  <1>1. T \subseteq Nat
    OBVIOUS
  <1> HIDE DEF T
  <1>2. PICK n \in T : \A m \in T : n <= m
    BY <1>1, LeastNatural
  <1> USE DEF T
  <1>3. n # 0 /\ n - 1 \in 0 .. N /\ n - 1 < N
    BY <1>2
  <1>4. n - 1 \in P
    BY <1>2, <1>3
  <1> QED
    BY <1>2, <1>3, <1>4

-----------------------------------------------------------------------------
(* compute_impact *)

\* The search state before the first level.
FirstFrontier(seeds) == [impacted |-> {}, visited |-> {}, frontier |-> seeds]

\* f is the search of compute_impact, level by level, up to level N.
IsSearch(f, seeds, links, N) ==
    f = [n \in 0 .. N |-> IF n = 0 THEN FirstFrontier(seeds)
                          ELSE next_frontier(links, f[n - 1])]

\* The definition of the search in compute_impact by recursion has a solution.
LEMMA SearchExists ==
    ASSUME NEW seeds, NEW links, NEW N \in Nat
    PROVE  \E f : IsSearch(f, seeds, links, N)
  <1> DEFINE P == {m \in 0 .. N : \E f : IsSearch(f, seeds, links, m)}
  <1>1. 0 \in P
    <2> DEFINE f == [n \in 0 .. 0 |-> FirstFrontier(seeds)]
    <2>1. IsSearch(f, seeds, links, 0)
      BY DEF IsSearch
    <2> HIDE DEF f
    <2> QED
      BY <2>1
  <1>2. \A m \in 0 .. N : m \in P /\ m < N => m + 1 \in P
    <2> SUFFICES ASSUME NEW m \in 0 .. N, m \in P, m < N PROVE m + 1 \in P
      OBVIOUS
    <2>1. PICK f : IsSearch(f, seeds, links, m)
      OBVIOUS
    <2> DEFINE g == [n \in 0 .. m + 1 |-> IF n = m + 1 THEN next_frontier(links, f[m]) ELSE f[n]]
    <2>2. \A n \in 0 .. m + 1 :
            g[n] = IF n = 0 THEN FirstFrontier(seeds) ELSE next_frontier(links, g[n - 1])
      <3> TAKE n \in 0 .. m + 1
      <3>1. CASE n = 0
        BY <3>1, <2>1 DEF IsSearch
      <3>2. CASE n = m + 1
        BY <3>2
      <3>3. CASE n \in 1 .. m
        <4>1. f[n] = next_frontier(links, f[n - 1])
          BY <3>3, <2>1 DEF IsSearch
        <4> QED
          BY <3>3, <4>1
      <3> QED
        BY <3>1, <3>2, <3>3
    <2>3. IsSearch(g, seeds, links, m + 1)
      BY <2>2 DEF IsSearch
    <2> HIDE DEF g
    <2>4. m + 1 \in 0 .. N
      OBVIOUS
    <2> QED
      BY <2>3, <2>4
  <1>3. 0 .. N \subseteq P
    <2> HIDE DEF P
    <2> QED
      BY <1>1, <1>2, UpTo
  <1> QED
    BY <1>3

\* A set that holds the source of each impact edge into it or into the seeds.
ClosedUnder(S, seeds, graph) ==
    \A e \in graph : e.type \in IMPACT_EDGE_TYPES /\ e.target \in seeds \cup S => e.source \in S

ImpactLinks(graph) == {e \in graph : e.type \in IMPACT_EDGE_TYPES}

\* What holds of the search before and after each level n: all of the frontier's
\* dependents are still to come, nothing is impacted that a closed set leaves out,
\* and a frontier that is left has used up n links.
SearchInv(s, n, seeds, links) ==
    /\ s.impacted \subseteq {e.source : e \in links}
    /\ seeds \cup s.impacted \subseteq s.visited \cup s.frontier
    /\ \A e \in links : e.target \in s.visited => e.source \in s.impacted
    /\ \A S : ClosedUnder(S, seeds, links) => s.impacted \subseteq S /\ s.frontier \subseteq seeds \cup S
    /\ s.frontier # {} => Cardinality({e \in links : e.source \in s.impacted}) >= n

LEMMA FirstLevel ==
    ASSUME NEW seeds, NEW links
    PROVE  SearchInv(FirstFrontier(seeds), 0, seeds, links)
  <1>1. {e \in links : e.source \in {}} = {}
    OBVIOUS
  <1> QED
    BY <1>1, FS_EmptySet DEF SearchInv, FirstFrontier

\* One level of the search keeps what holds of it.
LEMMA NextLevel ==
    ASSUME NEW seeds, NEW links, IsFiniteSet(links),
           \A e \in links : e.type \in IMPACT_EDGE_TYPES,
           NEW n \in Nat, NEW s, SearchInv(s, n, seeds, links)
    PROVE  SearchInv(next_frontier(links, s), n + 1, seeds, links)
  <1> DEFINE t == next_frontier(links, s)
             fresh == {e.source : e \in {e \in links : e.target \in s.frontier \ s.visited}} \ s.impacted
             used == {e \in links : e.source \in s.impacted}
             usedThen == {e \in links : e.source \in t.impacted}
  <1>0. /\ t.impacted = s.impacted \cup fresh
        /\ t.visited = s.visited \cup s.frontier
        /\ t.frontier = fresh
    BY DEF next_frontier
  <1> HIDE DEF t
  <1>1. t.impacted \subseteq {e.source : e \in links}
    BY <1>0 DEF SearchInv
  <1>2. seeds \cup t.impacted \subseteq t.visited \cup t.frontier
    BY <1>0 DEF SearchInv
  <1>3. \A e \in links : e.target \in t.visited => e.source \in t.impacted
    BY <1>0 DEF SearchInv
  <1>4. ASSUME NEW S, ClosedUnder(S, seeds, links)
        PROVE  t.impacted \subseteq S /\ t.frontier \subseteq seeds \cup S
    <2>1. s.impacted \subseteq S /\ s.frontier \subseteq seeds \cup S
      BY <1>4 DEF SearchInv
    <2>2. fresh \subseteq S
      BY <1>4, <2>1 DEF ClosedUnder
    <2> QED
      BY <1>0, <2>1, <2>2
  <1>5. ASSUME t.frontier # {} PROVE Cardinality(usedThen) >= n + 1
    <2>1. IsFiniteSet(used) /\ IsFiniteSet(usedThen)
      BY FS_Subset
    <2>2. PICK e \in links : e.target \in s.frontier /\ e.source \notin s.impacted /\ e.source \in fresh
      BY <1>0, <1>5
    <2>3. used \cup {e} \subseteq usedThen /\ e \notin used
      BY <1>0, <2>2
    <2>4. Cardinality(used) >= n
      BY <2>2 DEF SearchInv
    <2>5. IsFiniteSet(used \cup {e}) /\ Cardinality(used \cup {e}) = Cardinality(used) + 1
      BY <2>1, <2>3, FS_AddElement
    <2> HIDE DEF used, usedThen
    <2>6. Cardinality(used \cup {e}) <= Cardinality(usedThen)
      BY <2>1, <2>3, FS_Subset
    <2>7. Cardinality(used) \in Nat /\ Cardinality(usedThen) \in Nat
      BY <2>1, FS_CardinalityType
    <2> QED
      BY <2>4, <2>5, <2>6, <2>7
  <1>6. SearchInv(t, n + 1, seeds, links)
    BY <1>1, <1>2, <1>3, <1>4, <1>5 DEF SearchInv
  <1> QED
    BY <1>6 DEF t

\* After as many levels as there are links the result is closed: a frontier that is
\* still there has used up every link.
LEMMA LastLevel ==
    ASSUME NEW seeds, NEW links, IsFiniteSet(links), NEW s,
           SearchInv(s, Cardinality(links), seeds, links)
    PROVE  ClosedUnder(s.impacted, seeds, links)
  <1> DEFINE used == {e \in links : e.source \in s.impacted}
  <1>1. CASE s.frontier = {}
    BY <1>1 DEF SearchInv, ClosedUnder
  <1>2. CASE s.frontier # {}
    <2>1. Cardinality(used) >= Cardinality(links)
      BY <1>2 DEF SearchInv
    <2>2. used \in SUBSET links
      OBVIOUS
    <2> HIDE DEF used
    <2>3. IsFiniteSet(used) /\ Cardinality(used) <= Cardinality(links)
          /\ (Cardinality(links) = Cardinality(used) => links = used)
      BY <2>2, FS_Subset
    <2>4. Cardinality(used) \in Nat /\ Cardinality(links) \in Nat
      BY <2>3, FS_CardinalityType
    <2>5. used = links
      BY <2>1, <2>3, <2>4
    <2> QED
      BY <2>5 DEF used, ClosedUnder
  <1> QED
    BY <1>1, <1>2

\* compute_impact on a finite set of edges: its result is closed under the impact
\* edges, holds nothing that a closed set leaves out, and only sources of impact edges.
LEMMA ImpactIsLeastClosed ==
    ASSUME NEW seeds, NEW found, IsFiniteSet(found)
    PROVE  LET impacted == compute_impact(seeds, found)
           IN  /\ ClosedUnder(impacted, seeds, found)
               /\ \A S : ClosedUnder(S, seeds, found) => impacted \subseteq S
               /\ impacted \subseteq {e.source : e \in ImpactLinks(found)}
  <1> DEFINE links == ImpactLinks(found)
             N == Cardinality(links)
             search == CHOOSE f : IsSearch(f, seeds, links, N)
  <1>1. IsFiniteSet(links)
    BY FS_Subset DEF ImpactLinks
  <1>2. N \in Nat
    BY <1>1, FS_CardinalityType
  <1>3. \A e \in links : e.type \in IMPACT_EDGE_TYPES
    BY DEF ImpactLinks
  <1>4. compute_impact(seeds, found) = search[N].impacted
    BY DEF compute_impact, IsSearch, FirstFrontier, ImpactLinks
  <1>5. IsSearch(search, seeds, links, N)
    <2> HIDE DEF links, N
    <2>1. \E f : IsSearch(f, seeds, links, N)
      BY <1>2, SearchExists
    <2> QED
      BY <2>1, Zenon
  <1> HIDE DEF links, N, search
  <1>6. SearchInv(search[N], N, seeds, links)
    <2> DEFINE P == {n \in 0 .. N : SearchInv(search[n], n, seeds, links)}
    <2>1. 0 \in P
      <3>1. search[0] = FirstFrontier(seeds)
        BY <1>2, <1>5 DEF IsSearch
      <3> QED
        BY <3>1, <1>2, FirstLevel
    <2>2. \A n \in 0 .. N : n \in P /\ n < N => n + 1 \in P
      <3> SUFFICES ASSUME NEW n \in 0 .. N, n \in P, n < N PROVE n + 1 \in P
        OBVIOUS
      <3>1. search[n + 1] = next_frontier(links, search[n])
        BY <1>2, <1>5 DEF IsSearch
      <3>2. SearchInv(next_frontier(links, search[n]), n + 1, seeds, links)
        BY <1>1, <1>3, NextLevel
      <3> QED
        BY <1>2, <3>1, <3>2
    <2> HIDE DEF P
    <2>3. 0 .. N \subseteq P
      BY <1>2, <2>1, <2>2, UpTo
    <2> QED
      BY <1>2, <2>3 DEF P
  <1>7. ClosedUnder(search[N].impacted, seeds, links)
    BY <1>1, <1>6, LastLevel DEF N
  <1>8. \A S : ClosedUnder(S, seeds, found) => ClosedUnder(S, seeds, links)
    BY DEF ClosedUnder, links, ImpactLinks
  <1>9. \A S : ClosedUnder(S, seeds, links) => ClosedUnder(S, seeds, found)
    BY DEF ClosedUnder, links, ImpactLinks
  <1>10. \A S : ClosedUnder(S, seeds, found) => search[N].impacted \subseteq S
    BY <1>6, <1>8 DEF SearchInv
  <1>11. search[N].impacted \subseteq {e.source : e \in links}
    BY <1>6 DEF SearchInv
  <1> QED
    BY <1>4, <1>7, <1>9, <1>10, <1>11 DEF links

-----------------------------------------------------------------------------
(* What lies downstream *)

LEMMA DownstreamIs ==
    ASSUME NEW seeds, NEW graph
    PROVE  Downstream(seeds, graph) =
               {x \in Objects : \A S \in SUBSET Objects : ClosedUnder(S, seeds, graph) => x \in S}
  BY DEF Downstream, ClosedUnder

LEMMA DownstreamGrows ==
    ASSUME NEW seeds, NEW graph, NEW more, graph \subseteq more
    PROVE  Downstream(seeds, graph) \subseteq Downstream(seeds, more)
  <1>1. \A S \in SUBSET Objects : ClosedUnder(S, seeds, more) => ClosedUnder(S, seeds, graph)
    BY DEF ClosedUnder
  <1> QED
    BY <1>1, DownstreamIs

LEMMA DownstreamAreSources ==
    ASSUME NEW seeds, NEW graph, \A e \in graph : e.source \in Objects
    PROVE  Downstream(seeds, graph) \subseteq {e.source : e \in graph}
  <1> DEFINE S == {e.source : e \in graph}
  <1>1. S \in SUBSET Objects /\ ClosedUnder(S, seeds, graph)
    BY DEF ClosedUnder
  <1> QED
    BY <1>1, DownstreamIs

\* compute_impact on a finite set of edges whose sources are stored objects computes
\* exactly what lies downstream of the seeds, cycles and seeds among them or not.
THEOREM ComputeImpactIsDownstream ==
    ASSUME NEW seeds, NEW found, IsFiniteSet(found), \A e \in found : e.source \in Objects
    PROVE  compute_impact(seeds, found) = Downstream(seeds, found)
  <1> DEFINE impacted == compute_impact(seeds, found)
  <1>1. /\ ClosedUnder(impacted, seeds, found)
        /\ \A S : ClosedUnder(S, seeds, found) => impacted \subseteq S
        /\ impacted \subseteq {e.source : e \in ImpactLinks(found)}
    BY ImpactIsLeastClosed
  <1> HIDE DEF impacted
  <1>2. impacted \subseteq Objects
    BY <1>1 DEF ImpactLinks
  <1> QED
    BY <1>1, <1>2, DownstreamIs DEF impacted

\* A traversal that has visited the seeds and every source it found, and read every
\* edge of the start into what it visited, has found all that was downstream.
LEMMA TraversalReachesAll ==
    ASSUME NEW seeds, NEW start, NEW found, NEW visited,
           \A e \in start : e.type \in IMPACT_EDGE_TYPES /\ e.target \in visited => e \in found,
           seeds \subseteq visited, \A e \in found : e.source \in visited,
           \A e \in found : e.source \in Objects
    PROVE  Downstream(seeds, start) \subseteq Downstream(seeds, found)
  <1> SUFFICES ASSUME NEW x \in Downstream(seeds, start),
                      NEW S \in SUBSET Objects, ClosedUnder(S, seeds, found)
               PROVE  x \in S
    BY DownstreamIs
  <1> DEFINE T == S \cap {e.source : e \in found}
  <1>1. ClosedUnder(T, seeds, start)
    <2> SUFFICES ASSUME NEW e \in start, e.type \in IMPACT_EDGE_TYPES, e.target \in seeds \cup T
                 PROVE  e.source \in T
      BY DEF ClosedUnder
    <2>1. e.target \in visited
      OBVIOUS
    <2>2. e \in found
      BY <2>1
    <2> QED
      BY <2>2 DEF ClosedUnder
  <1>2. T \in SUBSET Objects
    OBVIOUS
  <1> QED
    BY <1>1, <1>2, DownstreamIs

-----------------------------------------------------------------------------
(* The inductive invariant *)

Asked == DOMAIN EventType
Events == {EventType[to] : to \in Asked} \cup {"created", "kill_condition_triggered"}
Results == {"pass", "fail", "inconclusive"}

Revision == [status : States, from : States \cup {None}, event : Events,
             decision : KillBranch \cup {None}, evidence : SUBSET Others]

Command == [op : {"transition", "kill", "edge", "verify", "propagate", "receive"},
            step : {"read", "ceiling", "support", "write", "write_edge", "record",
                    "gather", "write_impact", "mark"},
            claim : Claims \cup {None}, to : States \cup {None}, event : Events \cup {None},
            evidence : SUBSET Others, verified : BOOLEAN, decision : KillBranch \cup {None},
            type : EdgeTypes \cup GATED_EDGE_TYPES \cup {None},
            target : Objects \cup Rulings \cup Decisions \cup {None},
            latest : Nat, status : States \cup {None},
            reviewer : Reviewers \cup {None}, result : Results \cup {None},
            pending : SUBSET Objects, visited : SUBSET Objects, found : SUBSET Edge,
            todo : SUBSET Objects, start : SUBSET Edge]

\* The claim was killed by this decision.
Killed(c, decision) ==
    /\ Status(c) = "withdrawn"
    /\ Latest(c).event = "kill_condition_triggered"
    /\ Latest(c).decision = decision

\* Each piece of evidence has its supports edge.
Backed(c, evidence) ==
    /\ evidence # {}
    /\ \A o \in evidence : [source |-> c, type |-> "supports", target |-> o] \in edges

\* A command on its way through _transition knows what it asks for ...
AsksFor(m) ==
    m.step \in {"read", "ceiling", "support", "write"} =>
        /\ m.claim \in Claims /\ m.to \in Asked /\ m.event \in Events
        /\ m.op # "edge"
        /\ m.op = "kill" => /\ m.to = "withdrawn" /\ m.event = "kill_condition_triggered"
                            /\ m.type = "decided_by" /\ m.target \in KillBranch
                            /\ m.decision = m.target
        /\ m.op = "verify" => m.to \in {"contested", "review_required"}
        /\ m.op \in {"propagate", "receive"} => m.to = "review_required"

\* ... and, once it has read the claim, holds a revision the history still has.
HasRead(m) ==
    m.step \in {"ceiling", "support", "write"} =>
        /\ m.latest \in 1 .. Len(rev[m.claim])
        /\ rev[m.claim][m.latest].status = m.status
        /\ <<m.status, m.to>> \in Transitions
        /\ m.step = "write" /\ m.to = "supported" => Backed(m.claim, m.evidence)

\* An edge about to be written has passed the gate of its type.
MayWriteEdge(m) ==
    m.step = "write_edge" =>
        /\ m.claim \in Claims /\ m.type \in EdgeTypes \cup GATED_EDGE_TYPES
        /\ m.target \in Objects \cup Rulings \cup Decisions
        /\ m.type = "ruled_by" => ~CeilingViolated(m.claim, m.target)
        /\ m.type = "decided_by" => m.target \in KillBranch /\ Killed(m.claim, m.target)

MayRecord(m) ==
    m.step = "record" => /\ m.op = "verify" /\ m.claim \in Claims
                         /\ m.reviewer \in Reviewers /\ m.result \in Results

\* The traversal: what it has visited it has read, what it has found it will visit.
Traverses(m) ==
    m.step = "gather" =>
        /\ m.op \in {"propagate", "receive"}
        /\ m.found \subseteq edges /\ \A e \in m.found : e.type \in IMPACT_EDGE_TYPES
        /\ \A e \in m.start : e.type \in IMPACT_EDGE_TYPES /\ e.target \in m.visited => e \in m.found
        /\ Seeds \subseteq m.visited \cup m.pending
        /\ \A e \in m.found : e.source \in m.visited \cup m.pending

\* The revision of the correction that a propagation read says no more than what
\* was downstream when it began.
ReadImpact(m) ==
    m.op = "propagate" /\ m.step \in {"gather", "write_impact"} =>
        /\ m.latest \in 1 .. Len(impact)
        /\ impact[m.latest] \subseteq Downstream(Seeds, m.start)

\* After the traversal every claim that was downstream at the start is still to be
\* marked, or needs no mark.
MarksAll(m) ==
    /\ m.op \in {"propagate", "receive"} => m.start \subseteq edges
    /\ m.step = "write_impact" =>
        /\ m.op = "propagate"
        /\ Downstream(Seeds, m.start) \subseteq m.todo
        /\ m.todo \subseteq Downstream(Seeds, edges)
    /\ m.step = "mark" => m.op \in {"propagate", "receive"}
    /\ m.op \in {"propagate", "receive"} /\ m.step # "gather" =>
        \A c \in Downstream(Seeds, m.start) \cap Claims : c \in m.todo \/ Status(c) \in Satisfied

Sound(m) ==
    /\ m \in Command
    /\ AsksFor(m) /\ HasRead(m) /\ MayWriteEdge(m) /\ MayRecord(m)
    /\ Traverses(m) /\ ReadImpact(m) /\ MarksAll(m)

\* The types of the tables and of the ghosts.
TypeInv ==
    /\ load \in Workloads
    /\ rev \in [Claims -> Seq(Revision)]
    /\ edges \subseteq Edge /\ IsFiniteSet(edges)
    /\ verifications \subseteq [claim : Claims, reviewer : Reviewers, result : Results]
    /\ impact \in Seq(SUBSET Objects) /\ impact # <<>>
    /\ cmd \in [Workers -> Command \cup {Idle}]
    /\ reviewed \subseteq Claims /\ driven \subseteq Claims

CommandsAreSound == \A m \in {cmd[w] : w \in Workers} \ {Idle} : Sound(m)

\* What the edges say is so, whatever the status of their source.
EdgesAreSound ==
    \A e \in edges :
        /\ Exists(e.source)
        /\ e.type = "ruled_by" => ~CeilingViolated(e.source, e.target)
        /\ e.type = "decided_by" => e.target \in KillBranch /\ Killed(e.source, e.target)

\* The statuses a driven claim is in for good.
OutOfSupport == {"contested"} \cup Satisfied

ImpactIsSound ==
    /\ ImpactNeverShrinks
    /\ \A i \in 1 .. Len(impact) : impact[i] \subseteq Downstream(Seeds, edges)

IInv ==
    /\ TypeInv /\ CommandsAreSound /\ EdgesAreSound
    /\ RevisionsFollowLifecycle /\ SupportedIsBacked /\ ImpactIsSound
    /\ \A c \in reviewed : Status(c) \in Satisfied
    /\ \A c \in driven : Status(c) \in OutOfSupport

-----------------------------------------------------------------------------
(* What a step may add to the store *)

FirstRevision == [status |-> "draft", from |-> None, event |-> "created",
                  decision |-> None, evidence |-> {}]

NewRevision(c, r) ==
    /\ Exists(c) /\ r \in Revision
    /\ r.from = Status(c) /\ <<Status(c), r.status>> \in Transitions
    /\ r.status = "supported" => Backed(c, r.evidence)

NewEdge(e) ==
    /\ e \in Edge /\ Exists(e.source)
    /\ e.type = "ruled_by" => ~CeilingViolated(e.source, e.target)
    /\ e.type = "decided_by" => e.target \in KillBranch /\ Killed(e.source, e.target)

NewImpact(s) ==
    /\ s \in SUBSET Objects /\ s \subseteq Downstream(Seeds, edges)
    /\ impact[Len(impact)] \subseteq s

\* A step adds at most a revision that continues its claim's history, an edge that
\* says what is so, or an impact set that holds the one before it.
Extends ==
    /\ load' = load
    /\ rev' \in [Claims -> Seq(Revision)]
    /\ \A c \in Claims : \/ rev'[c] = rev[c]
                         \/ rev[c] = <<>> /\ rev'[c] = <<FirstRevision>>
                         \/ \E r : NewRevision(c, r) /\ rev'[c] = Append(rev[c], r)
    /\ edges' = edges \/ \E e : NewEdge(e) /\ edges' = edges \cup {e}
    /\ impact' = impact \/ \E s : NewImpact(s) /\ impact' = Append(impact, s)

\* Only four of the actions write to the tables.
LEMMA Writers ==
    ASSUME [Next]_vars
    PROVE  /\ load' = load
           /\ \/ UNCHANGED <<rev, edges, impact>>
              \/ \E c \in Created : create(c)
              \/ \E w \in Workers :
                    cmd[w] # Idle /\ (WriteRevision(w) \/ WriteEdge(w) \/ WriteImpact(w))
  <1>1. CASE UNCHANGED vars
    BY <1>1 DEF vars
  <1>2. CASE Next
    <2>1. load' = load
      BY <1>2 DEF Next
    <2>2. CASE \E c \in Created : create(c)
      BY <2>1, <2>2
    <2>3. CASE \E w \in Workers :
                \/ \E c \in Created : Call(w, c)
                \/ propagate_impact(w) \/ receive_correction_notification(w)
                \/ Step(w) \/ CrashWorker(w)
      <3>1. PICK w \in Workers :
                \/ \E c \in Created : Call(w, c)
                \/ propagate_impact(w) \/ receive_correction_notification(w)
                \/ Step(w) \/ CrashWorker(w)
        BY <2>3
      <3>2. CASE \E c \in Created : Call(w, c)
        BY <2>1, <3>2 DEF Call, transition, to_supported, apply_kill_condition, AddEdge,
                attach_ruling, record_verification, NoWrite
      <3>3. CASE propagate_impact(w) \/ receive_correction_notification(w)
        BY <2>1, <3>3 DEF propagate_impact, receive_correction_notification, NoWrite
      <3>4. CASE CrashWorker(w)
        BY <2>1, <3>4 DEF CrashWorker, Raise, NoWrite
      <3>5. CASE Step(w)
        <4>1. CASE ReadClaim(w) \/ CheckCeiling(w) \/ CheckSupport(w)
          BY <2>1, <4>1 DEF ReadClaim, CheckCeiling, CheckSupport, Raise, NoWrite
        <4>2. CASE WriteRevision(w) \/ WriteEdge(w) \/ WriteImpact(w)
          BY <2>1, <4>2 DEF WriteRevision, WriteEdge, WriteImpact, At
        <4>3. CASE RecordVerification(w)
          BY <2>1, <4>3 DEF RecordVerification
        <4>4. CASE (\E id \in Objects : Gather(w, id)) \/ ComputeImpact(w)
                   \/ (\E id \in Objects : Mark(w, id))
          BY <2>1, <4>4 DEF Gather, ComputeImpact, Mark, NoWrite
        <4>5. CASE FinishImpact(w)
          BY <2>1, <4>5 DEF FinishImpact
        <4> QED
          BY <3>5, <4>1, <4>2, <4>3, <4>4, <4>5 DEF Step
      <3> QED
        BY <3>1, <3>2, <3>3, <3>4, <3>5
    <2> QED
      BY <1>2, <2>2, <2>3 DEF Next
  <1> QED
    BY <1>1, <1>2

\* The status of an existing claim is that of one of its revisions.
LEMMA StatusOf ==
    ASSUME TypeInv, NEW c \in Claims, Exists(c)
    PROVE  /\ Len(rev[c]) \in Nat \ {0}
           /\ Latest(c) \in Revision /\ Latest(c) = rev[c][Len(rev[c])]
           /\ Status(c) = Latest(c).status /\ Status(c) \in States
  <1>1. rev[c] \in Seq(Revision) /\ rev[c] # <<>>
    BY DEF TypeInv, Exists
  <1>2. Len(rev[c]) \in Nat \ {0} /\ rev[c][Len(rev[c])] \in Revision
    BY <1>1
  <1> QED
    BY <1>2 DEF Latest, Status, Revision

\* WriteRevision appends a revision that continues the history of its claim.
LEMMA WriteRevisionContinues ==
    ASSUME IInv, NEW w \in Workers, cmd[w] # Idle, WriteRevision(w), rev' # rev
    PROVE  /\ NewRevision(cmd[w].claim, RevisionOf(cmd[w]))
           /\ rev' = [rev EXCEPT ![cmd[w].claim] = Append(@, RevisionOf(cmd[w]))]
           /\ cmd[w].claim \in Claims /\ edges' = edges /\ impact' = impact
  <1> DEFINE m == cmd[w]
             c == m.claim
             r == RevisionOf(m)
  <1>1. /\ m.step = "write" /\ Len(rev[c]) = m.latest /\ edges' = edges /\ impact' = impact
        /\ rev' = [rev EXCEPT ![c] = Append(@, r)]
    BY DEF WriteRevision, At, Raise, NoWrite
  <1>2. Sound(m)
    BY DEF IInv, CommandsAreSound
  <1>3. /\ c \in Claims /\ m.to \in Asked /\ m.event \in Events
        /\ m.latest \in 1 .. Len(rev[c]) /\ rev[c][m.latest].status = m.status
        /\ <<m.status, m.to>> \in Transitions /\ (m.to = "supported" => Backed(c, m.evidence))
    BY <1>1, <1>2 DEF Sound, AsksFor, HasRead
  <1>4. rev[c] \in Seq(Revision)
    BY <1>3 DEF IInv, TypeInv
  <1>5. rev[c][m.latest] \in Revision
    BY <1>3, <1>4
  <1>6. Exists(c) /\ Status(c) = m.status
    BY <1>1, <1>3, <1>4 DEF Exists, Status, Latest
  <1>7. /\ m.to \in States /\ m.status \in States
        /\ m.decision \in KillBranch \cup {None} /\ m.evidence \in SUBSET Others
    BY <1>2, <1>3, <1>5 DEF Sound, Command, Asked, EventType, States, Terminal, Nonterminal, Revision
  <1>8. /\ r.status = m.to /\ r.from = m.status /\ (m.to = "supported" => r.evidence = m.evidence)
        /\ r \in Revision
    <2>1. rev[c][m.latest].evidence \in SUBSET Others
      BY <1>5 DEF Revision
    <2> HIDE DEF m
    <2> QED
      BY <1>3, <1>7, <2>1 DEF RevisionOf, Revision
  <1> QED
    BY <1>1, <1>3, <1>6, <1>8 DEF NewRevision

\* WriteEdge adds an edge that has passed the gate of its type.
LEMMA WriteEdgeIsGated ==
    ASSUME IInv, NEW w \in Workers, cmd[w] # Idle, WriteEdge(w)
    PROVE  /\ rev' = rev /\ impact' = impact
           /\ edges' = edges \/ \E e : NewEdge(e) /\ edges' = edges \cup {e}
  <1> DEFINE m == cmd[w]
             e == [source |-> m.claim, type |-> m.type, target |-> m.target]
  <1>1. Sound(m) /\ m.step = "write_edge"
    BY DEF IInv, CommandsAreSound, WriteEdge, At
  <1>2. CASE ~Exists(m.claim)
    BY <1>2 DEF WriteEdge, Raise, NoWrite
  <1>3. CASE Exists(m.claim)
    <2>1. rev' = rev /\ impact' = impact /\ edges' = edges \cup {e}
      BY <1>3 DEF WriteEdge
    <2>2. NewEdge(e)
      BY <1>1, <1>3 DEF Sound, MayWriteEdge, NewEdge, Edge
    <2> QED
      BY <2>1, <2>2
  <1> QED
    BY <1>2, <1>3

\* WriteImpact writes an impact set that holds the latest one.
LEMMA WriteImpactGrows ==
    ASSUME IInv, NEW w \in Workers, cmd[w] # Idle, WriteImpact(w)
    PROVE  /\ rev' = rev /\ edges' = edges
           /\ impact' = impact \/ \E s : NewImpact(s) /\ impact' = Append(impact, s)
  <1> DEFINE m == cmd[w]
  <1>1. Sound(m) /\ m.step = "write_impact"
    BY DEF IInv, CommandsAreSound, WriteImpact, At
  <1>2. CASE Len(impact) # m.latest
    BY <1>2 DEF WriteImpact, Raise, NoWrite
  <1>3. CASE Len(impact) = m.latest
    <2>1. rev' = rev /\ edges' = edges /\ impact' = Append(impact, m.todo)
      BY <1>3 DEF WriteImpact
    <2>2. NewImpact(m.todo)
      BY <1>1, <1>3 DEF Sound, MarksAll, ReadImpact, NewImpact, Command
    <2> QED
      BY <2>1, <2>2
  <1> QED
    BY <1>2, <1>3

LEMMA StoreExtends ==
    ASSUME IInv, [Next]_vars
    PROVE  Extends
  <1>1. load' = load
    BY Writers
  <1>2. CASE UNCHANGED <<rev, edges, impact>>
    BY <1>1, <1>2 DEF Extends, IInv, TypeInv
  <1>3. ASSUME NEW c \in Created, create(c) PROVE Extends
    <2>1. c \in Claims
      BY ClaimGraphConstants DEF IInv, TypeInv, Created
    <2>2. rev[c] = <<>> /\ rev' = [rev EXCEPT ![c] = <<FirstRevision>>] /\ UNCHANGED <<edges, impact>>
      BY <1>3 DEF create, Exists, FirstRevision
    <2>3. FirstRevision \in Revision
      BY DEF FirstRevision, Revision, States, Nonterminal, Events
    <2>4. <<FirstRevision>> \in Seq(Revision)
      BY <2>3
    <2> QED
      BY <1>1, <2>1, <2>2, <2>4 DEF Extends, IInv, TypeInv
  <1>4. ASSUME NEW w \in Workers, cmd[w] # Idle, WriteRevision(w), rev' # rev PROVE Extends
    <2> DEFINE c == cmd[w].claim
               r == RevisionOf(cmd[w])
    <2>1. /\ NewRevision(c, r) /\ rev' = [rev EXCEPT ![c] = Append(@, r)]
          /\ c \in Claims /\ edges' = edges /\ impact' = impact
      BY <1>4, WriteRevisionContinues
    <2> HIDE DEF c, r
    <2>2. rev \in [Claims -> Seq(Revision)]
      BY DEF IInv, TypeInv
    <2>3. Append(rev[c], r) \in Seq(Revision)
      BY <2>1, <2>2 DEF NewRevision
    <2> QED
      BY <1>1, <2>1, <2>2, <2>3 DEF Extends
  <1>5. ASSUME NEW w \in Workers, cmd[w] # Idle, WriteRevision(w), rev' = rev PROVE Extends
    <2>1. edges' = edges /\ impact' = impact
      BY <1>5 DEF WriteRevision, Raise, NoWrite
    <2> QED
      BY <1>1, <1>5, <2>1 DEF Extends, IInv, TypeInv
  <1>6. ASSUME NEW w \in Workers, cmd[w] # Idle, WriteEdge(w) PROVE Extends
    BY <1>1, <1>6, WriteEdgeIsGated DEF Extends, IInv, TypeInv
  <1>7. ASSUME NEW w \in Workers, cmd[w] # Idle, WriteImpact(w) PROVE Extends
    BY <1>1, <1>7, WriteImpactGrows DEF Extends, IInv, TypeInv
  <1> QED
    BY <1>2, <1>3, <1>4, <1>5, <1>6, <1>7, Writers

-----------------------------------------------------------------------------
(* What was in the store stays so *)

LEMMA AppendedTo ==
    ASSUME NEW S, NEW s \in Seq(S), NEW x \in S
    PROVE  /\ Append(s, x) \in Seq(S) /\ Len(s) \in Nat
           /\ Len(Append(s, x)) = Len(s) + 1 /\ Append(s, x)[Len(s) + 1] = x
           /\ \A i \in 1 .. Len(s) : Append(s, x)[i] = s[i]
  OBVIOUS

\* Histories and edges only grow, and what follows a status is a transition from it.
LEMMA StoreKept ==
    ASSUME IInv, Extends
    PROVE  /\ \A c \in Claims :
                /\ Len(rev[c]) \in Nat /\ Len(rev'[c]) \in Nat /\ Len(rev[c]) <= Len(rev'[c])
                /\ \A i \in 1 .. Len(rev[c]) : rev'[c][i] = rev[c][i]
                /\ Exists(c) => Exists(c)'
                /\ Exists(c) => \/ Status(c)' = Status(c) /\ Latest(c)' = Latest(c)
                                \/ <<Status(c), Status(c)'>> \in Transitions
           /\ edges \subseteq edges'
           /\ Len(impact) \in Nat /\ Len(impact') \in Nat /\ Len(impact) <= Len(impact')
           /\ \A i \in 1 .. Len(impact) : impact'[i] = impact[i]
  <1>1. ASSUME NEW c \in Claims
        PROVE  /\ Len(rev[c]) \in Nat /\ Len(rev'[c]) \in Nat /\ Len(rev[c]) <= Len(rev'[c])
               /\ \A i \in 1 .. Len(rev[c]) : rev'[c][i] = rev[c][i]
               /\ Exists(c) => Exists(c)'
               /\ Exists(c) => \/ Status(c)' = Status(c) /\ Latest(c)' = Latest(c)
                               \/ <<Status(c), Status(c)'>> \in Transitions
    <2>0. rev[c] \in Seq(Revision) /\ rev'[c] \in Seq(Revision)
      BY DEF IInv, TypeInv, Extends
    <2>1. CASE rev'[c] = rev[c]
      BY <2>0, <2>1 DEF Exists, Status, Latest
    <2>2. CASE rev[c] = <<>>
      BY <2>0, <2>2 DEF Exists
    <2>3. ASSUME NEW r, NewRevision(c, r), rev'[c] = Append(rev[c], r)
          PROVE  /\ Len(rev[c]) \in Nat /\ Len(rev'[c]) \in Nat /\ Len(rev[c]) <= Len(rev'[c])
                 /\ \A i \in 1 .. Len(rev[c]) : rev'[c][i] = rev[c][i]
                 /\ Exists(c)' /\ <<Status(c), Status(c)'>> \in Transitions
      <3>1. r \in Revision /\ <<Status(c), r.status>> \in Transitions
        BY <2>3 DEF NewRevision
      <3>2. /\ Len(rev[c]) \in Nat /\ Len(rev'[c]) = Len(rev[c]) + 1 /\ rev'[c][Len(rev[c]) + 1] = r
            /\ \A i \in 1 .. Len(rev[c]) : rev'[c][i] = rev[c][i]
        BY <2>0, <2>3, <3>1, AppendedTo
      <3>3. rev'[c] # <<>>
        BY <3>2, <2>0
      <3>4. Status(c)' = r.status
        BY <3>2, <3>3 DEF Status, Latest, Exists
      <3> QED
        BY <3>1, <3>2, <3>3, <3>4 DEF Exists
    <2> QED
      BY <2>1, <2>2, <2>3 DEF Extends
  <1>2. edges \subseteq edges'
    BY DEF Extends
  <1>3. /\ Len(impact) \in Nat /\ Len(impact') \in Nat /\ Len(impact) <= Len(impact')
        /\ \A i \in 1 .. Len(impact) : impact'[i] = impact[i]
    <2>0. impact \in Seq(SUBSET Objects)
      BY DEF IInv, TypeInv
    <2>1. CASE impact' = impact
      BY <2>0, <2>1
    <2>2. ASSUME NEW s, NewImpact(s), impact' = Append(impact, s)
          PROVE  /\ Len(impact) \in Nat /\ Len(impact') \in Nat /\ Len(impact) <= Len(impact')
                 /\ \A i \in 1 .. Len(impact) : impact'[i] = impact[i]
      <3>1. s \in SUBSET Objects
        BY <2>2 DEF NewImpact
      <3> QED
        BY <2>0, <2>2, <3>1, AppendedTo
    <2> QED
      BY <2>1, <2>2 DEF Extends
  <1> QED
    BY <1>1, <1>2, <1>3

\* The lifecycle has no way back from what the marks and the driven statuses ask for,
\* and none at all from withdrawn.
LEMMA StatusesKept ==
    ASSUME IInv, Extends, NEW c \in Claims
    PROVE  /\ Status(c) \in Satisfied => Status(c)' \in Satisfied
           /\ Status(c) \in OutOfSupport => Status(c)' \in OutOfSupport
           /\ \A decision : Exists(c) /\ Killed(c, decision) => Killed(c, decision)'
           /\ \A evidence : Backed(c, evidence) => Backed(c, evidence)'
  <1>1. /\ Exists(c) => \/ Status(c)' = Status(c) /\ Latest(c)' = Latest(c)
                       \/ <<Status(c), Status(c)'>> \in Transitions
        /\ edges \subseteq edges'
    BY StoreKept
  <1>2. Status(c) \in States => Exists(c)
    BY ClaimGraphConstants DEF Status
  <1>3. <<Status(c), Status(c)'>> \in Transitions =>
            /\ Status(c) \in Satisfied => Status(c)' \in Satisfied
            /\ Status(c) \in OutOfSupport => Status(c)' \in OutOfSupport
            /\ Status(c) # "withdrawn"
    BY DEF Transitions, Satisfied, OutOfSupport, Terminal, Nonterminal
  <1>4. Satisfied \subseteq States /\ OutOfSupport \subseteq States
    BY DEF States, Satisfied, OutOfSupport, Terminal, Nonterminal
  <1>5. Status(c) \in Satisfied => Status(c)' \in Satisfied
    BY <1>1, <1>2, <1>3, <1>4
  <1>6. Status(c) \in OutOfSupport => Status(c)' \in OutOfSupport
    BY <1>1, <1>2, <1>3, <1>4
  <1>7. ASSUME NEW decision, Exists(c), Killed(c, decision) PROVE Killed(c, decision)'
    BY <1>1, <1>3, <1>7 DEF Killed
  <1>8. ASSUME NEW evidence, Backed(c, evidence) PROVE Backed(c, evidence)'
    BY <1>1, <1>8 DEF Backed
  <1> QED
    BY <1>5, <1>6, <1>7, <1>8

LEMMA EdgeTyping ==
    ASSUME IInv
    PROVE  /\ \A e \in edges : e.source \in Claims /\ e.source \in Objects
           /\ \A e \in Edge : e.source \in Claims /\ e.source \in Objects
  BY DEF IInv, TypeInv, Edge, Objects

\* A claim that lies downstream of the seeds exists.
LEMMA DownstreamExists ==
    ASSUME IInv, NEW graph, graph \subseteq edges, NEW c \in Downstream(Seeds, graph)
    PROVE  Exists(c)
  <1>1. c \in {e.source : e \in graph}
    BY EdgeTyping, DownstreamAreSources
  <1> QED
    BY <1>1 DEF IInv, EdgesAreSound

\* What a command knows stays so, whatever the others do.
LEMMA SoundKept ==
    ASSUME IInv, Extends, NEW m, Sound(m)
    PROVE  Sound(m)'
  <1>0. load' = load /\ edges \subseteq edges'
    BY StoreKept DEF Extends
  <1>1. (m \in Command)'
    BY <1>0 DEF Sound, Command, EdgeTypes, Edge
  <1>2. AsksFor(m)'
    BY DEF Sound, AsksFor
  <1>3. HasRead(m)'
    <2> SUFFICES ASSUME m.step \in {"ceiling", "support", "write"}
                 PROVE  /\ m.latest \in 1 .. Len(rev'[m.claim])
                        /\ rev'[m.claim][m.latest].status = m.status
                        /\ <<m.status, m.to>> \in Transitions
                        /\ m.step = "write" /\ m.to = "supported" => Backed(m.claim, m.evidence)'
      BY DEF HasRead
    <2>1. m.claim \in Claims
      BY DEF Sound, AsksFor
    <2>2. /\ m.latest \in 1 .. Len(rev[m.claim]) /\ rev[m.claim][m.latest].status = m.status
          /\ <<m.status, m.to>> \in Transitions
          /\ m.step = "write" /\ m.to = "supported" => Backed(m.claim, m.evidence)
      BY DEF Sound, HasRead
    <2>3. /\ Len(rev[m.claim]) \in Nat /\ Len(rev'[m.claim]) \in Nat
          /\ Len(rev[m.claim]) <= Len(rev'[m.claim])
          /\ \A i \in 1 .. Len(rev[m.claim]) : rev'[m.claim][i] = rev[m.claim][i]
      BY <2>1, StoreKept
    <2>4. Backed(m.claim, m.evidence) => Backed(m.claim, m.evidence)'
      BY <2>1, StatusesKept
    <2> QED
      BY <2>2, <2>3, <2>4
  <1>4. MayWriteEdge(m)'
    <2> SUFFICES ASSUME m.step = "write_edge" PROVE MayWriteEdge(m)'
      BY DEF MayWriteEdge
    <2>1. /\ m.claim \in Claims /\ m.type \in EdgeTypes \cup GATED_EDGE_TYPES
          /\ m.target \in Objects \cup Rulings \cup Decisions
          /\ m.type = "ruled_by" => ~CeilingViolated(m.claim, m.target)
          /\ m.type = "decided_by" => m.target \in KillBranch /\ Killed(m.claim, m.target)
      BY DEF Sound, MayWriteEdge
    <2>2. Killed(m.claim, m.target) => Exists(m.claim)
      BY ClaimGraphConstants DEF Killed, Status, States, Terminal
    <2>3. Killed(m.claim, m.target) => Killed(m.claim, m.target)'
      BY <2>1, <2>2, StatusesKept
    <2> QED
      BY <1>0, <2>1, <2>3 DEF MayWriteEdge, EdgeTypes
  <1>5. MayRecord(m)'
    BY DEF Sound, MayRecord
  <1>6. Traverses(m)'
    BY <1>0 DEF Sound, Traverses
  <1>7. ReadImpact(m)'
    <2>1. /\ Len(impact) \in Nat /\ Len(impact') \in Nat /\ Len(impact) <= Len(impact')
          /\ \A i \in 1 .. Len(impact) : impact'[i] = impact[i]
      BY StoreKept
    <2> QED
      BY <2>1 DEF Sound, ReadImpact
  <1>8. MarksAll(m)'
    <2>1. Downstream(Seeds, edges) \subseteq Downstream(Seeds, edges')
      BY <1>0, DownstreamGrows
    <2>2. \A c \in Claims : Status(c) \in Satisfied => Status(c)' \in Satisfied
      BY StatusesKept
    <2> QED
      BY <1>0, <2>1, <2>2 DEF Sound, MarksAll
  <1> QED
    BY <1>1, <1>2, <1>3, <1>4, <1>5, <1>6, <1>7, <1>8 DEF Sound

-----------------------------------------------------------------------------
(* The invariants of the store *)

LEMMA EdgesStaySound ==
    ASSUME IInv, Extends
    PROVE  EdgesAreSound'
  <1> SUFFICES ASSUME NEW e \in edges'
               PROVE  /\ Exists(e.source)'
                      /\ e.type = "ruled_by" => ~CeilingViolated(e.source, e.target)
                      /\ e.type = "decided_by" => e.target \in KillBranch /\ Killed(e.source, e.target)'
    BY DEF EdgesAreSound
  <1>1. /\ e.source \in Claims /\ Exists(e.source)
        /\ e.type = "ruled_by" => ~CeilingViolated(e.source, e.target)
        /\ e.type = "decided_by" => e.target \in KillBranch /\ Killed(e.source, e.target)
    <2>1. CASE e \in edges
      BY <2>1, EdgeTyping DEF IInv, EdgesAreSound
    <2>2. CASE e \notin edges
      <3>1. NewEdge(e)
        BY <2>2 DEF Extends
      <3> QED
        BY <3>1, EdgeTyping DEF NewEdge
    <2> QED
      BY <2>1, <2>2
  <1>2. Exists(e.source)'
    BY <1>1, StoreKept
  <1>3. e.type = "decided_by" => Killed(e.source, e.target)'
    BY <1>1, StatusesKept
  <1> QED
    BY <1>1, <1>2, <1>3

\* Each history continues as one path, and what is supported is backed when written.
LEMMA HistoriesStaySound ==
    ASSUME IInv, Extends
    PROVE  RevisionsFollowLifecycle' /\ SupportedIsBacked'
  <1> DEFINE BackedThen(c, evidence) ==
                /\ evidence # {}
                /\ \A o \in evidence : [source |-> c, type |-> "supports", target |-> o] \in edges'
  <1> SUFFICES ASSUME NEW c \in Claims, NEW i \in 1 .. Len(rev'[c])
               PROVE  /\ IF i = 1 THEN rev'[c][1].status = "draft"
                         ELSE /\ rev'[c][i].from = rev'[c][i - 1].status
                              /\ <<rev'[c][i - 1].status, rev'[c][i].status>> \in Transitions
                      /\ rev'[c][i].status = "supported" => BackedThen(c, rev'[c][i].evidence)
    BY DEF RevisionsFollowLifecycle, SupportedIsBacked
  <1>0. \A evidence : Backed(c, evidence) => BackedThen(c, evidence)
    BY StoreKept DEF Backed
  <1> HIDE DEF BackedThen
  <1> DEFINE old == rev[c]
             new == rev'[c]
  <1>1. /\ old \in Seq(Revision) /\ new \in Seq(Revision)
        /\ Len(old) \in Nat /\ Len(new) \in Nat /\ Len(old) <= Len(new)
        /\ \A j \in 1 .. Len(old) : new[j] = old[j]
    BY StoreKept DEF IInv, TypeInv, Extends
  <1>2. CASE i \in 1 .. Len(old)
    <2>1. /\ IF i = 1 THEN old[1].status = "draft"
             ELSE /\ old[i].from = old[i - 1].status
                  /\ <<old[i - 1].status, old[i].status>> \in Transitions
          /\ old[i].status = "supported" => Backed(c, old[i].evidence)
      BY <1>2 DEF IInv, RevisionsFollowLifecycle, SupportedIsBacked, Backed
    <2>2. Backed(c, old[i].evidence) => BackedThen(c, old[i].evidence)
      BY <1>0
    <2>3. new[i] = old[i] /\ (i # 1 => new[i - 1] = old[i - 1])
      BY <1>1, <1>2
    <2> QED
      BY <2>1, <2>2, <2>3
  <1>3. CASE i \notin 1 .. Len(old)
    <2>1. CASE old = <<>> /\ new = <<FirstRevision>>
      <3>1. i = 1 /\ new[1].status = "draft"
        BY <2>1 DEF FirstRevision
      <3> QED
        BY <3>1
    <2>2. ASSUME NEW r, NewRevision(c, r), new = Append(old, r)
          PROVE  /\ i # 1 /\ new[i].from = new[i - 1].status
                 /\ <<new[i - 1].status, new[i].status>> \in Transitions
                 /\ new[i].status = "supported" => BackedThen(c, new[i].evidence)
      <3>1. /\ Exists(c) /\ r \in Revision /\ r.from = Status(c)
            /\ <<Status(c), r.status>> \in Transitions
            /\ r.status = "supported" => BackedThen(c, r.evidence)
        BY <1>0, <2>2 DEF NewRevision
      <3>2. Status(c) = old[Len(old)].status /\ Len(old) >= 1
        BY <3>1, StatusOf DEF IInv
      <3>3. Len(new) = Len(old) + 1 /\ new[Len(old) + 1] = r
        BY <1>1, <2>2, <3>1, AppendedTo
      <3>4. i = Len(old) + 1
        BY <1>1, <1>3, <3>3
      <3>5. new[i] = r /\ new[i - 1] = old[Len(old)]
        BY <1>1, <3>2, <3>3, <3>4
      <3> QED
        BY <3>1, <3>2, <3>4, <3>5
    <2>3. new # old
      BY <1>3
    <2> QED
      BY <2>1, <2>2, <2>3 DEF Extends
  <1> QED
    BY <1>2, <1>3

LEMMA ImpactStaysSound ==
    ASSUME IInv, Extends
    PROVE  ImpactIsSound'
  <1>0. Downstream(Seeds, edges) \subseteq Downstream(Seeds, edges')
    BY StoreKept, DownstreamGrows
  <1>1. /\ \A i, j \in 1 .. Len(impact) : i < j => impact[i] \subseteq impact[j]
        /\ \A i \in 1 .. Len(impact) : impact[i] \subseteq Downstream(Seeds, edges)
        /\ impact \in Seq(SUBSET Objects) /\ impact # <<>>
    BY DEF IInv, TypeInv, ImpactIsSound, ImpactNeverShrinks
  <1>2. CASE impact' = impact
    BY <1>0, <1>1, <1>2 DEF ImpactIsSound, ImpactNeverShrinks
  <1>3. ASSUME NEW s, NewImpact(s), impact' = Append(impact, s) PROVE ImpactIsSound'
    <2> DEFINE n == Len(impact)
    <2>1. /\ s \in SUBSET Objects /\ s \subseteq Downstream(Seeds, edges) /\ impact[n] \subseteq s
      BY <1>3 DEF NewImpact
    <2>2. /\ n \in Nat /\ Len(impact') = n + 1 /\ impact'[n + 1] = s
          /\ \A i \in 1 .. n : impact'[i] = impact[i]
      BY <1>1, <1>3, <2>1, AppendedTo
    <2>3. n >= 1
      BY <1>1
    <2> HIDE DEF n
    <2>4. \A i \in 1 .. n : impact[i] \subseteq impact[n]
      BY <1>1, <2>2, <2>3 DEF n
    <2>5. \A i \in 1 .. n : impact[i] \subseteq s
      BY <2>1, <2>4
    <2>6. ASSUME NEW i \in 1 .. Len(impact'), NEW j \in 1 .. Len(impact'), i < j
          PROVE  impact'[i] \subseteq impact'[j]
      <3>1. i \in 1 .. n
        BY <2>2, <2>6
      <3>2. CASE j \in 1 .. n
        BY <1>1, <2>2, <2>6, <3>1, <3>2 DEF n
      <3>3. CASE j = n + 1
        BY <2>2, <2>5, <3>1, <3>3
      <3> QED
        BY <2>2, <2>6, <3>2, <3>3
    <2>7. ASSUME NEW i \in 1 .. Len(impact') PROVE impact'[i] \subseteq Downstream(Seeds, edges')
      <3>1. CASE i \in 1 .. n
        BY <1>0, <1>1, <2>2, <3>1 DEF n
      <3>2. CASE i = n + 1
        BY <1>0, <2>1, <2>2, <3>2
      <3> QED
        BY <2>2, <2>7, <3>1, <3>2
    <2> QED
      BY <2>6, <2>7 DEF ImpactIsSound, ImpactNeverShrinks
  <1> QED
    BY <1>2, <1>3 DEF Extends

-----------------------------------------------------------------------------
(* The commands: what a worker begins *)

\* Worker w is done, or goes on with a command that is sound in the state reached.
Continues(w) ==
    \/ cmd' = [cmd EXCEPT ![w] = Idle]
    \/ \E m : Sound(m)' /\ cmd' = [cmd EXCEPT ![w] = m]

\* A command that is sound before a step is sound after it.
LEMMA ContinuesWith ==
    ASSUME IInv, Extends, NEW w \in Workers, NEW m, Sound(m), Goto(w, m)
    PROVE  Continues(w)
  BY SoundKept DEF Continues, Goto

\* A new command that is about to read its claim.
LEMMA SoundRequest ==
    ASSUME NEW m \in Command, m.step = "read", m.op \in {"transition", "kill"}, AsksFor(m)
    PROVE  Sound(m)
  BY DEF Sound, HasRead, MayWriteEdge, MayRecord, Traverses, ReadImpact, MarksAll

LEMMA CallContinues ==
    ASSUME IInv, Extends, NEW w \in Workers, NEW c \in Created, Call(w, c)
    PROVE  Continues(w)
  <1>0. /\ c \in Claims /\ Targets \subseteq Asked /\ EdgeTargets \subseteq Objects \cup Decisions
        /\ Asked \subseteq States
    <2>1. load \in Workloads
      BY DEF IInv, TypeInv
    <2> QED
      BY <2>1, ClaimGraphConstants
         DEF Created, Targets, EdgeTargets, Asked, EventType, States, Terminal, Nonterminal
  <1>1. ASSUME NEW to \in Targets, transition(w, c, to) PROVE Continues(w)
    <2> DEFINE m == [NewCommand("transition", "read", c) EXCEPT !.to = to, !.event = EventType[to]]
    <2>1. m \in Command
      BY <1>0 DEF NewCommand, Command, Events
    <2>2. m.step = "read" /\ m.op = "transition" /\ m.claim = c /\ m.to = to /\ m.event = EventType[to]
      BY DEF NewCommand
    <2>3. Goto(w, m)
      BY <1>1 DEF transition
    <2> HIDE DEF m
    <2>4. AsksFor(m)
      BY <1>0, <2>2 DEF AsksFor, Events
    <2> QED
      BY <2>1, <2>2, <2>3, <2>4, SoundRequest, ContinuesWith
  <1>2. ASSUME NEW evidence \in SUBSET Others, NEW verified \in BOOLEAN,
               to_supported(w, c, evidence, verified)
        PROVE  Continues(w)
    <2> DEFINE m == [NewCommand("transition", "read", c) EXCEPT
                        !.to = "supported", !.event = EventType["supported"],
                        !.evidence = evidence, !.verified = verified]
    <2>0. "supported" \in Asked
      BY DEF Asked, EventType
    <2>1. m \in Command
      BY <1>0, <2>0 DEF NewCommand, Command, Events
    <2>2. /\ m.step = "read" /\ m.op = "transition" /\ m.claim = c /\ m.to = "supported"
          /\ m.event = EventType["supported"]
      BY DEF NewCommand
    <2>3. Goto(w, m)
      BY <1>2 DEF to_supported
    <2> HIDE DEF m
    <2>4. AsksFor(m)
      BY <1>0, <2>0, <2>2 DEF AsksFor, Events
    <2> QED
      BY <2>1, <2>2, <2>3, <2>4, SoundRequest, ContinuesWith
  <1>3. ASSUME NEW decision \in Decisions, apply_kill_condition(w, c, decision) PROVE Continues(w)
    <2> DEFINE m == [NewCommand("kill", "read", c) EXCEPT
                        !.to = "withdrawn", !.event = "kill_condition_triggered",
                        !.decision = decision, !.type = "decided_by", !.target = decision]
    <2>0. "withdrawn" \in Asked /\ decision \in KillBranch
      BY <1>3 DEF Asked, EventType, apply_kill_condition
    <2>1. m \in Command
      BY <1>0, <2>0 DEF NewCommand, Command, Events, GATED_EDGE_TYPES
    <2>2. /\ m.step = "read" /\ m.op = "kill" /\ m.claim = c /\ m.to = "withdrawn"
          /\ m.event = "kill_condition_triggered" /\ m.decision = decision
          /\ m.type = "decided_by" /\ m.target = decision
      BY DEF NewCommand
    <2>3. Goto(w, m)
      BY <1>3 DEF apply_kill_condition
    <2> HIDE DEF m
    <2>4. AsksFor(m)
      BY <1>0, <2>0, <2>2 DEF AsksFor, Events
    <2> QED
      BY <2>1, <2>2, <2>3, <2>4, SoundRequest, ContinuesWith
  <1>4. ASSUME NEW target \in EdgeTargets, NEW type \in EdgeTypes, AddEdge(w, c, target, type)
        PROVE  Continues(w)
    <2> DEFINE m == [NewCommand("edge", "write_edge", c) EXCEPT !.type = type, !.target = target]
    <2>1. m \in Command
      BY <1>0 DEF NewCommand, Command
    <2>2. m.step = "write_edge" /\ m.op = "edge" /\ m.claim = c /\ m.type = type /\ m.target = target
      BY DEF NewCommand
    <2>3. Goto(w, m) /\ type \notin GATED_EDGE_TYPES
      BY <1>4 DEF AddEdge
    <2> HIDE DEF m
    <2>4. Sound(m)
      BY <1>0, <2>1, <2>2, <2>3 DEF Sound, AsksFor, HasRead, MayWriteEdge, MayRecord, Traverses,
            ReadImpact, MarksAll, GATED_EDGE_TYPES
    <2> QED
      BY <2>3, <2>4, ContinuesWith
  <1>5. ASSUME NEW ruling \in Rulings, attach_ruling(w, c, ruling) PROVE Continues(w)
    <2> DEFINE m == [NewCommand("edge", "write_edge", c) EXCEPT !.type = "ruled_by", !.target = ruling]
    <2>1. m \in Command
      BY <1>0 DEF NewCommand, Command, GATED_EDGE_TYPES
    <2>2. m.step = "write_edge" /\ m.op = "edge" /\ m.claim = c /\ m.type = "ruled_by" /\ m.target = ruling
      BY DEF NewCommand
    <2>3. Goto(w, m) /\ ~CeilingViolated(c, ruling)
      BY <1>5 DEF attach_ruling
    <2> HIDE DEF m
    <2>4. Sound(m)
      BY <1>0, <2>1, <2>2, <2>3 DEF Sound, AsksFor, HasRead, MayWriteEdge, MayRecord, Traverses,
            ReadImpact, MarksAll, GATED_EDGE_TYPES
    <2> QED
      BY <2>3, <2>4, ContinuesWith
  <1>6. ASSUME NEW reviewer \in Reviewers, NEW result \in Results,
               record_verification(w, c, reviewer, result)
        PROVE  Continues(w)
    <2> DEFINE m == [NewCommand("verify", "record", c) EXCEPT
                        !.reviewer = reviewer, !.result = result, !.status = Status(c)]
    <2>0. Status(c) \in States
      BY <1>0, <1>6, StatusOf DEF IInv, record_verification
    <2>1. m \in Command
      BY <1>0, <2>0 DEF NewCommand, Command
    <2>2. m.step = "record" /\ m.op = "verify" /\ m.claim = c /\ m.reviewer = reviewer /\ m.result = result
      BY DEF NewCommand
    <2>3. Goto(w, m)
      BY <1>6 DEF record_verification
    <2> HIDE DEF m
    <2>4. Sound(m)
      BY <1>0, <2>1, <2>2 DEF Sound, AsksFor, HasRead, MayWriteEdge, MayRecord, Traverses,
            ReadImpact, MarksAll
    <2> QED
      BY <2>3, <2>4, ContinuesWith
  <1> QED
    BY <1>1, <1>2, <1>3, <1>4, <1>5, <1>6 DEF Call, Results

\* A traversal begins with the seeds to visit and the edges there are.
LEMMA TraversalContinues ==
    ASSUME IInv, Extends, NEW w \in Workers, propagate_impact(w) \/ receive_correction_notification(w)
    PROVE  Continues(w)
  <1>0. /\ edges \in SUBSET Edge /\ Seeds \in SUBSET Objects
        /\ Len(impact) \in Nat /\ Len(impact) \in 1 .. Len(impact)
        /\ impact[Len(impact)] \subseteq Downstream(Seeds, edges)
    BY ClaimGraphConstants DEF IInv, TypeInv, ImpactIsSound
  <1>1. ASSUME NEW m \in Command, m.op \in {"propagate", "receive"}, m.step = "gather",
               m.pending = Seeds, m.start = edges, m.visited = {}, m.found = {},
               m.op = "propagate" => m.latest = Len(impact)
        PROVE  Sound(m)
    BY <1>0, <1>1 DEF Sound, AsksFor, HasRead, MayWriteEdge, MayRecord, Traverses,
       ReadImpact, MarksAll
  <1>2. CASE propagate_impact(w)
    <2> DEFINE m == [NewCommand("propagate", "gather", None) EXCEPT
                        !.latest = Len(impact), !.pending = Seeds, !.start = edges]
    <2>1. m \in Command
      BY <1>0 DEF NewCommand, Command
    <2>2. /\ m.op = "propagate" /\ m.step = "gather" /\ m.latest = Len(impact)
          /\ m.pending = Seeds /\ m.start = edges /\ m.visited = {} /\ m.found = {}
      BY DEF NewCommand
    <2>3. Goto(w, m)
      BY <1>2 DEF propagate_impact
    <2> HIDE DEF m
    <2> QED
      BY <1>1, <2>1, <2>2, <2>3, ContinuesWith
  <1>3. CASE receive_correction_notification(w)
    <2> DEFINE m == [NewCommand("receive", "gather", None) EXCEPT !.pending = Seeds, !.start = edges]
    <2>1. m \in Command
      BY <1>0 DEF NewCommand, Command
    <2>2. /\ m.op = "receive" /\ m.step = "gather" /\ m.pending = Seeds
          /\ m.start = edges /\ m.visited = {} /\ m.found = {}
      BY DEF NewCommand
    <2>3. Goto(w, m)
      BY <1>3 DEF receive_correction_notification
    <2> HIDE DEF m
    <2> QED
      BY <1>1, <2>1, <2>2, <2>3, ContinuesWith
  <1> QED
    BY <1>2, <1>3

-----------------------------------------------------------------------------
(* The commands: what a worker goes on with *)

\* ReadClaim, CheckCeiling and CheckSupport: a step of _transition that writes nothing.
LEMMA TransitionContinues ==
    ASSUME IInv, Extends, NEW w \in Workers, cmd[w] # Idle,
           ReadClaim(w) \/ CheckCeiling(w) \/ CheckSupport(w)
    PROVE  Continues(w)
  <1> DEFINE m == cmd[w]
             c == m.claim
  <1>0. Sound(m) /\ m \in Command
    BY DEF IInv, CommandsAreSound, Sound
  <1>1. ASSUME Raise(w) PROVE Continues(w)
    BY <1>1 DEF Raise, Return, Continues
  <1>2. ASSUME ReadClaim(w), Exists(c), <<Status(c), m.to>> \in Transitions PROVE Continues(w)
    <2> DEFINE step == IF m.to \in Asserting THEN "ceiling" ELSE "write"
               next == [m EXCEPT !.latest = Len(rev[c]), !.status = Status(c), !.step = step]
    <2>0. m.step = "read" /\ c \in Claims /\ m.to \in Asked
      BY <1>0, <1>2 DEF ReadClaim, At, Sound, AsksFor
    <2>1. /\ Len(rev[c]) \in Nat /\ Len(rev[c]) \in 1 .. Len(rev[c])
          /\ Status(c) = rev[c][Len(rev[c])].status /\ Status(c) \in States
      BY <1>2, <2>0, StatusOf DEF IInv
    <2>2. Goto(w, next)
      BY <1>2 DEF ReadClaim
    <2>3. next \in Command
      <3>1. step \in {"ceiling", "write"} /\ Status(c) \in States \cup {None}
        BY <2>1
      <3>2. \A x \in {"ceiling", "write"}, y \in States \cup {None}, n \in Nat :
                [m EXCEPT !.latest = n, !.status = y, !.step = x] \in Command
        BY <1>0 DEF Command
      <3> HIDE DEF step
      <3> QED
        BY <2>1, <3>1, <3>2
    <2>4. /\ next.step \in {"ceiling", "write"} /\ (m.to \in Asserting => next.step = "ceiling")
          /\ next.latest = Len(rev[c]) /\ next.status = Status(c)
          /\ next.op = m.op /\ next.claim = c /\ next.to = m.to /\ next.event = m.event
          /\ next.type = m.type /\ next.target = m.target /\ next.decision = m.decision
          /\ next.todo = m.todo /\ next.start = m.start
      BY <1>0 DEF Command
    <2> HIDE DEF next
    <2>5. AsksFor(next)
      BY <1>0, <2>0, <2>4 DEF Sound, AsksFor
    <2>6. HasRead(next)
      BY <1>2, <2>0, <2>1, <2>4 DEF HasRead, Asserting
    <2>7. MarksAll(next)
      BY <1>0, <2>0, <2>4 DEF Sound, MarksAll
    <2>8. Sound(next)
      BY <2>3, <2>4, <2>5, <2>6, <2>7 DEF Sound, MayWriteEdge, MayRecord, Traverses, ReadImpact
    <2> QED
      BY <2>2, <2>8, ContinuesWith
  <1>3. ASSUME NEW step \in {"support", "write"}, m.step \in {"ceiling", "support"},
               step = "write" /\ m.to = "supported" => Backed(c, m.evidence),
               Goto(w, [m EXCEPT !.step = step])
        PROVE  Continues(w)
    <2> DEFINE next == [m EXCEPT !.step = step]
    <2>1. next \in Command
      BY <1>0 DEF Command
    <2>2. /\ next.step = step /\ next.latest = m.latest /\ next.status = m.status
          /\ next.op = m.op /\ next.claim = c /\ next.to = m.to /\ next.event = m.event
          /\ next.type = m.type /\ next.target = m.target /\ next.decision = m.decision
          /\ next.todo = m.todo /\ next.start = m.start /\ next.evidence = m.evidence
      BY <1>0 DEF Command
    <2> HIDE DEF next
    <2>3. AsksFor(next)
      BY <1>0, <1>3, <2>2 DEF Sound, AsksFor
    <2>4. HasRead(next)
      BY <1>0, <1>3, <2>2 DEF Sound, HasRead
    <2>5. MarksAll(next)
      BY <1>0, <1>3, <2>2 DEF Sound, MarksAll
    <2>6. Sound(next)
      BY <1>3, <2>1, <2>2, <2>3, <2>4, <2>5 DEF Sound, MayWriteEdge, MayRecord, Traverses, ReadImpact
    <2> QED
      BY <1>3, <2>6, ContinuesWith DEF next
  <1>4. CASE ReadClaim(w)
    BY <1>1, <1>2, <1>4 DEF ReadClaim
  <1>5. CASE CheckCeiling(w)
    <2>1. m.step = "ceiling"
      BY <1>5 DEF CheckCeiling, At
    <2>2. CASE Raise(w)
      BY <1>1, <2>2
    <2>3. CASE Goto(w, [m EXCEPT !.step = IF m.to = "supported" THEN "support" ELSE "write"])
      BY <1>3, <2>1, <2>3
    <2> QED
      BY <1>5, <2>2, <2>3 DEF CheckCeiling
  <1>6. CASE CheckSupport(w)
    <2>1. m.step = "support"
      BY <1>6 DEF CheckSupport, At
    <2>2. CASE Raise(w)
      BY <1>1, <2>2
    <2>3. CASE /\ m.evidence \subseteq {e.target : e \in edges_from(c, "supports")}
               /\ m.evidence # {} /\ Goto(w, [m EXCEPT !.step = "write"])
      <3>1. \A e \in edges_from(c, "supports") :
                e = [source |-> c, type |-> "supports", target |-> e.target] /\ e \in edges
        BY DEF edges_from, IInv, TypeInv, Edge
      <3>2. Backed(c, m.evidence)
        BY <2>3, <3>1 DEF Backed
      <3> QED
        BY <1>3, <2>1, <2>3, <3>2
    <2> QED
      BY <1>6, <2>2, <2>3 DEF CheckSupport
  <1> QED
    BY <1>4, <1>5, <1>6

LEMMA MarkedNext ==
    ASSUME NEW m \in Command, NEW t \in SUBSET Objects
    PROVE  [m EXCEPT !.step = "mark", !.todo = t] \in Command
  <1>1. [m EXCEPT !.step = "mark"] \in Command
    BY DEF Command
  <1>2. \A n \in Command : [n EXCEPT !.todo = t] \in Command
    BY DEF Command
  <1> QED
    BY <1>1, <1>2

\* WriteRevision: what comes next rests on the revision that was just written.
LEMMA WriteRevisionGoesOn ==
    ASSUME IInv, Extends, NEW w \in Workers, cmd[w] # Idle, WriteRevision(w)
    PROVE  Continues(w)
  <1> SUFFICES ASSUME NEW m, m = cmd[w] PROVE Continues(w)
    OBVIOUS
  <1> DEFINE c == m.claim
             r == RevisionOf(m)
  <1>0. Sound(m) /\ m \in Command /\ m.step = "write"
    BY DEF IInv, CommandsAreSound, Sound, WriteRevision, At
  <1>1. CASE Raise(w)
    BY <1>1 DEF Raise, Return, Continues
  <1>2. CASE ~Raise(w)
    <2>1. rev' = [rev EXCEPT ![c] = Append(@, r)] /\ AfterTransition(w)
      BY <1>2 DEF WriteRevision
    <2>2. c \in Claims /\ rev[c] \in Seq(Revision) /\ m.to \in Asked
      BY <1>0 DEF Sound, AsksFor, IInv, TypeInv
    <2>3. rev'[c] = Append(rev[c], r) /\ rev'[c] # rev[c]
      <3>1. rev' = [rev EXCEPT ![c] = Append(rev[c], r)] /\ DOMAIN rev = Claims
        BY <2>1, <2>2 DEF IInv, TypeInv
      <3>2. \A S : \A q \in Seq(S) : \A x : Append(q, x) # q
        OBVIOUS
      <3>3. Append(rev[c], r) # rev[c]
        BY <2>2, <3>2, Zenon
      <3> HIDE DEF c, r
      <3> QED
        BY <2>2, <3>1, <3>3
    <2>4. r \in Revision
      BY <2>3, WriteRevisionContinues DEF NewRevision
    <2>5. Exists(c)' /\ Latest(c)' = r /\ Status(c)' = r.status
      BY <2>2, <2>3, <2>4, AppendedTo DEF Exists, Latest, Status
    <2>6. r.status = m.to /\ r.event = m.event /\ r.decision = m.decision
      BY DEF RevisionOf
    <2> HIDE DEF r
    <2>7. CASE m.op \in {"transition", "verify"}
      BY <2>1, <2>7 DEF AfterTransition, Return, Continues
    <2>8. CASE m.op = "kill"
      <3> DEFINE next == [m EXCEPT !.step = "write_edge"]
      <3>1. Goto(w, next)
        BY <2>1, <2>8 DEF AfterTransition
      <3>2. /\ m.to = "withdrawn" /\ m.event = "kill_condition_triggered"
            /\ m.type = "decided_by" /\ m.target \in KillBranch /\ m.decision = m.target
        BY <1>0, <2>8 DEF Sound, AsksFor
      <3>3. (next \in Command)'
        <4>1. load' = load
          BY DEF Extends
        <4>2. next \in Command
          BY <1>0 DEF Command
        <4> QED
          BY <4>1, <4>2 DEF Command, EdgeTypes, Edge
      <3>4. /\ next.step = "write_edge" /\ next.op = "kill" /\ next.claim = c
            /\ next.type = m.type /\ next.target = m.target
        BY <1>0, <2>8 DEF Command
      <3> HIDE DEF next
      <3>5. MayWriteEdge(next)'
        BY <2>2, <2>5, <2>6, <3>2, <3>4, ClaimGraphConstants DEF MayWriteEdge, Killed, GATED_EDGE_TYPES
      <3>6. Sound(next)'
        BY <3>3, <3>4, <3>5 DEF Sound, AsksFor, HasRead, MayRecord, Traverses, ReadImpact, MarksAll
      <3> QED
        BY <3>1, <3>6 DEF Continues, Goto
    <2>9. CASE m.op \in {"propagate", "receive"}
      <3> DEFINE todo == m.todo \ {c}
                 next == [m EXCEPT !.step = "mark", !.todo = todo]
      <3>1. Goto(w, next)
        BY <2>1, <2>9 DEF AfterTransition
      <3>2. m.to = "review_required" /\ MarksAll(m)'
        BY <1>0, <2>9, SoundKept DEF Sound, AsksFor
      <3>3. (next \in Command)'
        <4>1. load' = load
          BY DEF Extends
        <4>2. next \in Command
          <5>1. todo \in SUBSET Objects
            BY <1>0 DEF Command
          <5> HIDE DEF todo
          <5> QED
            BY <1>0, <5>1, MarkedNext
        <4> QED
          BY <4>1, <4>2 DEF Command, EdgeTypes, Edge
      <3>4. /\ next.step = "mark" /\ next.op = m.op /\ next.start = m.start /\ next.todo = m.todo \ {c}
        BY <1>0 DEF Command
      <3> HIDE DEF next
      <3>5. MarksAll(next)'
        BY <1>0, <2>5, <2>6, <2>9, <3>2, <3>4 DEF MarksAll, Satisfied
      <3>6. Sound(next)'
        BY <3>3, <3>4, <3>5 DEF Sound, AsksFor, HasRead, MayWriteEdge, MayRecord, Traverses, ReadImpact
      <3> QED
        BY <3>1, <3>6 DEF Continues, Goto
    <2>10. m.op # "edge"
      BY <1>0 DEF Sound, AsksFor
    <2> QED
      BY <1>0, <2>7, <2>8, <2>9, <2>10 DEF Command
  <1> QED
    BY <1>1, <1>2

\* RecordVerification: a failure asks for the status that the snapshot calls for.
LEMMA RecordContinues ==
    ASSUME IInv, Extends, NEW w \in Workers, cmd[w] # Idle, RecordVerification(w)
    PROVE  Continues(w)
  <1> DEFINE m == cmd[w]
             to == DrivenStatus(m.status)
  <1>0. Sound(m) /\ m \in Command /\ m.op = "verify" /\ m.claim \in Claims
    BY DEF IInv, CommandsAreSound, Sound, RecordVerification, At, MayRecord
  <1>1. CASE m.result = "fail" /\ to # None
    <2> DEFINE next == [m EXCEPT !.to = to, !.event = EventType[to], !.step = "read"]
    <2>1. to \in {"contested", "review_required"}
      BY <1>1 DEF DrivenStatus
    <2>2. to \in Asked /\ to \in States /\ EventType[to] \in Events
      BY <2>1 DEF Asked, EventType, States, Nonterminal, Events
    <2>3. Goto(w, next)
      BY <1>1 DEF RecordVerification
    <2> HIDE DEF to
    <2>4. next \in Command
      BY <1>0, <2>2 DEF Command
    <2>5. /\ next.op = "verify" /\ next.step = "read" /\ next.to = to /\ next.event = EventType[to]
          /\ next.claim = m.claim
      BY <1>0 DEF Command
    <2> HIDE DEF next
    <2>6. AsksFor(next)
      BY <1>0, <2>1, <2>2, <2>5 DEF AsksFor
    <2>7. Sound(next)
      BY <2>4, <2>5, <2>6 DEF Sound, HasRead, MayWriteEdge, MayRecord, Traverses, ReadImpact, MarksAll
    <2> QED
      BY <2>3, <2>7, ContinuesWith
  <1>2. CASE ~(m.result = "fail" /\ to # None)
    BY <1>2 DEF RecordVerification, Return, Continues
  <1> QED
    BY <1>1, <1>2

\* Gather: one id more is visited, and every edge into it is read now.
LEMMA GatherContinues ==
    ASSUME IInv, Extends, NEW w \in Workers, cmd[w] # Idle, NEW id \in Objects, Gather(w, id)
    PROVE  Continues(w)
  <1> DEFINE m == cmd[w]
             new == {e \in edges_to(id) : e.type \in IMPACT_EDGE_TYPES}
             visited == m.visited \cup {id}
             next == [m EXCEPT !.visited = visited, !.found = @ \cup new,
                            !.pending = (@ \cup {e.source : e \in new}) \ visited]
  <1>0. Sound(m) /\ m \in Command /\ m.step = "gather" /\ Goto(w, next)
    BY DEF IInv, CommandsAreSound, Sound, Gather, At
  <1>1. /\ new \subseteq Edge /\ new \subseteq edges /\ \A e \in new : e.source \in Objects
        /\ \A e \in edges : e.type \in IMPACT_EDGE_TYPES /\ e.target = id => e \in new
        /\ \A e \in new : e.type \in IMPACT_EDGE_TYPES
    BY EdgeTyping DEF edges_to, IInv, TypeInv
  <1> HIDE DEF new
  <1>2. next \in Command
    <2> DEFINE found == m.found \cup new
               pending == (m.pending \cup {e.source : e \in new}) \ visited
    <2>1. found \in SUBSET Edge /\ visited \in SUBSET Objects /\ pending \in SUBSET Objects
      BY <1>0, <1>1 DEF Command
    <2>2. \A f \in SUBSET Edge, v \in SUBSET Objects, p \in SUBSET Objects :
              [m EXCEPT !.visited = v, !.found = f, !.pending = p] \in Command
      BY <1>0 DEF Command
    <2>3. next = [m EXCEPT !.visited = visited, !.found = found, !.pending = pending]
      OBVIOUS
    <2> HIDE DEF visited, found, pending, next
    <2> QED
      BY <2>1, <2>2, <2>3
  <1>3. /\ next.op = m.op /\ next.step = m.step /\ next.latest = m.latest /\ next.start = m.start
        /\ next.visited = m.visited \cup {id} /\ next.found = m.found \cup new
        /\ next.pending = (m.pending \cup {e.source : e \in new}) \ visited
    BY <1>0 DEF Command
  <1> HIDE DEF next
  <1>4. Traverses(m) /\ MarksAll(m) /\ ReadImpact(m)
    BY <1>0 DEF Sound
  <1>5. Traverses(next)
    BY <1>0, <1>1, <1>3, <1>4 DEF Traverses, MarksAll
  <1>6. MarksAll(next) /\ ReadImpact(next)
    BY <1>0, <1>3, <1>4 DEF MarksAll, ReadImpact
  <1>7. Sound(next)
    BY <1>0, <1>2, <1>3, <1>5, <1>6 DEF Sound, AsksFor, HasRead, MayWriteEdge, MayRecord
  <1> QED
    BY <1>0, <1>7, ContinuesWith

\* What a finished traversal has computed: all that was downstream when it began,
\* and nothing that is not downstream now.
LEMMA TraversalIsExact ==
    ASSUME IInv, NEW m, Sound(m), m.step = "gather", m.pending = {}
    PROVE  /\ Downstream(Seeds, m.start) \subseteq compute_impact(Seeds, m.found)
           /\ compute_impact(Seeds, m.found) \subseteq Downstream(Seeds, edges)
           /\ compute_impact(Seeds, m.found) \in SUBSET Objects
  <1>1. /\ m.found \subseteq edges /\ m.start \subseteq edges
        /\ \A e \in m.start : e.type \in IMPACT_EDGE_TYPES /\ e.target \in m.visited => e \in m.found
        /\ Seeds \subseteq m.visited /\ \A e \in m.found : e.source \in m.visited
    BY DEF Sound, Traverses, MarksAll
  <1>2. \A e \in m.found : e.source \in Objects
    BY <1>1, EdgeTyping
  <1>3. IsFiniteSet(m.found)
    BY <1>1, FS_Subset DEF IInv, TypeInv
  <1>4. compute_impact(Seeds, m.found) = Downstream(Seeds, m.found)
    BY <1>2, <1>3, ComputeImpactIsDownstream
  <1>5. Downstream(Seeds, m.start) \subseteq Downstream(Seeds, m.found)
    BY <1>1, <1>2, TraversalReachesAll
  <1>6. Downstream(Seeds, m.found) \subseteq Downstream(Seeds, edges)
    BY <1>1, DownstreamGrows
  <1>7. Downstream(Seeds, m.found) \in SUBSET Objects
    BY DownstreamIs
  <1> QED
    BY <1>4, <1>5, <1>6, <1>7

LEMMA ComputeImpactContinues ==
    ASSUME IInv, Extends, NEW w \in Workers, cmd[w] # Idle, ComputeImpact(w)
    PROVE  Continues(w)
  <1> DEFINE m == cmd[w]
             impacted == compute_impact(Seeds, m.found)
             changed == m.op = "propagate" /\ impacted # impact[m.latest]
             step == IF changed THEN "write_impact" ELSE "mark"
             next == [m EXCEPT !.todo = impacted, !.visited = {}, !.found = {}, !.step = step]
  <1>0. /\ Sound(m) /\ m \in Command /\ m.step = "gather" /\ m.pending = {} /\ Goto(w, next)
        /\ m.op \in {"propagate", "receive"}
    BY DEF IInv, CommandsAreSound, Sound, ComputeImpact, At, Traverses
  <1>1. /\ Downstream(Seeds, m.start) \subseteq impacted /\ impacted \subseteq Downstream(Seeds, edges)
        /\ impacted \in SUBSET Objects
    BY <1>0, TraversalIsExact
  <1>2. step \in {"write_impact", "mark"} /\ (step = "write_impact" => m.op = "propagate")
    OBVIOUS
  <1> HIDE DEF impacted, step
  <1>3. next \in Command
    <2>1. \A t \in SUBSET Objects, x \in {"write_impact", "mark"} :
              [m EXCEPT !.todo = t, !.visited = {}, !.found = {}, !.step = x] \in Command
      BY <1>0 DEF Command
    <2> QED
      BY <1>1, <1>2, <2>1
  <1>4. /\ next.op = m.op /\ next.step = step /\ next.latest = m.latest /\ next.start = m.start
        /\ next.todo = impacted
    BY <1>0 DEF Command
  <1> HIDE DEF next
  <1>5. MarksAll(next) /\ ReadImpact(next)
    BY <1>0, <1>1, <1>2, <1>4 DEF Sound, MarksAll, ReadImpact
  <1>6. Sound(next)
    BY <1>2, <1>3, <1>4, <1>5 DEF Sound, AsksFor, HasRead, MayWriteEdge, MayRecord, Traverses
  <1> QED
    BY <1>0, <1>6, ContinuesWith

LEMMA WriteImpactContinues ==
    ASSUME IInv, Extends, NEW w \in Workers, cmd[w] # Idle, WriteImpact(w)
    PROVE  Continues(w)
  <1> DEFINE m == cmd[w]
             next == [m EXCEPT !.step = "mark"]
  <1>0. Sound(m) /\ m \in Command /\ m.step = "write_impact"
    BY DEF IInv, CommandsAreSound, Sound, WriteImpact, At
  <1>1. CASE Raise(w)
    BY <1>1 DEF Raise, Return, Continues
  <1>2. CASE Goto(w, next)
    <2>1. next \in Command
      BY <1>0 DEF Command
    <2>2. next.op = m.op /\ next.step = "mark" /\ next.start = m.start /\ next.todo = m.todo
      BY <1>0 DEF Command
    <2> HIDE DEF next
    <2>3. MarksAll(next)
      BY <1>0, <2>2 DEF Sound, MarksAll
    <2>4. Sound(next)
      BY <2>1, <2>2, <2>3 DEF Sound, AsksFor, HasRead, MayWriteEdge, MayRecord, Traverses, ReadImpact
    <2> QED
      BY <1>2, <2>4, ContinuesWith
  <1> QED
    BY <1>1, <1>2 DEF WriteImpact

\* Mark: an id is left out only when it needs no mark; a claim downstream exists.
LEMMA MarkContinues ==
    ASSUME IInv, Extends, NEW w \in Workers, cmd[w] # Idle, NEW id \in Objects, Mark(w, id)
    PROVE  Continues(w)
  <1> DEFINE m == cmd[w]
  <1>0. /\ Sound(m) /\ m \in Command /\ m.step = "mark" /\ m.op \in {"propagate", "receive"}
        /\ m.start \subseteq edges
        /\ \A c \in Downstream(Seeds, m.start) \cap Claims : c \in m.todo \/ Status(c) \in Satisfied
    BY DEF IInv, CommandsAreSound, Sound, Mark, At, MarksAll
  <1>1. CASE id \in Claims /\ Exists(id) /\ Status(id) \notin Satisfied
    <2> DEFINE next == [m EXCEPT !.claim = id, !.to = "review_required",
                            !.event = EventType["review_required"], !.step = "read"]
    <2>1. /\ "review_required" \in Asked /\ "review_required" \in States
          /\ EventType["review_required"] \in Events
      BY DEF Asked, EventType, States, Nonterminal, Events
    <2>2. next \in Command
      BY <1>0, <1>1, <2>1 DEF Command
    <2>3. /\ next.op = m.op /\ next.step = "read" /\ next.start = m.start /\ next.todo = m.todo
          /\ next.claim = id /\ next.to = "review_required" /\ next.event = EventType["review_required"]
      BY <1>0 DEF Command
    <2>4. Goto(w, next)
      BY <1>1 DEF Mark
    <2> HIDE DEF next
    <2>5. AsksFor(next)
      BY <1>0, <1>1, <2>1, <2>3 DEF AsksFor
    <2>6. MarksAll(next)
      BY <1>0, <2>3 DEF MarksAll
    <2>7. Sound(next)
      BY <2>2, <2>3, <2>5, <2>6 DEF Sound, HasRead, MayWriteEdge, MayRecord, Traverses, ReadImpact
    <2> QED
      BY <2>4, <2>7, ContinuesWith
  <1>2. CASE ~(id \in Claims /\ Exists(id) /\ Status(id) \notin Satisfied)
    <2> DEFINE next == [m EXCEPT !.todo = @ \ {id}]
    <2>1. next \in Command
      BY <1>0 DEF Command
    <2>2. next.op = m.op /\ next.step = "mark" /\ next.start = m.start /\ next.todo = m.todo \ {id}
      BY <1>0 DEF Command
    <2>3. Goto(w, next)
      BY <1>2 DEF Mark
    <2> HIDE DEF next
    <2>4. id \in Downstream(Seeds, m.start) \cap Claims => Status(id) \in Satisfied
      BY <1>0, <1>2, DownstreamExists
    <2>5. MarksAll(next)
      BY <1>0, <2>2, <2>4 DEF MarksAll
    <2>6. Sound(next)
      BY <2>1, <2>2, <2>5 DEF Sound, AsksFor, HasRead, MayWriteEdge, MayRecord, Traverses, ReadImpact
    <2> QED
      BY <2>3, <2>6, ContinuesWith
  <1> QED
    BY <1>1, <1>2

\* Every step of a worker leaves it idle or with a command that is sound.
LEMMA WorkersContinue ==
    ASSUME IInv, Extends, [Next]_vars
    PROVE  cmd' = cmd \/ \E w \in Workers : Continues(w)
  <1>1. CASE \E c \in Created : create(c)
    BY <1>1 DEF create
  <1>2. ASSUME NEW w \in Workers, NEW c \in Created, Call(w, c) PROVE Continues(w)
    BY <1>2, CallContinues
  <1>3. ASSUME NEW w \in Workers, propagate_impact(w) \/ receive_correction_notification(w)
        PROVE  Continues(w)
    BY <1>3, TraversalContinues
  <1>4. ASSUME NEW w \in Workers, CrashWorker(w) PROVE Continues(w)
    BY <1>4 DEF CrashWorker, Raise, Return, Continues
  <1>5. ASSUME NEW w \in Workers, Step(w) PROVE Continues(w)
    <2>1. cmd[w] # Idle
      BY <1>5 DEF Step, ReadClaim, CheckCeiling, CheckSupport, WriteRevision, WriteEdge,
         RecordVerification, Gather, ComputeImpact, WriteImpact, Mark, FinishImpact, At
    <2>2. CASE ReadClaim(w) \/ CheckCeiling(w) \/ CheckSupport(w)
      BY <2>1, <2>2, TransitionContinues
    <2>3. CASE WriteRevision(w)
      BY <2>1, <2>3, WriteRevisionGoesOn
    <2>4. CASE WriteEdge(w) \/ FinishImpact(w)
      BY <2>4 DEF WriteEdge, FinishImpact, Raise, Return, Continues
    <2>5. CASE RecordVerification(w)
      BY <2>1, <2>5, RecordContinues
    <2>6. CASE \E id \in Objects : Gather(w, id)
      BY <2>1, <2>6, GatherContinues
    <2>7. CASE ComputeImpact(w)
      BY <2>1, <2>7, ComputeImpactContinues
    <2>8. CASE WriteImpact(w)
      BY <2>1, <2>8, WriteImpactContinues
    <2>9. CASE \E id \in Objects : Mark(w, id)
      BY <2>1, <2>9, MarkContinues
    <2> QED
      BY <1>5, <2>2, <2>3, <2>4, <2>5, <2>6, <2>7, <2>8, <2>9 DEF Step
  <1> QED
    BY <1>1, <1>2, <1>3, <1>4, <1>5 DEF Next, vars

\* The commands and their types after a step.
LEMMA CommandsStaySound ==
    ASSUME IInv, Extends, [Next]_vars
    PROVE  CommandsAreSound' /\ (cmd \in [Workers -> Command \cup {Idle}])'
  <1>0. cmd \in [Workers -> Command \cup {Idle}]
    BY DEF IInv, TypeInv
  <1>1. \A m \in {cmd[w] : w \in Workers} \ {Idle} : Sound(m)'
    BY SoundKept DEF IInv, CommandsAreSound
  <1>2. /\ \A m \in {cmd'[w] : w \in Workers} \ {Idle} : Sound(m)'
        /\ cmd' = [w \in Workers |-> cmd'[w]]
    <2>1. CASE cmd' = cmd
      BY <1>0, <1>1, <2>1
    <2>2. ASSUME NEW w \in Workers, cmd' = [cmd EXCEPT ![w] = Idle]
          PROVE  /\ \A m \in {cmd'[v] : v \in Workers} \ {Idle} : Sound(m)'
                 /\ cmd' = [v \in Workers |-> cmd'[v]]
      <3>1. \A v \in Workers : cmd'[v] = Idle \/ cmd'[v] = cmd[v]
        BY <1>0, <2>2
      <3> QED
        BY <1>0, <1>1, <2>2, <3>1
    <2>3. ASSUME NEW w \in Workers, NEW n, Sound(n)', cmd' = [cmd EXCEPT ![w] = n]
          PROVE  /\ \A m \in {cmd'[v] : v \in Workers} \ {Idle} : Sound(m)'
                 /\ cmd' = [v \in Workers |-> cmd'[v]]
      <3>1. \A v \in Workers : cmd'[v] = n \/ cmd'[v] = cmd[v]
        BY <1>0, <2>3
      <3> QED
        BY <1>0, <1>1, <2>3, <3>1
    <2> QED
      BY <2>1, <2>2, <2>3, WorkersContinue DEF Continues
  <1>3. CommandsAreSound'
    BY <1>2 DEF CommandsAreSound
  <1>4. \A m : Sound(m)' => (m \in Command)'
    BY DEF Sound
  <1>5. \A w \in Workers : cmd'[w] \in Command' \cup {Idle}
    BY <1>2, <1>4
  <1> QED
    BY <1>2, <1>3, <1>5

\* The claims that a returned propagation or a returned failure speaks of.
LEMMA HistoriesOfReturns ==
    ASSUME IInv, Extends, [Next]_vars
    PROVE  /\ reviewed' \subseteq Claims /\ driven' \subseteq Claims
           /\ \A c \in reviewed' : Status(c)' \in Satisfied
           /\ \A c \in driven' : Status(c)' \in OutOfSupport
           /\ verifications' \subseteq [claim : Claims, reviewer : Reviewers, result : Results]
  <1>0. /\ reviewed \subseteq Claims /\ driven \subseteq Claims
        /\ verifications \subseteq [claim : Claims, reviewer : Reviewers, result : Results]
        /\ \A c \in reviewed : Status(c)' \in Satisfied
        /\ \A c \in driven : Status(c)' \in OutOfSupport
    BY StatusesKept DEF IInv, TypeInv
  <1>1. CASE UNCHANGED <<reviewed, driven, verifications>>
    BY <1>0, <1>1
  <1>2. ASSUME NEW w \in Workers, WriteRevision(w), driven' # driven
        PROVE  /\ reviewed' = reviewed /\ verifications' = verifications
               /\ \E c \in Claims : driven' = driven \cup {c} /\ Status(c)' \in OutOfSupport
    <2> SUFFICES ASSUME NEW m, m = cmd[w]
                 PROVE  /\ reviewed' = reviewed /\ verifications' = verifications
                        /\ \E c \in Claims : driven' = driven \cup {c} /\ Status(c)' \in OutOfSupport
      OBVIOUS
    <2>1. Sound(m) /\ m.step = "write" /\ cmd[w] # Idle
      BY <1>2 DEF IInv, CommandsAreSound, WriteRevision, At
    <2>2. /\ rev' = [rev EXCEPT ![m.claim] = Append(@, RevisionOf(m))] /\ AfterTransition(w)
          /\ UNCHANGED <<reviewed, verifications>>
      BY <1>2 DEF WriteRevision, Raise, NoWrite
    <2>3. m.op = "verify" /\ driven' = driven \cup {m.claim}
      BY <1>2, <2>1, <2>2 DEF AfterTransition, Sound, Command
    <2>4. m.claim \in Claims /\ m.to \in {"contested", "review_required"}
      BY <2>1, <2>3 DEF Sound, AsksFor
    <2>5. rev[m.claim] \in Seq(Revision)
      BY <2>4 DEF IInv, TypeInv
    <2> DEFINE r == RevisionOf(m)
    <2>6. r.status = m.to
      BY DEF RevisionOf
    <2>7. rev'[m.claim] = Append(rev[m.claim], r)
      <3> HIDE DEF r
      <3>1. rev' = [rev EXCEPT ![m.claim] = Append(rev[m.claim], r)] /\ DOMAIN rev = Claims
        BY <2>2 DEF r, IInv, TypeInv
      <3> QED
        BY <2>4, <3>1
    <2>8. \A q \in Seq(Revision) : \A x : /\ Append(q, x) # <<>>
                                        /\ Append(q, x)[Len(Append(q, x))] = x
      OBVIOUS
    <2>9. rev'[m.claim] # <<>> /\ rev'[m.claim][Len(rev'[m.claim])] = r
      <3> HIDE DEF r
      <3> QED
        BY <2>5, <2>7, <2>8, Zenon
    <2>10. Status(m.claim)' = r.status
      BY <2>9 DEF Status, Latest, Exists
    <2>11. Status(m.claim)' \in OutOfSupport
      BY <2>4, <2>6, <2>10 DEF OutOfSupport, Satisfied
    <2> QED
      BY <2>2, <2>3, <2>4, <2>11
  <1>3. ASSUME NEW w \in Workers, RecordVerification(w)
        PROVE  /\ reviewed' = reviewed /\ driven' = driven
               /\ verifications' \subseteq [claim : Claims, reviewer : Reviewers, result : Results]
    <2>1. Sound(cmd[w]) /\ cmd[w].step = "record"
      BY <1>3 DEF IInv, CommandsAreSound, RecordVerification, At
    <2>2. /\ cmd[w].claim \in Claims /\ cmd[w].reviewer \in Reviewers /\ cmd[w].result \in Results
      BY <2>1 DEF Sound, MayRecord
    <2> QED
      BY <1>0, <1>3, <2>2 DEF RecordVerification
  <1>4. ASSUME NEW w \in Workers, FinishImpact(w)
        PROVE  /\ driven' = driven /\ verifications' = verifications /\ reviewed' \subseteq Claims
               /\ \A c \in reviewed' : Status(c)' \in Satisfied
    <2>1. /\ Sound(cmd[w]) /\ cmd[w].step = "mark" /\ cmd[w].todo = {}
          /\ reviewed' = reviewed \cup (Downstream(Seeds, cmd[w].start) \cap Claims)
      BY <1>4 DEF IInv, CommandsAreSound, FinishImpact, At
    <2>2. \A c \in Downstream(Seeds, cmd[w].start) \cap Claims : Status(c) \in Satisfied
      BY <2>1 DEF Sound, MarksAll
    <2> QED
      BY <1>0, <1>4, <2>1, <2>2, StatusesKept DEF FinishImpact
  <1>5. \/ UNCHANGED <<reviewed, driven, verifications>>
        \/ \E w \in Workers : \/ WriteRevision(w) /\ driven' # driven
                             \/ RecordVerification(w) \/ FinishImpact(w)
    <2>1. CASE \E c \in Created : create(c)
      BY <2>1 DEF create
    <2>2. ASSUME NEW w \in Workers, NEW c \in Created, Call(w, c)
          PROVE  UNCHANGED <<reviewed, driven, verifications>>
      BY <2>2 DEF Call, transition, to_supported, apply_kill_condition, AddEdge,
         attach_ruling, record_verification, NoWrite
    <2>3. ASSUME NEW w \in Workers, propagate_impact(w) \/ receive_correction_notification(w)
          PROVE  UNCHANGED <<reviewed, driven, verifications>>
      BY <2>3 DEF propagate_impact, receive_correction_notification, NoWrite
    <2>4. ASSUME NEW w \in Workers, CrashWorker(w)
          PROVE  UNCHANGED <<reviewed, driven, verifications>>
      BY <2>4 DEF CrashWorker, Raise, NoWrite
    <2>5. ASSUME NEW w \in Workers, Step(w)
          PROVE  \/ UNCHANGED <<reviewed, driven, verifications>>
                 \/ WriteRevision(w) /\ driven' # driven
                 \/ RecordVerification(w) \/ FinishImpact(w)
      <3>1. CASE ReadClaim(w) \/ CheckCeiling(w) \/ CheckSupport(w)
        BY <3>1 DEF ReadClaim, CheckCeiling, CheckSupport, Raise, NoWrite
      <3>2. CASE WriteRevision(w)
        BY <3>2 DEF WriteRevision, Raise, NoWrite
      <3>3. CASE WriteEdge(w) \/ WriteImpact(w)
        BY <3>3 DEF WriteEdge, WriteImpact, Raise, NoWrite
      <3>4. CASE (\E id \in Objects : Gather(w, id)) \/ ComputeImpact(w)
                 \/ (\E id \in Objects : Mark(w, id))
        BY <3>4 DEF Gather, ComputeImpact, Mark, NoWrite
      <3> QED
        BY <2>5, <3>1, <3>2, <3>3, <3>4 DEF Step
    <2> QED
      BY <2>1, <2>2, <2>3, <2>4, <2>5 DEF Next, vars
  <1> QED
    BY <1>0, <1>1, <1>2, <1>3, <1>4, <1>5

-----------------------------------------------------------------------------
(* The theorems *)

LEMMA InitIsSound == Init => IInv
  <1> SUFFICES ASSUME Init PROVE IInv
    OBVIOUS
  <1>1. rev \in [Claims -> Seq(Revision)] /\ \A c \in Claims : rev[c] = <<>>
    BY DEF Init
  <1>2. impact = <<{}>> /\ impact \in Seq(SUBSET Objects) /\ Len(impact) = 1 /\ impact[1] = {}
    BY DEF Init
  <1>3. TypeInv
    BY <1>1, <1>2, FS_EmptySet DEF Init, TypeInv
  <1>4. CommandsAreSound
    BY DEF Init, CommandsAreSound
  <1>5. RevisionsFollowLifecycle /\ SupportedIsBacked
    BY <1>1 DEF RevisionsFollowLifecycle, SupportedIsBacked
  <1>6. ImpactIsSound
    BY <1>2 DEF ImpactIsSound, ImpactNeverShrinks
  <1> QED
    BY <1>3, <1>4, <1>5, <1>6 DEF IInv, Init, EdgesAreSound

LEMMA StepIsSound == IInv /\ [Next]_vars => IInv'
  <1> SUFFICES ASSUME IInv, [Next]_vars PROVE IInv'
    OBVIOUS
  <1>1. Extends
    BY StoreExtends
  <1>2. edges' \subseteq Edge' /\ IsFiniteSet(edges')
    <2>1. edges \subseteq Edge /\ IsFiniteSet(edges) /\ Edge' = Edge
      BY <1>1 DEF IInv, TypeInv, Extends, Edge, EdgeTypes
    <2>2. ASSUME NEW e, NewEdge(e), edges' = edges \cup {e}
          PROVE  edges' \subseteq Edge /\ IsFiniteSet(edges')
      BY <2>1, <2>2, FS_AddElement DEF NewEdge
    <2> QED
      BY <1>1, <2>1, <2>2 DEF Extends
  <1>3. impact' \in Seq(SUBSET Objects) /\ impact' # <<>>
    <2>1. impact \in Seq(SUBSET Objects) /\ impact # <<>>
      BY DEF IInv, TypeInv
    <2>2. ASSUME NEW s, NewImpact(s), impact' = Append(impact, s)
          PROVE  impact' \in Seq(SUBSET Objects) /\ impact' # <<>>
      BY <2>1, <2>2 DEF NewImpact
    <2> QED
      BY <1>1, <2>1, <2>2 DEF Extends
  <1>4. TypeInv'
    BY <1>1, <1>2, <1>3, CommandsStaySound, HistoriesOfReturns DEF TypeInv, IInv, Extends
  <1> QED
    BY <1>1, <1>4, CommandsStaySound, EdgesStaySound, HistoriesStaySound, ImpactStaysSound,
       HistoriesOfReturns DEF IInv

LEMMA AlwaysSound == Spec => []IInv
  BY InitIsSound, StepIsSound, PTL DEF Spec

\* However the workers interleave and crash, the status of every claim is earned: its
\* revisions are one path of the lifecycle, its support is in the graph, and what
\* asserts something stays under its rulings' ceilings (ClaimService._transition).
THEOREM StatusIsAlwaysEarned == Spec => []StatusIsEarned
  <1>1. IInv => StatusIsEarned
    <2> SUFFICES ASSUME IInv PROVE StatusIsEarned
      OBVIOUS
    <2>1. TypeOK
      <3>1. ASSUME NEW c \in Claims, NEW i \in 1 .. Len(rev[c]) PROVE rev[c][i] \in Revision
        BY DEF IInv, TypeInv
      <3>2. \A i \in 1 .. Len(impact) : impact[i] \subseteq Objects
        BY DEF IInv, TypeInv
      <3> QED
        BY <3>1, <3>2 DEF TypeOK, Revision, IInv, TypeInv, Results
    <2>2. AssertedWithinCeiling
      BY DEF AssertedWithinCeiling, IInv, EdgesAreSound
    <2> QED
      BY <2>1, <2>2 DEF StatusIsEarned, IInv
  <1> QED
    BY <1>1, AlwaysSound, PTL

\* A decided_by edge stands only beside the withdrawal its kill_branch decision caused
\* (ClaimService.apply_kill_condition).
THEOREM KillsAreDecided == Spec => []DecidedByMeansKilled
  <1>1. IInv => DecidedByMeansKilled
    BY DEF IInv, EdgesAreSound, DecidedByMeansKilled, Killed
  <1> QED
    BY <1>1, AlwaysSound, PTL

\* A claim that a failed verification drove is never supported again
\* (VerificationService._drive_claim_status_on_failure).
THEOREM DrivenIsNeverSupported == Spec => []DrivenIsNotSupported
  <1>1. IInv => DrivenIsNotSupported
    BY DEF IInv, DrivenIsNotSupported, OutOfSupport, Satisfied
  <1> QED
    BY <1>1, AlwaysSound, PTL

\* Once a propagation has returned, every claim that was downstream of the seeds when
\* it began is review_required or stricter, for good
\* (CorrectionImpactService.propagate_impact, receive_correction_notification).
THEOREM ReviewAlwaysReachesDownstream == Spec => []ReviewReachesDownstream
  <1>1. IInv => ReviewReachesDownstream
    BY DEF IInv, ReviewReachesDownstream
  <1> QED
    BY <1>1, AlwaysSound, PTL

\* A finished traversal has found all that was downstream when it began and nothing
\* that is not downstream now; the recorded impact of a correction never shrinks
\* (_gather_impact_edges, compute_impact, _write_impact_objects).
THEOREM ImpactIsAlwaysKnown == Spec => []ImpactIsKnown
  <1>1. IInv => ImpactIsKnown
    <2> SUFFICES ASSUME IInv PROVE ImpactIsKnown
      OBVIOUS
    <2>1. ASSUME NEW w \in Workers, At(w, "gather"), cmd[w].pending = {}
          PROVE  /\ Downstream(Seeds, cmd[w].start) \subseteq compute_impact(Seeds, cmd[w].found)
                 /\ compute_impact(Seeds, cmd[w].found) \subseteq Downstream(Seeds, edges)
      <3>1. Sound(cmd[w]) /\ cmd[w].step = "gather"
        BY <2>1 DEF IInv, CommandsAreSound, At
      <3> QED
        BY <2>1, <3>1, TraversalIsExact
    <2> QED
      BY <2>1 DEF ImpactIsKnown, ImpactIsDownstream, IInv, ImpactIsSound
  <1> QED
    BY <1>1, AlwaysSound, PTL

=============================================================================
