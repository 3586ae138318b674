---------------------------- MODULE QueriesProofs ----------------------------
(***************************************************************************)
(* What the answers of an index are worth, for every index and question.   *)
(*                                                                         *)
(* The search of the type hierarchy: a class that was reached has all its  *)
(* children examined, or under examination, or is the end of a path in the *)
(* queue.  An edge is passed over only if its key was seen before or if it *)
(* closes a cycle, and then its child is on the way to it and was reached  *)
(* before.                                                                 *)
(***************************************************************************)
EXTENDS ModelInputs, IndexQueries, MavenOutput, DataLemmas

Hierarchy == question # NoAnswer /\ question.op = "hierarchy"

Classes(q) == {q.root} \cup {e.child : e \in q.edges}

(* A path of the search leads from the root through edges that are         *)
(* reached, R, and classes with an examined edge to them, V.               *)
PathOK(p, q, R, V) ==
    /\ p \in Seq(Classes(q)) /\ Len(p) >= 1 /\ p[1] = q.root
    /\ \A i \in 2 .. Len(p) : \E e \in R : p[i] = e.child /\ Lower[e.parent] = Lower[p[i - 1]]
    /\ \A i \in 2 .. Len(p) : \E k \in V : k[1] = Lower[p[i]]
    /\ \A e \in q.edges : Lower[e.parent] = Lower[p[Len(p)]] => e \in R

PathsOK(s, q, R) ==
    /\ DOMAIN s = {"path", "todo", "queue", "visited", "matches"}
    /\ PathOK(s.path, q, R, s.visited)
    /\ s.queue \in Seq(Seq(Classes(q)))
    /\ \A i \in 1 .. Len(s.queue) : PathOK(s.queue[i], q, R, s.visited)
    /\ s.todo \subseteq R
    /\ \A e \in s.todo : Lower[e.parent] = Lower[s.path[Len(s.path)]]
    /\ s.visited \subseteq {EdgeKey(e) : e \in R}

Keys(M) == {EdgeKey(M[i].edge) : i \in DOMAIN M}

ChainOf(path, q) ==
    /\ path[1] = q.root
    /\ \A i \in 2 .. Len(path) : \E e \in q.edges :
          path[i] = e.child /\ Lower[e.parent] = Lower[path[i - 1]]

MatchesOK(s, q, R) ==
    /\ s.matches \in Seq([edge : q.edges, path : Seq(Classes(q))])
    /\ \A i \in 1 .. Len(s.matches) :
          /\ ChainOf(s.matches[i].path, q)
          /\ s.matches[i].edge \in R /\ s.matches[i].edge.jar \in q.selected
          /\ EdgeKey(s.matches[i].edge) \in s.visited
    /\ \A i, j \in 1 .. Len(s.matches) :
          EdgeKey(s.matches[i].edge) = EdgeKey(s.matches[j].edge) => i = j

(* The classes whose children are to be examined. *)
Reached(s, q) ==
    {Lower[q.root]} \cup (IF q.transitive THEN {k[1] : k \in s.visited} ELSE {})

Covered(s, q, c) ==
    \/ \A e \in q.edges : Lower[e.parent] = c => EdgeKey(e) \in s.visited \/ e \in s.todo
    \/ \E i \in 1 .. Len(s.queue) : Lower[s.queue[i][Len(s.queue[i])]] = c

(* What is passed over: nothing without cycles, and no class but the root. *)
NothingPassed(s, q, R) ==
    \A e \in R : EdgeKey(e) \in s.visited /\ e.jar \in q.selected => EdgeKey(e) \in Keys(s.matches)
NoClassPassed(s, q) ==
    \A k \in s.visited : (\E key \in Keys(s.matches) : key[1] = k[1]) \/ k[1] = Lower[q.root]

AllSelected(q) == q.selected = {e.jar : e \in q.edges}

HInv ==
    Hierarchy =>
        /\ PathsOK(search, question, ReachedEdges)
        /\ MatchesOK(search, question, ReachedEdges)
        /\ \A c \in Reached(search, question) : Covered(search, question, c)
        /\ ~IsCyclic => NothingPassed(search, question, ReachedEdges)
        /\ AllSelected(question) => NoClassPassed(search, question)
        /\ answer # NoAnswer =>
              /\ answer.matches = search.matches
              /\ \/ Len(search.matches) = Limit(question.limit)
                 \/ search.todo = {} /\ search.queue = <<>>

-----------------------------------------------------------------------------
(* A child of a reached edge is a descendant. *)
LEMMA ChildDescends ==
    ASSUME NEW e \in ReachedEdges
    PROVE  Lower[e.child] \in Descendants
<1>1. e \in question.edges /\ (Lower[e.parent] = Lower[question.root] \/ Lower[e.parent] \in Descendants)
  BY DEF ReachedEdges
<1>2. ASSUME NEW S \in SUBSET ({Lower[x.child] : x \in question.edges} \cup {Lower[question.root]}),
             Reaches(S)
      PROVE  Lower[e.child] \in S
  <2>1. Lower[e.parent] \in S
    BY <1>1, <1>2 DEF Reaches, Descendants
  <2> QED
    BY <1>1, <1>2, <2>1 DEF Reaches
<1> QED
  BY <1>1, <1>2 DEF Descendants

LEMMA InitHInv == QueryInit => HInv
<1> SUFFICES ASSUME QueryInit, Hierarchy PROVE HInv
  BY DEF HInv
<1> DEFINE R == ReachedEdges
<1>1. /\ search = [path |-> <<question.root>>, todo |-> ChildrenOf(question.root),
                   queue |-> <<>>, visited |-> {}, matches |-> <<>>]
      /\ answer = NoAnswer
  BY DEF QueryInit, Hierarchy, NoSearch
<1>2. \A e \in question.edges : Lower[e.parent] = Lower[question.root] => e \in R
  BY DEF ReachedEdges
<1>3. PathsOK(search, question, R)
  <2>1. PathOK(<<question.root>>, question, R, {})
    BY <1>2 DEF PathOK, Classes
  <2>2. /\ ChildrenOf(question.root) \subseteq R
        /\ \A e \in ChildrenOf(question.root) : Lower[e.parent] = Lower[question.root]
    BY <1>2 DEF ChildrenOf
  <2> HIDE DEF R
  <2> QED
    BY <1>1, <2>1, <2>2 DEF PathsOK
<1>4. MatchesOK(search, question, R)
  BY <1>1 DEF MatchesOK
<1>5. Reached(search, question) = {Lower[question.root]}
  BY <1>1 DEF Reached
<1>6. Covered(search, question, Lower[question.root])
  BY <1>1 DEF Covered, ChildrenOf
<1>7. NothingPassed(search, question, R) /\ NoClassPassed(search, question)
  BY <1>1 DEF NothingPassed, NoClassPassed
<1> QED
  BY <1>1, <1>3, <1>4, <1>5, <1>6, <1>7 DEF HInv

-----------------------------------------------------------------------------
(* What the search aims at stays as long as the question does. *)
LEMMA SameAim ==
    ASSUME question' = question
    PROVE  /\ ReachedEdges' = ReachedEdges /\ (IsCyclic' <=> IsCyclic)
           /\ Hierarchy' <=> Hierarchy
<1>1. Descendants' = Descendants
  BY DEF Descendants, Reaches
<1>2. ReachedEdges' = ReachedEdges
  BY <1>1 DEF ReachedEdges
<1> QED
  BY <1>2 DEF IsCyclic, Hierarchy

LEMMA SameMatches ==
    ASSUME NEW s, NEW t, NEW q, NEW R, MatchesOK(s, q, R),
           s.matches = t.matches, s.visited \subseteq t.visited
    PROVE  MatchesOK(t, q, R)
BY DEF MatchesOK

LEMMA NextParentStep ==
    ASSUME HInv, NextParent
    PROVE  HInv'
<1> DEFINE R == ReachedEdges
<1>1. /\ Hierarchy /\ question' = question /\ answer' = NoAnswer
      /\ search.todo = {} /\ search.queue # <<>>
      /\ search' = [search EXCEPT !.path = Head(search.queue),
                                  !.queue = Tail(search.queue),
                                  !.todo = ChildrenOf(Last(Head(search.queue)))]
  BY DEF NextParent, Asked, Hierarchy
<1>2. /\ PathsOK(search, question, R) /\ MatchesOK(search, question, R)
      /\ \A c \in Reached(search, question) : Covered(search, question, c)
      /\ ~IsCyclic => NothingPassed(search, question, R)
      /\ AllSelected(question) => NoClassPassed(search, question)
  BY <1>1 DEF HInv
<1>3. /\ DOMAIN search' = {"path", "todo", "queue", "visited", "matches"}
      /\ search'.path = search.queue[1] /\ search'.queue = Tail(search.queue)
      /\ search'.todo = ChildrenOf(Last(search.queue[1]))
      /\ search'.visited = search.visited /\ search'.matches = search.matches
      /\ search.queue \in Seq(Seq(Classes(question))) /\ Len(search.queue) >= 1
  BY <1>1, <1>2 DEF PathsOK
<1>4. /\ Tail(search.queue) \in Seq(Seq(Classes(question)))
      /\ Len(Tail(search.queue)) = Len(search.queue) - 1
      /\ \A i \in 1 .. Len(Tail(search.queue)) :
            i + 1 \in 1 .. Len(search.queue) /\ Tail(search.queue)[i] = search.queue[i + 1]
  BY <1>3
<1>5. /\ search'.todo \subseteq R
      /\ \A e \in search'.todo : Lower[e.parent] = Lower[search'.path[Len(search'.path)]]
  BY <1>2, <1>3 DEF PathsOK, PathOK, ChildrenOf, Last
<1>6. PathsOK(search', question, R)
  <2>1. /\ PathOK(search.queue[1], question, R, search.visited)
        /\ \A i \in 1 .. Len(Tail(search.queue)) :
              PathOK(Tail(search.queue)[i], question, R, search.visited)
    <3>1. \A i \in 1 .. Len(search.queue) : PathOK(search.queue[i], question, R, search.visited)
      BY <1>2 DEF PathsOK
    <3> QED
      BY <1>3, <1>4, <3>1
  <2> HIDE DEF R
  <2> QED
    BY <1>2, <1>3, <1>4, <1>5, <2>1 DEF PathsOK
<1>7. MatchesOK(search', question, R)
  BY <1>2, <1>3, SameMatches
<1>8. ASSUME NEW c \in Reached(search', question)
      PROVE  Covered(search', question, c)
  <2>1. Covered(search, question, c)
    BY <1>2, <1>3, <1>8 DEF Reached
  <2>2. CASE \A e \in question.edges :
                Lower[e.parent] = c => EdgeKey(e) \in search.visited \/ e \in search.todo
    BY <1>1, <1>3, <2>2 DEF Covered
  <2>3. CASE Lower[search.queue[1][Len(search.queue[1])]] = c
    BY <1>3, <2>3 DEF Covered, ChildrenOf, Last
  <2>4. ASSUME NEW i \in 1 .. Len(search.queue), i # 1,
               Lower[search.queue[i][Len(search.queue[i])]] = c
        PROVE  Covered(search', question, c)
    <3>1. i - 1 \in 1 .. Len(Tail(search.queue)) /\ Tail(search.queue)[i - 1] = search.queue[i]
      BY <1>3, <1>4, <2>4
    <3> QED
      BY <1>3, <2>4, <3>1 DEF Covered
  <2> QED
    BY <2>1, <2>2, <2>3, <2>4 DEF Covered
<1>9. /\ NothingPassed(search, question, R) => NothingPassed(search', question, R)
      /\ NoClassPassed(search, question) => NoClassPassed(search', question)
  BY <1>3 DEF NothingPassed, NoClassPassed
<1> HIDE DEF R
<1> QED
  BY <1>1, <1>2, <1>6, <1>7, <1>8, <1>9, SameAim DEF HInv, R

-----------------------------------------------------------------------------
(* With all subtypes asked for, the children of a reached class are        *)
(* reached.                                                                *)
LEMMA FollowEdge ==
    ASSUME question.transitive, NEW x \in ReachedEdges, NEW y \in question.edges,
           Lower[y.parent] = Lower[x.child]
    PROVE  y \in ReachedEdges
BY ChildDescends DEF ReachedEdges

(* The path to the child of an edge that is examined. *)
LEMMA Extended ==
    ASSUME NEW q, NEW R, R \subseteq q.edges, NEW V, NEW p, PathOK(p, q, R, V),
           NEW e \in R, Lower[e.parent] = Lower[p[Len(p)]]
    PROVE  /\ Append(p, e.child) \in Seq(Classes(q)) /\ ChainOf(Append(p, e.child), q)
           /\ (\A y \in q.edges : Lower[y.parent] = Lower[e.child] => y \in R) =>
                 PathOK(Append(p, e.child), q, R, V \cup {EdgeKey(e)})
<1> DEFINE P == Append(p, e.child)
<1>1. /\ P \in Seq(Classes(q)) /\ Len(P) = Len(p) + 1 /\ Len(p) \in Nat /\ Len(p) >= 1
      /\ P[Len(p) + 1] = e.child /\ \A i \in 1 .. Len(p) : P[i] = p[i]
  BY DEF PathOK, Classes
<1>2. P[1] = q.root
  BY <1>1 DEF PathOK
<1>3. ASSUME NEW i \in 2 .. Len(P)
      PROVE  /\ \E x \in R : P[i] = x.child /\ Lower[x.parent] = Lower[P[i - 1]]
             /\ \E k \in V \cup {EdgeKey(e)} : k[1] = Lower[P[i]]
  <2>1. CASE i = Len(p) + 1
    <3>1. P[i] = e.child /\ P[i - 1] = p[Len(p)]
      BY <1>1, <2>1
    <3>2. EdgeKey(e)[1] = Lower[e.child]
      BY DEF EdgeKey
    <3> HIDE DEF P
    <3> QED
      BY <3>1, <3>2
  <2>2. CASE i # Len(p) + 1
    <3>1. i \in 2 .. Len(p) /\ P[i] = p[i] /\ P[i - 1] = p[i - 1]
      BY <1>1, <2>2
    <3> HIDE DEF P
    <3> QED
      BY <3>1 DEF PathOK
  <2> QED
    BY <2>1, <2>2
<1> HIDE DEF P
<1>4. ChainOf(P, q)
  BY <1>2, <1>3 DEF ChainOf
<1>5. ASSUME \A y \in q.edges : Lower[y.parent] = Lower[e.child] => y \in R
      PROVE  PathOK(P, q, R, V \cup {EdgeKey(e)})
  BY <1>1, <1>2, <1>3, <1>5 DEF PathOK
<1> QED
  BY <1>1, <1>4, <1>5 DEF P

(* An edge to a class on the way to it closes a cycle. *)
LEMMA BackEdge ==
    ASSUME NEW V, NEW p, PathOK(p, question, ReachedEdges, V),
           NEW e \in ReachedEdges, Lower[e.parent] = Lower[p[Len(p)]],
           NEW n \in 1 .. Len(p), p[n] = e.child
    PROVE  IsCyclic
<1> DEFINE C == {Lower[p[j]] : j \in n .. Len(p)}
<1>1. Len(p) \in Nat /\ Len(p) >= 1
  BY DEF PathOK
<1>2. ASSUME NEW j \in n .. Len(p)
      PROVE  /\ Lower[p[j]] \in {Lower[x.child] : x \in ReachedEdges}
             /\ \E x \in ReachedEdges : Lower[x.parent] = Lower[p[j]] /\ Lower[x.child] \in C
  <2>1. Lower[p[j]] \in {Lower[x.child] : x \in ReachedEdges}
    <3>1. CASE j = n
      BY <3>1
    <3>2. CASE j # n
      <4>1. j \in 2 .. Len(p)
        BY <1>1, <3>2
      <4> QED
        BY <4>1 DEF PathOK
    <3> QED
      BY <3>1, <3>2
  <2>2. CASE j = Len(p)
    <3>1. Lower[e.child] \in C
      BY <1>1
    <3> QED
      BY <2>1, <2>2, <3>1
  <2>3. CASE j # Len(p)
    <3>1. j + 1 \in 2 .. Len(p) /\ j + 1 \in n .. Len(p) /\ (j + 1) - 1 = j
      BY <1>1, <2>3
    <3>2. PICK x \in ReachedEdges : p[j + 1] = x.child /\ Lower[x.parent] = Lower[p[(j + 1) - 1]]
      BY <3>1 DEF PathOK
    <3>3. Lower[x.child] \in C
      BY <3>1, <3>2
    <3> QED
      BY <2>1, <3>1, <3>2, <3>3
  <2> QED
    BY <2>2, <2>3
<1>3. C \in (SUBSET {Lower[x.child] : x \in ReachedEdges}) \ {{}}
  <2>1. Lower[p[n]] \in C
    BY <1>1
  <2>2. \A c \in C : c \in {Lower[x.child] : x \in ReachedEdges}
    BY <1>2
  <2> HIDE DEF C
  <2> QED
    BY <2>1, <2>2
<1>4. \A c \in C : \E x \in ReachedEdges : Lower[x.parent] = c /\ Lower[x.child] \in C
  BY <1>2
<1> QED
  BY <1>3, <1>4 DEF IsCyclic

-----------------------------------------------------------------------------
LEMMA MoreVisited ==
    ASSUME NEW p, NEW q, NEW R, NEW V, NEW W, V \subseteq W, PathOK(p, q, R, V)
    PROVE  PathOK(p, q, R, W)
BY DEF PathOK

LEMMA KeysAppended ==
    ASSUME NEW S, NEW M \in Seq(S), NEW m \in S
    PROVE  Keys(Append(M, m)) = Keys(M) \cup {EdgeKey(m.edge)}
<1> DEFINE N == Append(M, m)
<1>1. /\ DOMAIN N = 1 .. (Len(M) + 1) /\ DOMAIN M = 1 .. Len(M) /\ Len(M) \in Nat
      /\ N[Len(M) + 1] = m /\ \A i \in 1 .. Len(M) : N[i] = M[i]
  OBVIOUS
<1> HIDE DEF N
<1>2. Keys(N) = Keys(M) \cup {EdgeKey(m.edge)}
  BY <1>1 DEF Keys
<1> QED
  BY <1>2 DEF N

(* An edge that is passed over leads to a class that was reached before;   *)
(* without cycles its key was seen before.                                 *)
LEMMA PassedOver ==
    ASSUME PathsOK(search, question, ReachedEdges), NEW e \in search.todo, ~Fresh(e)
    PROVE  /\ \/ Lower[e.child] = Lower[question.root]
              \/ \E k \in search.visited : k[1] = Lower[e.child]
           /\ ~IsCyclic => EdgeKey(e) \in search.visited
<1>1. /\ PathOK(search.path, question, ReachedEdges, search.visited) /\ e \in ReachedEdges
      /\ Lower[e.parent] = Lower[search.path[Len(search.path)]]
      /\ DOMAIN search.path = 1 .. Len(search.path) /\ Len(search.path) \in Nat
  BY DEF PathsOK, PathOK
<1>2. CASE EdgeKey(e) \in search.visited
  <2>1. EdgeKey(e)[1] = Lower[e.child]
    BY DEF EdgeKey
  <2> QED
    BY <1>2, <2>1
<1>3. ASSUME NEW n \in 1 .. Len(search.path), search.path[n] = e.child
      PROVE  /\ IsCyclic
             /\ \/ Lower[e.child] = Lower[question.root]
                \/ \E k \in search.visited : k[1] = Lower[e.child]
  <2>1. IsCyclic
    BY <1>1, <1>3, BackEdge
  <2>2. CASE n = 1
    BY <1>1, <1>3, <2>1, <2>2 DEF PathOK
  <2>3. CASE n # 1
    <3>1. n \in 2 .. Len(search.path)
      BY <1>1, <2>3
    <3> QED
      BY <1>1, <1>3, <2>1, <3>1 DEF PathOK
  <2> QED
    BY <2>2, <2>3
<1> QED
  BY <1>1, <1>2, <1>3 DEF Fresh

LEMMA ExamineEdgeStep ==
    ASSUME HInv, NEW e \in search.todo, ExamineEdge(e)
    PROVE  HInv'
<1> DEFINE R == ReachedEdges
           P == Append(search.path, e.child)
           report == Fresh(e) /\ e.jar \in question.selected
           m == [edge |-> e, path |-> P]
           M == IF report THEN Append(search.matches, m) ELSE search.matches
           V == search.visited \cup {EdgeKey(e)}
           Q == IF Fresh(e) /\ question.transitive THEN Append(search.queue, P)
                ELSE search.queue
<1>1. /\ Hierarchy /\ question' = question /\ answer = NoAnswer
      /\ search' = [search EXCEPT !.todo = @ \ {e}, !.visited = V, !.matches = M, !.queue = Q]
      /\ answer' = IF report /\ Len(M) = Limit(question.limit) THEN [matches |-> M] ELSE NoAnswer
  BY DEF ExamineEdge, Asked, Hierarchy
<1>2. /\ PathsOK(search, question, R) /\ MatchesOK(search, question, R)
      /\ \A c \in Reached(search, question) : Covered(search, question, c)
      /\ ~IsCyclic => NothingPassed(search, question, R)
      /\ AllSelected(question) => NoClassPassed(search, question)
  BY <1>1 DEF HInv
<1>3. /\ DOMAIN search' = {"path", "todo", "queue", "visited", "matches"}
      /\ search'.path = search.path /\ search'.todo = search.todo \ {e}
      /\ search'.visited = V /\ search'.matches = M /\ search'.queue = Q
  <2> HIDE DEF P, report, M, V, Q
  <2> QED
    BY <1>1, <1>2 DEF PathsOK
<1>4. /\ e \in R /\ R \subseteq question.edges
      /\ PathOK(search.path, question, R, search.visited)
      /\ Lower[e.parent] = Lower[search.path[Len(search.path)]]
  BY <1>2 DEF PathsOK, ReachedEdges
<1>5. /\ P \in Seq(Classes(question)) /\ ChainOf(P, question)
      /\ question.transitive => PathOK(P, question, R, V)
  BY <1>4, Extended, FollowEdge
<1>6. /\ Q \in Seq(Seq(Classes(question))) /\ Len(Q) \in Nat /\ Len(Q) >= Len(search.queue)
      /\ \A i \in 1 .. Len(search.queue) : i \in 1 .. Len(Q) /\ Q[i] = search.queue[i]
      /\ Fresh(e) /\ question.transitive => Len(Q) >= 1 /\ Q[Len(Q)] = P
      /\ \A i \in 1 .. Len(Q) :
           \/ i \in 1 .. Len(search.queue) /\ Q[i] = search.queue[i]
           \/ Fresh(e) /\ question.transitive /\ Q[i] = P
  <2>1. P \in Seq(Classes(question)) /\ search.queue \in Seq(Seq(Classes(question)))
    BY <1>2, <1>5 DEF PathsOK
  <2> HIDE DEF P
  <2> QED
    BY <2>1
<1> HIDE DEF P, Q
<1>7. PathsOK(search', question, R)
  <2>1. PathOK(search.path, question, R, V)
    BY <1>4, MoreVisited
  <2>2. ASSUME NEW i \in 1 .. Len(Q)
        PROVE  PathOK(Q[i], question, R, V)
    <3>1. \A j \in 1 .. Len(search.queue) : PathOK(search.queue[j], question, R, search.visited)
      BY <1>2 DEF PathsOK
    <3>2. \A j \in 1 .. Len(search.queue) : PathOK(search.queue[j], question, R, V)
      BY <3>1, MoreVisited
    <3> QED
      BY <1>5, <1>6, <3>2
  <2>3. V \subseteq {EdgeKey(x) : x \in R}
    BY <1>2, <1>4 DEF PathsOK
  <2> HIDE DEF R, V, M
  <2> QED
    BY <1>2, <1>3, <1>6, <2>1, <2>2, <2>3 DEF PathsOK
<1>8. Keys(M) = Keys(search.matches) \cup (IF report THEN {EdgeKey(e)} ELSE {})
  <2>1. /\ search.matches \in Seq([edge : question.edges, path : Seq(Classes(question))])
        /\ m \in [edge : question.edges, path : Seq(Classes(question))] /\ m.edge = e
    BY <1>2, <1>4, <1>5 DEF MatchesOK
  <2> HIDE DEF m
  <2>2. CASE report
    <3>1. M = Append(search.matches, m)
      BY <2>2
    <3>2. Keys(Append(search.matches, m)) = Keys(search.matches) \cup {EdgeKey(m.edge)}
      <4> DEFINE S == [edge : question.edges, path : Seq(Classes(question))]
      <4>1. search.matches \in Seq(S) /\ m \in S
        BY <2>1
      <4> HIDE DEF S
      <4> QED
        BY <4>1, KeysAppended
    <3> HIDE DEF M
    <3> QED
      BY <2>1, <2>2, <3>1, <3>2
  <2>3. CASE ~report
    BY <2>3
  <2> QED
    BY <2>2, <2>3
<1>9. MatchesOK(search', question, R)
  <2>1. CASE report
    <3>1. /\ search.matches \in Seq([edge : question.edges, path : Seq(Classes(question))])
          /\ m \in [edge : question.edges, path : Seq(Classes(question))]
          /\ m.edge = e /\ m.path = P
      BY <1>2, <1>4, <1>5 DEF MatchesOK
    <3> HIDE DEF m
    <3>2. /\ M \in Seq([edge : question.edges, path : Seq(Classes(question))])
          /\ Len(M) = Len(search.matches) + 1 /\ Len(search.matches) \in Nat
          /\ M[Len(search.matches) + 1] = m
          /\ \A i \in 1 .. Len(search.matches) : M[i] = search.matches[i]
      BY <2>1, <3>1
    <3> HIDE DEF M
    <3>3. EdgeKey(e) \notin search.visited /\ e.jar \in question.selected
      BY <2>1 DEF Fresh
    <3> HIDE DEF report
    <3>4. \A i \in 1 .. Len(M) :
            \/ i \in 1 .. Len(search.matches) /\ M[i] = search.matches[i]
            \/ i = Len(search.matches) + 1 /\ M[i].edge = e /\ M[i].path = P
      BY <3>1, <3>2
    <3>5. \A i \in 1 .. Len(M) :
            /\ ChainOf(M[i].path, question)
            /\ M[i].edge \in R /\ M[i].edge.jar \in question.selected
            /\ EdgeKey(M[i].edge) \in V
      BY <1>2, <1>4, <1>5, <3>3, <3>4 DEF MatchesOK
    <3>6. \A i, j \in 1 .. Len(M) : EdgeKey(M[i].edge) = EdgeKey(M[j].edge) => i = j
      BY <1>2, <3>3, <3>4 DEF MatchesOK
    <3> HIDE DEF R, V
    <3> QED
      BY <1>3, <3>2, <3>5, <3>6 DEF MatchesOK
  <2>2. CASE ~report
    BY <1>2, <1>3, <2>2, SameMatches
  <2> QED
    BY <2>1, <2>2
<1> HIDE DEF M
<1>10. EdgeKey(e)[1] = Lower[e.child]
  BY DEF EdgeKey
<1>11. ASSUME NEW c, Covered(search, question, c)
       PROVE  Covered(search', question, c)
  <2>1. CASE \A x \in question.edges :
               Lower[x.parent] = c => EdgeKey(x) \in search.visited \/ x \in search.todo
    BY <1>3, <2>1 DEF Covered
  <2>2. CASE \E i \in 1 .. Len(search.queue) :
               Lower[search.queue[i][Len(search.queue[i])]] = c
    BY <1>3, <1>6, <2>2 DEF Covered
  <2> QED
    BY <1>11, <2>1, <2>2 DEF Covered
<1>12. ASSUME NEW c \in Reached(search', question)
       PROVE  Covered(search', question, c)
  <2>1. CASE c \in Reached(search, question)
    BY <1>2, <1>11, <2>1
  <2>2. CASE c \notin Reached(search, question)
    <3>1. question.transitive /\ c = Lower[e.child]
      BY <1>3, <1>10, <1>12, <2>2 DEF Reached
    <3>2. CASE Fresh(e)
      <4>1. Len(Q) \in 1 .. Len(Q) /\ Q[Len(Q)] = P
        BY <1>6, <3>1, <3>2
      <4>2. P[Len(P)] = e.child
        BY <1>4, <1>5 DEF P, PathOK
      <4> QED
        BY <1>3, <3>1, <4>1, <4>2 DEF Covered
    <3>3. CASE ~Fresh(e)
      BY <1>2, <2>2, <3>1, <3>3, PassedOver DEF Reached
    <3> QED
      BY <3>2, <3>3
  <2> QED
    BY <2>1, <2>2
<1>13. ~IsCyclic => NothingPassed(search', question, R)
  <2> SUFFICES ASSUME ~IsCyclic, NEW x \in R, EdgeKey(x) \in V, x.jar \in question.selected
               PROVE  EdgeKey(x) \in Keys(M)
    BY <1>3 DEF NothingPassed
  <2>1. CASE EdgeKey(x) \in search.visited
    BY <1>2, <1>8, <2>1 DEF NothingPassed
  <2>2. CASE EdgeKey(x) = EdgeKey(e)
    <3>1. e.jar = x.jar
      BY <2>2 DEF EdgeKey
    <3>2. Fresh(e) \/ EdgeKey(e) \in search.visited
      BY <1>2, PassedOver
    <3> QED
      BY <1>8, <2>1, <2>2, <3>1, <3>2
  <2> QED
    BY <2>1, <2>2
<1>14. AllSelected(question) => NoClassPassed(search', question)
  <2> SUFFICES ASSUME AllSelected(question), NEW k \in V
               PROVE  (\E key \in Keys(M) : key[1] = k[1]) \/ k[1] = Lower[question.root]
    BY <1>3 DEF NoClassPassed
  <2>1. \A l \in search.visited :
          (\E key \in Keys(M) : key[1] = l[1]) \/ l[1] = Lower[question.root]
    BY <1>2, <1>8 DEF NoClassPassed
  <2>2. CASE k = EdgeKey(e)
    <3>1. e.jar \in question.selected
      BY <1>4 DEF AllSelected
    <3>2. CASE Fresh(e)
      BY <1>8, <2>2, <3>1, <3>2
    <3>3. CASE ~Fresh(e)
      BY <1>2, <1>10, <2>1, <2>2, <3>3, PassedOver
    <3> QED
      BY <3>2, <3>3
  <2> QED
    BY <2>1, <2>2
<1>15. answer' # NoAnswer =>
         /\ answer'.matches = search'.matches
         /\ Len(search'.matches) = Limit(question.limit)
  BY <1>1, <1>3
<1> HIDE DEF R
<1> QED
  BY <1>1, <1>7, <1>9, <1>12, <1>13, <1>14, <1>15, SameAim DEF HInv, R

-----------------------------------------------------------------------------
(* Steps that leave the search as it is. *)
LEMMA AnswerStep ==
    ASSUME HInv, EndOfHierarchy \/ AnswerSearch \/ AnswerSources \/ AnswerDeclaration
                 \/ AnswerApi \/ UNCHANGED queryVars
    PROVE  HInv'
<1>1. /\ question' = question /\ search' = search
      /\ Hierarchy => \/ answer' = answer
                      \/ /\ answer' = [matches |-> search.matches]
                         /\ search.todo = {} /\ search.queue = <<>>
  BY DEF EndOfHierarchy, AnswerSearch, AnswerSources, AnswerDeclaration, AnswerApi,
         Asked, Hierarchy, queryVars
<1>2. Hierarchy /\ answer' # NoAnswer =>
        /\ answer'.matches = search.matches
        /\ \/ Len(search.matches) = Limit(question.limit)
           \/ search.todo = {} /\ search.queue = <<>>
  BY <1>1 DEF HInv
<1> QED
  BY <1>1, <1>2, SameAim DEF HInv

LEMMA NextHInv == HInv /\ [QueryNext]_queryVars => HInv'
BY AnswerStep, NextParentStep, ExamineEdgeStep DEF QueryNext

(* The keys of the matches are as many as the matches. *)
LEMMA KeysCounted ==
    ASSUME NEW s, NEW q, NEW R, MatchesOK(s, q, R)
    PROVE  Cardinality(Keys(s.matches)) = Len(s.matches)
<1> DEFINE n == Len(s.matches)
           K == Keys(s.matches)
           f == [i \in 1 .. n |-> EdgeKey(s.matches[i].edge)]
<1>1. n \in Nat /\ DOMAIN s.matches = 1 .. n
  BY DEF MatchesOK
<1>2. K = {EdgeKey(s.matches[i].edge) : i \in 1 .. n}
  BY <1>1 DEF Keys
<1>3. \A i, j \in 1 .. n : EdgeKey(s.matches[i].edge) = EdgeKey(s.matches[j].edge) => i = j
  BY DEF MatchesOK
<1>4. f \in Bijection(1 .. n, K)
  BY <1>2, <1>3 DEF Bijection, Injection, Surjection, IsInjective
<1>5. ExistsBijection(1 .. n, K)
  BY <1>4 DEF ExistsBijection
<1> HIDE DEF n, K
<1>6. Cardinality(K) = n
  BY <1>1, <1>5, FS_CountingElements
<1> QED
  BY <1>6 DEF n, K

(* At the end of the search every reached edge has been seen. *)
LEMMA AllVisited ==
    ASSUME HInv, Hierarchy, search.todo = {}, search.queue = <<>>
    PROVE  \A e \in ReachedEdges : EdgeKey(e) \in search.visited
<1>1. \A e \in question.edges :
        Lower[e.parent] \in Reached(search, question) => EdgeKey(e) \in search.visited
  BY DEF HInv, Covered
<1>2. ASSUME question.transitive
      PROVE  Descendants \subseteq Reached(search, question)
  <2> DEFINE S == Reached(search, question)
  <2>1. \A k \in search.visited : k[1] \in {Lower[x.child] : x \in question.edges}
    BY DEF HInv, PathsOK, EdgeKey, ReachedEdges
  <2>2. S \in SUBSET ({Lower[x.child] : x \in question.edges} \cup {Lower[question.root]})
    BY <2>1 DEF Reached
  <2>3. \A e \in question.edges : Lower[e.parent] \in S => Lower[e.child] \in S
    <3>1. \A e : EdgeKey(e)[1] = Lower[e.child]
      BY DEF EdgeKey
    <3>2. \A k \in search.visited : k[1] \in S
      BY <1>2 DEF Reached
    <3> QED
      BY <1>1, <3>1, <3>2
  <2>4. Reaches(S)
    BY <2>3 DEF Reaches, Reached
  <2> HIDE DEF S
  <2>5. Descendants \subseteq S
    BY <2>2, <2>4 DEF Descendants
  <2> QED
    BY <2>5 DEF S
<1> QED
  BY <1>1, <1>2 DEF ReachedEdges, Reached

LEMMA HierarchyKept == HInv => HierarchyComplete
<1> SUFFICES ASSUME HInv, Hierarchy, answer # NoAnswer
             PROVE  HierarchyComplete
  BY DEF HierarchyComplete, Answered, Hierarchy
<1> DEFINE M == search.matches
           wanted == {e \in ReachedEdges : e.jar \in question.selected}
<1>1. /\ answer.matches = M /\ MatchesOK(search, question, ReachedEdges)
      /\ Len(M) = Limit(question.limit) \/ (search.todo = {} /\ search.queue = <<>>)
      /\ Len(M) \in Nat /\ DOMAIN M = 1 .. Len(M)
  BY DEF HInv, MatchesOK
<1>2. \A i \in DOMAIN M : IsChain(M[i].path)
  BY <1>1 DEF MatchesOK, ChainOf, IsChain
<1>3. Cardinality(Keys(M)) = Len(M)
  BY <1>1, KeysCounted
<1>4. Keys(M) \subseteq {EdgeKey(e) : e \in wanted}
  BY <1>1 DEF MatchesOK, Keys
<1>5. ASSUME Len(M) < Limit(question.limit)
      PROVE  \A e \in ReachedEdges : EdgeKey(e) \in search.visited
  BY <1>1, <1>5, AllVisited
<1>6. Len(M) < Limit(question.limit) /\ ~IsCyclic => Keys(M) = {EdgeKey(e) : e \in wanted}
  BY <1>4, <1>5 DEF HInv, NothingPassed
<1>7. ASSUME Len(M) < Limit(question.limit), AllSelected(question), NEW e \in ReachedEdges
      PROVE  (\E key \in Keys(M) : key[1] = Lower[e.child]) \/ Lower[e.child] = Lower[question.root]
  <2>1. EdgeKey(e) \in search.visited /\ EdgeKey(e)[1] = Lower[e.child]
    BY <1>5, <1>7 DEF EdgeKey
  <2> QED
    BY <1>7, <2>1 DEF HInv, NoClassPassed
<1> HIDE DEF M
<1> QED
  BY <1>1, <1>2, <1>3, <1>4, <1>6, <1>7 DEF HierarchyComplete, Keys, AllSelected

(* For every index, however its classes inherit from each other and in how *)
(* many versions: what search_type_hierarchy answers are real chains, each *)
(* edge at most once, and unless the limit cut it short none is missing.   *)
THEOREM HierarchyCompleteHolds == QuerySpec => []HierarchyComplete
BY InitHInv, NextHInv, HierarchyKept, PTL DEF QuerySpec

-----------------------------------------------------------------------------
(* get_declaration_source *)

LEMMA OneOfThree ==
    ASSUME NEW a \in BOOLEAN, NEW b \in BOOLEAN, NEW c \in BOOLEAN,
           \/ a /\ ~b /\ ~c
           \/ ~a /\ b /\ ~c
           \/ ~a /\ ~b /\ c
    PROVE  Cardinality({x \in {1, 2, 3} : <<a, b, c>>[x]}) = 1
<1> DEFINE S == {x \in {1, 2, 3} : <<a, b, c>>[x]}
<1>1. <<a, b, c>>[1] = a /\ <<a, b, c>>[2] = b /\ <<a, b, c>>[3] = c
  OBVIOUS
<1>2. S = {1} \/ S = {2} \/ S = {3}
  BY <1>1
<1> HIDE DEF S
<1>3. Cardinality(S) = 1
  BY <1>2, FS_Singleton
<1> QED
  BY <1>3 DEF S

(* A source that is missing: everything could be read, and is another. *)
LEMMA ReallyMissing ==
    ASSUME NEW entries, NEW packaged, ReadSource(entries, packaged).outcome = "missing"
    PROVE  \A e \in entries : e.readable /\ ~Ranked(e, packaged)
<1> DEFINE ranked == {e \in entries : e.readable /\ Ranked(e, packaged)}
           best == {e \in ranked : \A o \in ranked : Rank(e) <= Rank(o)}
           x == CHOOSE e \in best : \A o \in best : e.order <= o.order
<1> HIDE DEF best, x
<1>1. ReadSource(entries, packaged) =
        CASE ranked # {} -> [outcome |-> "found", entry |-> x]
          [] ranked = {} /\ \E e \in entries : ~e.readable -> [outcome |-> "error"]
          [] OTHER -> [outcome |-> "missing"]
  BY DEF ReadSource, best, x
<1>2. ranked = {} /\ ~\E e \in entries : ~e.readable
  <2> HIDE DEF ranked
  <2> QED
    BY <1>1
<1> QED
  BY <1>2

(* What the three lists have of a declaration in an archive. *)
LEMMA Accounted ==
    ASSUME question \in Questions, AnswerDeclaration, answer'.outcome = "answered",
           NEW j \in Looked, NEW d \in Matching(j)
    PROVE  /\ <<j.jar, d>> \in answer'.results <=>
                ~Ambiguous(j) /\ d \in j.located
                /\ ReadSource(j.entries, j.packaged).outcome # "missing"
           /\ <<j.jar, d, "source_entry_missing">> \in answer'.unresolved <=>
                ~Ambiguous(j) /\ ReadSource(j.entries, j.packaged).outcome = "missing"
           /\ <<j.jar, d, "not_located">> \in answer'.unresolved <=>
                ~Ambiguous(j) /\ d \notin j.located
                /\ ReadSource(j.entries, j.packaged).outcome # "missing"
           /\ Ambiguous(j) => d \in answer'.ambiguous
<1> DEFINE clear == {k \in Looked : ~Ambiguous(k)}
           Left(k) == {<<k.jar, x>> : x \in Matching(k)} \ {<<u[1], u[2]>> : u \in Unresolved(k)}
<1>1. /\ answer'.ambiguous = UNION {Matching(k) : k \in Looked \ clear}
      /\ answer'.unresolved = UNION {Unresolved(k) : k \in clear}
      /\ answer'.results = UNION {Left(k) : k \in clear}
  BY DEF AnswerDeclaration
<1>2. \A k \in Looked : k.jar = j.jar => k = j
  BY JarsAssumption DEF AnswerDeclaration, Asked, Looked
<1>3. /\ \A k, x, why : <<k, x, why>>[1] = k /\ <<k, x, why>>[2] = x
      /\ "source_entry_missing" # "not_located"
  OBVIOUS
<1>4. \A k \in Looked : \A u \in Unresolved(k) : u[1] = k.jar
  BY DEF Unresolved
<1>5. \A k \in Looked : \A u \in Left(k) : u[1] = k.jar
  OBVIOUS
<1>6. /\ <<j.jar, d, "source_entry_missing">> \in Unresolved(j) <=>
           ReadSource(j.entries, j.packaged).outcome = "missing"
      /\ <<j.jar, d, "not_located">> \in Unresolved(j) <=>
           d \notin j.located /\ ReadSource(j.entries, j.packaged).outcome # "missing"
  BY DEF Unresolved
<1>7. <<j.jar, d>> \in Left(j) <=>
        d \in j.located /\ ReadSource(j.entries, j.packaged).outcome # "missing"
  <2>1. <<j.jar, d>> \in {<<u[1], u[2]>> : u \in Unresolved(j)} <=>
          \E u \in Unresolved(j) : u[1] = j.jar /\ u[2] = d
    OBVIOUS
  <2>2. (\E u \in Unresolved(j) : u[1] = j.jar /\ u[2] = d) <=>
          ReadSource(j.entries, j.packaged).outcome = "missing" \/ d \notin j.located
    <3>1. CASE ReadSource(j.entries, j.packaged).outcome = "missing"
      <4>1. <<j.jar, d, "source_entry_missing">> \in Unresolved(j)
        BY <1>6, <3>1
      <4> QED
        BY <1>3, <3>1, <4>1
    <3>2. CASE ReadSource(j.entries, j.packaged).outcome # "missing"
      <4>1. Unresolved(j) = {<<j.jar, x, "not_located">> : x \in Matching(j) \ j.located}
        BY <3>2 DEF Unresolved
      <4>2. \A u \in Unresolved(j) : u[2] \in Matching(j) \ j.located
        BY <4>1
      <4>3. d \notin j.located => <<j.jar, d, "not_located">> \in Unresolved(j)
        BY <1>6, <3>2
      <4> QED
        BY <1>3, <3>2, <4>2, <4>3
    <3> QED
      BY <3>1, <3>2
  <2> QED
    BY <2>1, <2>2
<1>8. \A why : <<j.jar, d, why>> \in answer'.unresolved <=>
                 j \in clear /\ <<j.jar, d, why>> \in Unresolved(j)
  BY <1>1, <1>2, <1>3, <1>4
<1>9. <<j.jar, d>> \in answer'.results <=> j \in clear /\ <<j.jar, d>> \in Left(j)
  <2> HIDE DEF Left
  <2> QED
    BY <1>1, <1>2, <1>5
<1>10. Ambiguous(j) => d \in answer'.ambiguous
  BY <1>1
<1> QED
  BY <1>6, <1>7, <1>8, <1>9, <1>10

LEMMA DeclarationStep ==
    ASSUME question \in Questions, AnswerDeclaration
    PROVE  DeclarationsAccounted'
<1>1. /\ question' = question /\ Looked' = Looked
      /\ \A j : Matching(j)' = Matching(j) /\ (Ambiguous(j)' <=> Ambiguous(j))
  BY DEF AnswerDeclaration, Looked, Matching, Ambiguous, Declared
<1> SUFFICES ASSUME answer'.outcome = "answered", NEW j \in Looked, NEW d \in Matching(j)
             PROVE  LET found == <<j.jar, d>> \in answer'.results
                        missing == <<j.jar, d, "source_entry_missing">> \in answer'.unresolved
                        unlocated == <<j.jar, d, "not_located">> \in answer'.unresolved
                    IN /\ Ambiguous(j) => d \in answer'.ambiguous /\ ~found /\ ~missing /\ ~unlocated
                       /\ ~Ambiguous(j) => Cardinality({x \in {1, 2, 3} :
                                              <<found, missing, unlocated>>[x]}) = 1
                       /\ found => d \in j.located
                       /\ missing => \A e \in j.entries : e.readable /\ ~Ranked(e, j.packaged)
  BY <1>1 DEF DeclarationsAccounted
<1> DEFINE found == <<j.jar, d>> \in answer'.results
           missing == <<j.jar, d, "source_entry_missing">> \in answer'.unresolved
           unlocated == <<j.jar, d, "not_located">> \in answer'.unresolved
           none == ReadSource(j.entries, j.packaged).outcome = "missing"
<1>2. /\ found <=> ~Ambiguous(j) /\ d \in j.located /\ ~none
      /\ missing <=> ~Ambiguous(j) /\ none
      /\ unlocated <=> ~Ambiguous(j) /\ d \notin j.located /\ ~none
      /\ Ambiguous(j) => d \in answer'.ambiguous
  BY Accounted
<1>3. none => \A e \in j.entries : e.readable /\ ~Ranked(e, j.packaged)
  BY ReallyMissing
<1>4. found \in BOOLEAN /\ missing \in BOOLEAN /\ unlocated \in BOOLEAN
  OBVIOUS
<1> HIDE DEF found, missing, unlocated, none
<1>5. ~Ambiguous(j) => Cardinality({x \in {1, 2, 3} : <<found, missing, unlocated>>[x]}) = 1
  BY <1>2, <1>4, OneOfThree
<1>6. /\ Ambiguous(j) => d \in answer'.ambiguous /\ ~found /\ ~missing /\ ~unlocated
      /\ found => d \in j.located
      /\ missing => \A e \in j.entries : e.readable /\ ~Ranked(e, j.packaged)
  BY <1>2, <1>3
<1> QED
  BY <1>5, <1>6 DEF found, missing, unlocated

(* For every index and declaration that is asked for: get_declaration_source *)
(* puts it into exactly one of its lists, and calls its source missing only  *)
(* if it could read everything that might have been it.                      *)
THEOREM DeclarationsAccountedHolds == QuerySpec => []DeclarationsAccounted
<1> DEFINE DInv == question \in Questions /\ DeclarationsAccounted
<1>1. QueryInit => DInv
  BY DEF QueryInit, DeclarationsAccounted, Answered
<1>2. DInv /\ [QueryNext]_queryVars => DInv'
  <2> SUFFICES ASSUME DInv, [QueryNext]_queryVars PROVE DInv'
    OBVIOUS
  <2>1. question' = question
    BY DEF QueryNext, queryVars, ExamineEdge, NextParent, EndOfHierarchy, AnswerSearch,
           AnswerSources, AnswerDeclaration, AnswerApi
  <2>2. CASE AnswerDeclaration
    BY <2>1, <2>2, DeclarationStep
  <2>3. CASE answer' = answer
    <3>1. /\ Looked' = Looked /\ (Answered("declaration")' <=> Answered("declaration"))
          /\ \A j : Matching(j)' = Matching(j) /\ (Ambiguous(j)' <=> Ambiguous(j))
      BY <2>1, <2>3 DEF Looked, Matching, Ambiguous, Declared, Answered
    <3> QED
      BY <2>1, <2>3, <3>1 DEF DeclarationsAccounted
  <2>4. CASE question.op # "declaration"
    BY <2>1, <2>4 DEF DeclarationsAccounted, Answered
  <2> QED
    BY <2>2, <2>3, <2>4 DEF QueryNext, queryVars, ExamineEdge, NextParent, EndOfHierarchy,
           AnswerSearch, AnswerSources, AnswerApi, Asked
<1>3. DInv => DeclarationsAccounted
  OBVIOUS
<1> QED
  BY <1>1, <1>2, <1>3, PTL DEF QuerySpec

-----------------------------------------------------------------------------
(* The searches of archives and sources, by induction over the entries.    *)

(* What is known of a search after its first entries: hits is what there   *)
(* was to find in them and total their size.                               *)
SearchOK(f, limit, hits, total) ==
    /\ DOMAIN f = {"results", "scanned", "incomplete", "stop"}
    /\ f.results \in Seq(hits)
    /\ f.scanned \in Nat /\ f.incomplete \in BOOLEAN /\ f.stop \in BOOLEAN
    /\ Len(f.results) <= limit /\ f.scanned <= Budget /\ f.scanned <= total
    /\ f.stop => f.incomplete
    /\ ~f.stop => Len(f.results) < limit
    /\ ~f.incomplete => \A h \in hits : \E i \in 1 .. Len(f.results) : f.results[i] = h
    /\ f.incomplete => Len(f.results) = limit \/ f.scanned < total

(* Report adds hits; h has what there is to find now. *)
LEMMA Reported ==
    ASSUME NEW limit \in Nat, NEW f, NEW H, NEW new, new \in Seq(H), new # <<>>,
           NEW total \in Nat,
           DOMAIN f = {"results", "scanned", "incomplete", "stop"},
           f.results \in Seq(H), f.scanned \in Nat, f.incomplete \in BOOLEAN, f.stop = FALSE,
           Len(f.results) < limit, f.scanned <= Budget, f.scanned <= total,
           ~f.incomplete => \A h \in H : \/ \E i \in 1 .. Len(f.results) : f.results[i] = h
                                         \/ \E i \in 1 .. Len(new) : new[i] = h,
           f.incomplete => f.scanned < total
    PROVE  SearchOK(Report(f, limit, new), limit, H, total)
<1> DEFINE room == limit - Len(f.results)
           kept == IF Len(new) > room THEN SubSeq(new, 1, room) ELSE new
           full == Len(kept) = room
           r == Report(f, limit, new)
<1>1. room \in Nat \ {0}
  OBVIOUS
<1>2. kept \in Seq(H) /\ Len(kept) <= room /\ (~full => kept = new)
  BY <1>1
<1>3. r = [f EXCEPT !.results = @ \o kept, !.incomplete = @ \/ full, !.stop = full]
  BY DEF Report
<1> HIDE DEF kept, r
<1>4. /\ DOMAIN r = {"results", "scanned", "incomplete", "stop"}
      /\ r.results = f.results \o kept /\ r.scanned = f.scanned
      /\ r.incomplete = (f.incomplete \/ full) /\ r.stop = full
  BY <1>3
<1>5. r.results \in Seq(H) /\ Len(r.results) = Len(f.results) + Len(kept)
  BY <1>2, <1>4
<1>6. (\A i \in 1 .. Len(f.results) : r.results[i] = f.results[i])
      /\ \A i \in 1 .. Len(kept) : r.results[Len(f.results) + i] = kept[i]
  BY <1>2, <1>4
<1>7. Len(r.results) <= limit /\ (full => Len(r.results) = limit) /\ (~full => Len(r.results) < limit)
  BY <1>1, <1>2, <1>5
<1>8. ASSUME ~r.incomplete, NEW h \in H
      PROVE  \E i \in 1 .. Len(r.results) : r.results[i] = h
  <2>1. ~full /\ kept = new /\ ~f.incomplete
    BY <1>2, <1>4, <1>8
  <2>2. CASE \E i \in 1 .. Len(f.results) : f.results[i] = h
    <3>1. PICK i \in 1 .. Len(f.results) : f.results[i] = h
      BY <2>2
    <3>2. i \in 1 .. Len(r.results) /\ r.results[i] = h
      BY <1>2, <1>5, <1>6, <3>1
    <3> QED
      BY <3>2
  <2>3. CASE \E i \in 1 .. Len(new) : new[i] = h
    <3>1. PICK i \in 1 .. Len(new) : new[i] = h
      BY <2>3
    <3>2. Len(f.results) + i \in 1 .. Len(r.results) /\ r.results[Len(f.results) + i] = h
      BY <1>2, <1>5, <1>6, <2>1, <3>1
    <3> QED
      BY <3>2
  <2> QED
    BY <2>1, <2>2, <2>3
<1>9. full \in BOOLEAN
  OBVIOUS
<1>10. r.scanned \in Nat /\ r.incomplete \in BOOLEAN /\ r.stop \in BOOLEAN
       /\ r.scanned <= Budget /\ r.scanned <= total
       /\ (r.stop => r.incomplete)
  BY <1>4, <1>9
<1>11. ~r.stop => Len(r.results) < limit
  BY <1>4, <1>7
<1>12. r.incomplete => Len(r.results) = limit \/ r.scanned < total
  BY <1>4, <1>7
<1>13. SearchOK(r, limit, H, total)
  BY <1>4, <1>5, <1>7, <1>8, <1>10, <1>11, <1>12 DEF SearchOK
<1> QED
  BY <1>13 DEF r

(* The search goes on with more to find and more to read: nothing is       *)
(* missed silently.                                                        *)
LEMMA Passed ==
    ASSUME NEW limit \in Nat, NEW f, NEW H, NEW N, NEW total \in Nat, NEW size \in Nat,
           SearchOK(f, limit, H, total), f.incomplete
    PROVE  SearchOK(f, limit, H \cup N, total + size)
<1>1. f.results \in Seq(H \cup N)
  BY DEF SearchOK
<1>2. f.scanned <= total + size /\ (f.scanned < total => f.scanned < total + size)
  BY DEF SearchOK
<1> QED
  BY <1>1, <1>2 DEF SearchOK

(* An entry is not read, and the search says so. *)
LEMMA LeftOut ==
    ASSUME NEW limit \in Nat, NEW f, NEW H, NEW N, NEW total \in Nat, NEW size \in Nat,
           SearchOK(f, limit, H, total), size > 0, NEW g,
           \/ g = [f EXCEPT !.incomplete = TRUE, !.stop = TRUE]
           \/ g = [f EXCEPT !.incomplete = TRUE]
    PROVE  SearchOK(g, limit, H \cup N, total + size)
<1>1. /\ DOMAIN g = {"results", "scanned", "incomplete", "stop"}
      /\ g.results = f.results /\ g.scanned = f.scanned /\ g.incomplete = TRUE
      /\ g.stop \in {f.stop, TRUE}
  BY DEF SearchOK
<1>2. g.results \in Seq(H \cup N)
  BY <1>1 DEF SearchOK
<1>3. g.scanned < total + size
  BY <1>1 DEF SearchOK
<1>4. g.stop \in BOOLEAN /\ (~g.stop => ~f.stop)
  BY <1>1 DEF SearchOK
<1>5. /\ g.scanned \in Nat /\ g.scanned <= Budget /\ Len(g.results) <= limit
      /\ (~g.stop => Len(g.results) < limit)
  BY <1>1, <1>4 DEF SearchOK
<1>6. g.scanned <= total + size
  BY <1>3, <1>5
<1>7. g.incomplete \in BOOLEAN /\ (g.stop => g.incomplete) /\ g.incomplete
  BY <1>1
<1> QED
  BY <1>1, <1>2, <1>3, <1>4, <1>5, <1>6, <1>7 DEF SearchOK

(* An entry was read and nothing found in it that was left unsaid. *)
LEMMA ReadOn ==
    ASSUME NEW limit \in Nat, NEW f, NEW H, NEW N, NEW total \in Nat, NEW size \in Nat,
           SearchOK(f, limit, H, total), ~f.stop, NEW read \in 0 .. size, NEW cut \in BOOLEAN,
           f.scanned + read <= Budget, cut => read < size, ~cut => N = {},
           NEW g, g = [f EXCEPT !.scanned = @ + read, !.incomplete = @ \/ cut]
    PROVE  SearchOK(g, limit, H \cup N, total + size)
<1>1. /\ DOMAIN g = {"results", "scanned", "incomplete", "stop"}
      /\ g.results = f.results /\ g.scanned = f.scanned + read
      /\ g.incomplete = (f.incomplete \/ cut) /\ g.stop = f.stop
  BY DEF SearchOK
<1>2. g.results \in Seq(H \cup N) /\ g.scanned \in Nat /\ Len(g.results) < limit
  BY <1>1 DEF SearchOK
<1>3. g.scanned <= total + size /\ (f.scanned < total \/ cut => g.scanned < total + size)
  BY <1>1 DEF SearchOK
<1>4. g.incomplete \in BOOLEAN /\ g.stop = FALSE
  BY <1>1 DEF SearchOK
<1>5. g.incomplete => g.scanned < total + size
  BY <1>1, <1>3 DEF SearchOK
<1>6. ~g.incomplete => \A h \in H \cup N : \E i \in 1 .. Len(g.results) : g.results[i] = h
  BY <1>1 DEF SearchOK
<1> QED
  BY <1>1, <1>2, <1>3, <1>4, <1>5, <1>6 DEF SearchOK

(* The same with results: all of what is new, unless the entry was cut. *)
LEMMA ReadAndFound ==
    ASSUME NEW limit \in Nat, NEW f, NEW H, NEW N, NEW total \in Nat, NEW size \in Nat,
           SearchOK(f, limit, H, total), ~f.stop, NEW read \in 0 .. size, NEW cut \in BOOLEAN,
           f.scanned + read <= Budget, cut => read < size,
           NEW new \in Seq(N), new # <<>>,
           ~cut => \A h \in N : \E i \in 1 .. Len(new) : new[i] = h,
           NEW g, g = [f EXCEPT !.scanned = @ + read, !.incomplete = @ \/ cut]
    PROVE  SearchOK(Report(g, limit, new), limit, H \cup N, total + size)
<1>1. /\ DOMAIN g = {"results", "scanned", "incomplete", "stop"}
      /\ g.results = f.results /\ g.scanned = f.scanned + read
      /\ g.incomplete = (f.incomplete \/ cut) /\ g.stop = f.stop
  BY DEF SearchOK
<1>2. g.results \in Seq(H \cup N) /\ g.scanned \in Nat /\ Len(g.results) < limit
      /\ g.stop = FALSE
  BY <1>1 DEF SearchOK
<1>3. g.scanned <= total + size /\ (f.scanned < total \/ cut => g.scanned < total + size)
  BY <1>1 DEF SearchOK
<1>4. g.incomplete \in BOOLEAN
  BY <1>1 DEF SearchOK
<1>5. g.incomplete => g.scanned < total + size
  BY <1>1, <1>3 DEF SearchOK
<1>6. ASSUME ~g.incomplete, NEW h \in H \cup N
      PROVE  \/ \E i \in 1 .. Len(g.results) : g.results[i] = h
             \/ \E i \in 1 .. Len(new) : new[i] = h
  <2>1. ~f.incomplete /\ ~cut
    BY <1>1, <1>6
  <2>2. CASE h \in N
    BY <2>1, <2>2, Zenon
  <2>3. CASE h \in H
    BY <1>1, <2>1, <2>3 DEF SearchOK
  <2> QED
    BY <2>2, <2>3
<1>7. new \in Seq(H \cup N) /\ total + size \in Nat /\ g.scanned <= Budget
  BY <1>1
<1> QED
  BY <1>1, <1>2, <1>3, <1>4, <1>5, <1>6, <1>7, Reported

SearchEntries == [size : Nat, utf8 : BOOLEAN, wide : BOOLEAN, hits : Seq(Nat)]

(* search_jar_content, at one entry: skipped, read in vain or reported. *)
LEMMA ContentStep ==
    ASSUME NEW limit \in Nat, NEW f, NEW H, NEW total \in Nat, NEW e \in SearchEntries, NEW at,
           SearchOK(f, limit, H, total)
    PROVE  SearchOK(ScanContent(f, e, at, limit), limit,
                    H \cup {<<at, h>> : h \in IF e.utf8 /\ e.hits # <<>> THEN {Head(e.hits)} ELSE {}},
                    total + e.size)
<1> DEFINE N == {<<at, h>> : h \in IF e.utf8 /\ e.hits # <<>> THEN {Head(e.hits)} ELSE {}}
           read == [f EXCEPT !.scanned = @ + e.size]
           g == [f EXCEPT !.scanned = @ + e.size, !.incomplete = @ \/ FALSE]
           scan == ScanContent(f, e, at, limit)
<1> SUFFICES SearchOK(scan, limit, H \cup N, total + e.size)
  OBVIOUS
<1>0. e.size \in Nat /\ e.utf8 \in BOOLEAN /\ e.hits \in Seq(Nat)
  BY DEF SearchEntries
<1>1. Budget \in Nat /\ MaxSourceBytes \in Nat
  BY SearchAssumption DEF Budget
<1>2. f.stop \in BOOLEAN /\ f.scanned \in Nat /\ (f.stop => f.incomplete) /\ f.scanned <= Budget
  BY DEF SearchOK
<1>3. read.scanned = f.scanned + e.size /\ read = g
  BY DEF SearchOK
<1>4. CASE f.stop
  <2>1. scan = f
    BY <1>4 DEF ScanContent
  <2>2. SearchOK(f, limit, H \cup N, total + e.size)
    BY <1>0, <1>2, <1>4, Passed
  <2> QED
    BY <2>1, <2>2
<1>5. CASE ~f.stop /\ f.scanned + e.size > Budget
  <2>1. scan = [f EXCEPT !.incomplete = TRUE, !.stop = TRUE]
    BY <1>0, <1>1, <1>2, <1>3, <1>5 DEF ScanContent
  <2>2. e.size > 0
    BY <1>0, <1>1, <1>2, <1>5
  <2> HIDE DEF scan, N
  <2> QED
    BY <1>0, <2>1, <2>2, LeftOut
<1>6. CASE ~f.stop /\ f.scanned + e.size <= Budget /\ e.size > MaxSourceBytes
  <2>1. scan = [f EXCEPT !.incomplete = TRUE]
    BY <1>0, <1>1, <1>2, <1>3, <1>6 DEF ScanContent
  <2>2. e.size > 0
    BY <1>0, <1>1, <1>6
  <2> HIDE DEF scan, N
  <2> QED
    BY <1>0, <2>1, <2>2, LeftOut
<1>7. CASE ~f.stop /\ f.scanned + e.size <= Budget /\ ~(e.size > MaxSourceBytes)
  <2>1. scan = IF e.utf8 /\ e.hits # <<>> THEN Report(read, limit, <<<<at, Head(e.hits)>>>>) ELSE read
    BY <1>0, <1>1, <1>2, <1>3, <1>7 DEF ScanContent
  <2>2. CASE e.utf8 /\ e.hits # <<>>
    <3> DEFINE new == <<<<at, Head(e.hits)>>>>
    <3>1. N = {<<at, Head(e.hits)>>}
      BY <2>2
    <3>2. new \in Seq(N) /\ new # <<>> /\ \A h \in N : \E i \in 1 .. Len(new) : new[i] = h
      BY <3>1
    <3>3. scan = Report(g, limit, new)
      BY <1>3, <2>1, <2>2
    <3>4. e.size \in 0 .. e.size /\ FALSE \in BOOLEAN /\ (FALSE => e.size < e.size)
      BY <1>0
    <3> HIDE DEF scan, N, new
    <3>5. SearchOK(Report(g, limit, new), limit, H \cup N, total + e.size)
      BY <1>0, <1>7, <3>2, <3>4, ReadAndFound
    <3> QED
      BY <3>3, <3>5
  <2>3. CASE ~(e.utf8 /\ e.hits # <<>>)
    <3>1. N = {}
      BY <2>3
    <3>2. scan = g
      BY <1>3, <2>1, <2>3
    <3>4. e.size \in 0 .. e.size /\ FALSE \in BOOLEAN /\ (FALSE => e.size < e.size)
      BY <1>0
    <3> HIDE DEF scan, N, g
    <3>5. SearchOK(g, limit, H \cup N, total + e.size)
      BY <1>0, <1>7, <3>1, <3>4, ReadOn DEF g
    <3> QED
      BY <3>2, <3>5
  <2> QED
    BY <2>2, <2>3
<1> QED
  BY <1>0, <1>1, <1>2, <1>4, <1>5, <1>6, <1>7

(* The lines of a source that are read before the limit is reached. *)
LEMMA LinesRead ==
    ASSUME NEW e \in SearchEntries, \A k \in DOMAIN e.hits : e.hits[k] <= e.size
    PROVE  /\ ReadBytes(e) \in 0 .. e.size /\ LastRead(e) \in 0 .. Len(e.hits)
           /\ e.size > MaxSourceBytes => ReadBytes(e) < e.size
           /\ ~(e.size > MaxSourceBytes) => LastRead(e) = Len(e.hits)
<1> DEFINE R == {0} \cup {i \in DOMAIN e.hits : e.hits[i] <= ReadBytes(e)}
<1>0. e.size \in Nat /\ e.wide \in BOOLEAN /\ e.hits \in Seq(Nat) /\ MaxSourceBytes \in Nat \ {0}
  BY SearchAssumption DEF SearchEntries
<1>1. ReadBytes(e) \in 0 .. e.size /\ (e.size > MaxSourceBytes => ReadBytes(e) < e.size)
  BY <1>0 DEF ReadBytes
<1>2. LastRead(e) \in R /\ \A y \in R : y <= LastRead(e)
  <2>1. R \subseteq Int /\ R # {} /\ \A x \in R : x <= Len(e.hits)
    BY <1>0
  <2>2. LastRead(e) = Max(R) /\ Len(e.hits) \in Int
    BY <1>0 DEF LastRead
  <2> HIDE DEF R
  <2> QED
    BY <2>1, <2>2, MaxIs
<1>3. LastRead(e) \in 0 .. Len(e.hits)
  BY <1>0, <1>2
<1>4. ASSUME ~(e.size > MaxSourceBytes)
      PROVE  LastRead(e) = Len(e.hits)
  <2>1. ReadBytes(e) = e.size
    BY <1>0, <1>4 DEF ReadBytes
  <2>2. Len(e.hits) \in R
    BY <1>0, <2>1
  <2> QED
    BY <1>0, <1>2, <1>3, <2>2
<1> QED
  BY <1>1, <1>3, <1>4

(* search_source, at one entry. *)
LEMMA SourceStep ==
    ASSUME NEW limit \in Nat, NEW f, NEW H, NEW total \in Nat, NEW e \in SearchEntries, NEW at,
           \A k \in DOMAIN e.hits : e.hits[k] <= e.size, SearchOK(f, limit, H, total)
    PROVE  SearchOK(ScanSource(f, e, at, limit), limit,
                    H \cup {<<at, h>> : h \in ToSet(e.hits)}, total + e.size)
<1> DEFINE N == {<<at, h>> : h \in ToSet(e.hits)}
           cut == e.size > MaxSourceBytes
           hits == SubSeq(e.hits, 1, LastRead(e))
           new == [i \in DOMAIN hits |-> <<at, hits[i]>>]
           g == [f EXCEPT !.scanned = @ + ReadBytes(e), !.incomplete = @ \/ cut]
           scan == ScanSource(f, e, at, limit)
<1> SUFFICES SearchOK(scan, limit, H \cup N, total + e.size)
  OBVIOUS
<1>0. e.size \in Nat /\ e.hits \in Seq(Nat)
  BY DEF SearchEntries
<1>1. Budget \in Nat /\ MaxSourceBytes \in Nat /\ cut \in BOOLEAN
  BY SearchAssumption DEF Budget
<1>2. f.stop \in BOOLEAN /\ f.scanned \in Nat /\ (f.stop => f.incomplete) /\ f.scanned <= Budget
  BY DEF SearchOK
<1>3. /\ ReadBytes(e) \in 0 .. e.size /\ LastRead(e) \in 0 .. Len(e.hits)
      /\ cut => ReadBytes(e) < e.size
      /\ ~cut => LastRead(e) = Len(e.hits)
  BY LinesRead
<1>4. CASE f.stop
  <2>1. scan = f
    BY <1>4 DEF ScanSource
  <2>2. SearchOK(f, limit, H \cup N, total + e.size)
    BY <1>0, <1>2, <1>4, Passed
  <2> QED
    BY <2>1, <2>2
<1>5. CASE ~f.stop /\ f.scanned + e.size > Budget
  <2>1. scan = [f EXCEPT !.incomplete = TRUE, !.stop = TRUE]
    BY <1>5 DEF ScanSource
  <2>2. e.size > 0
    BY <1>0, <1>1, <1>2, <1>5
  <2> HIDE DEF scan, N
  <2> QED
    BY <1>0, <2>1, <2>2, LeftOut
<1>6. CASE ~f.stop /\ ~(f.scanned + e.size > Budget)
  <2>1. scan = IF hits = <<>> THEN g ELSE Report(g, limit, new)
    BY <1>6 DEF ScanSource
  <2>2. f.scanned + ReadBytes(e) <= Budget
    BY <1>0, <1>1, <1>2, <1>3, <1>6
  <2>3. hits \in Seq(Nat) /\ Len(hits) = LastRead(e)
        /\ \A i \in 1 .. Len(hits) : hits[i] = e.hits[i]
    BY <1>0, <1>3
  <2>4. new \in Seq(N) /\ Len(new) = Len(hits)
    <3>1. \A i \in 1 .. Len(hits) : <<at, hits[i]>> \in N
      BY <1>0, <1>3, <2>3 DEF ToSet
    <3>2. DOMAIN hits = 1 .. Len(hits) /\ Len(hits) \in Nat
      BY <2>3
    <3>3. new = [i \in 1 .. Len(hits) |-> <<at, hits[i]>>]
      BY <3>2, Zenon
    <3> HIDE DEF hits, N, new, scan, g, cut
    <3> QED
      BY <3>1, <3>2, <3>3
  <2>5. ~cut => \A h \in N : \E i \in 1 .. Len(new) : new[i] = h
    <3> SUFFICES ASSUME ~cut, NEW h \in N
                 PROVE  \E i \in 1 .. Len(new) : new[i] = h
      BY Zenon
    <3>1. PICK i \in 1 .. Len(e.hits) : h = <<at, e.hits[i]>>
      BY <1>0 DEF ToSet
    <3>2. i \in 1 .. Len(hits) /\ hits[i] = e.hits[i]
      BY <1>3, <2>3, <3>1
    <3> HIDE DEF hits
    <3>3. new[i] = <<at, hits[i]>>
      BY <2>3, <3>2
    <3> HIDE DEF new
    <3> QED
      BY <2>4, <3>1, <3>2, <3>3
  <2>6. CASE hits = <<>>
    <3>0. Len(new) = 0
      BY <2>3, <2>4, <2>6
    <3> HIDE DEF new, N, cut
    <3>1. ~cut => N = {}
      BY <2>5, <3>0
    <3> HIDE DEF scan, N, g, hits, cut, new
    <3>2. SearchOK(g, limit, H \cup N, total + e.size)
      BY <1>0, <1>1, <1>3, <1>6, <2>2, <3>1, ReadOn DEF g
    <3> QED
      BY <2>1, <2>6, <3>2
  <2>7. CASE hits # <<>>
    <3>1. new # <<>>
      BY <2>3, <2>4, <2>7
    <3> HIDE DEF scan, N, g, hits, cut, new
    <3>2. SearchOK(Report(g, limit, new), limit, H \cup N, total + e.size)
      BY <1>0, <1>1, <1>3, <1>6, <2>2, <2>4, <2>5, <3>1, ReadAndFound DEF g
    <3> QED
      BY <2>1, <2>7, <3>2
  <2> QED
    BY <2>6, <2>7
<1> QED
  BY <1>0, <1>1, <1>2, <1>4, <1>5, <1>6

SearchRecords(R) ==
    [results : Seq(R), scanned : Int, incomplete : BOOLEAN, stop : BOOLEAN]

(* The loops keep the shape of the answer, whatever they are given: what  *)
(* PrimitiveRecursion asks of the body of a loop.                          *)
LEMMA ReportTyped ==
    ASSUME NEW R, NEW f \in SearchRecords(R), NEW limit \in Nat, NEW new \in Seq(R)
    PROVE  Report(f, limit, new) \in SearchRecords(R)
<1> DEFINE room == limit - Len(f.results)
           kept == IF Len(new) > room THEN SubSeq(new, 1, room) ELSE new
<1>1. f.results \in Seq(R) /\ room \in Int
  BY DEF SearchRecords
<1>2. kept \in Seq(R)
  BY <1>1
<1>3. Report(f, limit, new)
        = [f EXCEPT !.results = @ \o kept, !.incomplete = @ \/ (Len(kept) = room),
                    !.stop = (Len(kept) = room)]
  BY DEF Report
<1>4. (Len(kept) = room) \in BOOLEAN /\ f.results \o kept \in Seq(R)
  BY <1>1, <1>2
<1> HIDE DEF kept, room
<1> QED
  BY <1>3, <1>4 DEF SearchRecords

LEMMA ScanTyped ==
    ASSUME NEW R, NEW f \in SearchRecords(R), NEW limit \in Nat, NEW e \in SearchEntries, NEW at,
           \A h \in Nat : <<at, h>> \in R
    PROVE  /\ ScanContent(f, e, at, limit) \in SearchRecords(R)
           /\ ScanSource(f, e, at, limit) \in SearchRecords(R)
<1>0. e.size \in Nat /\ e.hits \in Seq(Nat) /\ MaxSourceBytes \in Nat
  BY SearchAssumption DEF SearchEntries
<1>1. ReadBytes(e) \in Int
  BY <1>0 DEF ReadBytes
<1>2. ScanContent(f, e, at, limit) \in SearchRecords(R)
  <2> DEFINE read == [f EXCEPT !.scanned = @ + e.size]
             new == <<<<at, Head(e.hits)>>>>
  <2>0. f.scanned + e.size \in Int
    BY <1>0 DEF SearchRecords
  <2>1. /\ read \in SearchRecords(R)
        /\ [f EXCEPT !.incomplete = TRUE] \in SearchRecords(R)
        /\ [f EXCEPT !.incomplete = TRUE, !.stop = TRUE] \in SearchRecords(R)
    <3>1. read \in SearchRecords(R)
      BY <2>0 DEF SearchRecords
    <3>2. [f EXCEPT !.incomplete = TRUE] \in SearchRecords(R)
      BY DEF SearchRecords
    <3>3. [f EXCEPT !.incomplete = TRUE, !.stop = TRUE] \in SearchRecords(R)
      BY DEF SearchRecords
    <3> QED
      BY <3>1, <3>2, <3>3
  <2>2. CASE e.hits # <<>>
    <3>1. new \in Seq(R)
      BY <1>0, <2>2
    <3> HIDE DEF read, new
    <3>2. Report(read, limit, new) \in SearchRecords(R)
      BY <2>1, <3>1, ReportTyped
    <3> QED
      BY <2>1, <3>2 DEF ScanContent, read, new
  <2>3. CASE e.hits = <<>>
    BY <2>1, <2>3 DEF ScanContent
  <2> QED
    BY <2>2, <2>3
<1>3. ScanSource(f, e, at, limit) \in SearchRecords(R)
  <2> DEFINE truncated == e.size > MaxSourceBytes
             hits == SubSeq(e.hits, 1, LastRead(e))
             read == [f EXCEPT !.scanned = @ + ReadBytes(e), !.incomplete = @ \/ truncated]
             new == [i \in DOMAIN hits |-> <<at, hits[i]>>]
  <2>0. f.scanned + ReadBytes(e) \in Int /\ (f.incomplete \/ truncated) \in BOOLEAN
    BY <1>0, <1>1 DEF SearchRecords
  <2>1. /\ read \in SearchRecords(R)
        /\ [f EXCEPT !.incomplete = TRUE, !.stop = TRUE] \in SearchRecords(R)
    <3>1. read \in SearchRecords(R)
      BY <2>0 DEF SearchRecords
    <3>2. [f EXCEPT !.incomplete = TRUE, !.stop = TRUE] \in SearchRecords(R)
      BY DEF SearchRecords
    <3> QED
      BY <3>1, <3>2
  <2>2. CASE LastRead(e) \in 0 .. Len(e.hits)
    <3>1. hits \in Seq(Nat)
      BY <1>0, <2>2
    <3>2. new \in Seq(R)
      <4> HIDE DEF hits
      <4> QED
        BY <3>1
    <3> HIDE DEF read, new
    <3>3. Report(read, limit, new) \in SearchRecords(R)
      BY <2>1, <3>2, ReportTyped
    <3> QED
      BY <2>1, <3>3 DEF ScanSource, read, new
  <2>3. LastRead(e) \in 0 .. Len(e.hits)
    <3> DEFINE L == {0} \cup {i \in DOMAIN e.hits : e.hits[i] <= ReadBytes(e)}
    <3>1. L \subseteq Int /\ L # {} /\ (\A x \in L : x <= Len(e.hits)) /\ Len(e.hits) \in Int
          /\ L \subseteq 0 .. Len(e.hits)
      BY <1>0
    <3>2. LastRead(e) = Max(L)
      BY DEF LastRead
    <3> HIDE DEF L
    <3> QED
      BY <3>1, <3>2, MaxIs
  <2> QED
    BY <2>2, <2>3
<1> QED
  BY <1>2, <1>3

ScanNext(q, f, i) ==
    IF q.op = "content" THEN ScanContent(f, q.entries[i], i, Limit(q.limit))
    ELSE ScanSource(f, q.entries[i], i, Limit(q.limit))

(* The recursive function that models the loop is the loop. *)
LEMMA ScanIs ==
    ASSUME NEW q \in Questions, q.op \in {"content", "source"}
    PROVE  \E g : /\ g[0] = NoResults
                  /\ \A i \in 1 .. Len(q.entries) : g[i] = ScanNext(q, g[i - 1], i)
                  /\ SearchContent(q) = g[Len(q.entries)]
<1> DEFINE N == Len(q.entries)
           Scan(h) == h = [i \in 0 .. N |-> IF i = 0 THEN NoResults ELSE
                              IF q.op = "content"
                              THEN ScanContent(h[i - 1], q.entries[i], i, Limit(q.limit))
                              ELSE ScanSource(h[i - 1], q.entries[i], i, Limit(q.limit))]
           R == (1 .. N) \X Nat
           step == [p \in SearchRecords(R) \X (1 .. N) |-> ScanNext(q, p[1], p[2])]
<1>1. q.entries \in Seq(SearchEntries) /\ N \in Nat /\ Limit(q.limit) \in Nat
  BY SearchAssumption DEF SearchEntries, Limit
<1>2. NoResults \in SearchRecords(R)
  BY DEF SearchRecords, NoResults
<1>3. step \in [SearchRecords(R) \X (1 .. N) -> SearchRecords(R)]
  <2> SUFFICES ASSUME NEW f \in SearchRecords(R), NEW i \in 1 .. N
               PROVE  ScanNext(q, f, i) \in SearchRecords(R)
    OBVIOUS
  <2>1. q.entries[i] \in SearchEntries /\ \A h \in Nat : <<i, h>> \in R
    BY <1>1
  <2> HIDE DEF R
  <2> QED
    BY <1>1, <2>1, ScanTyped DEF ScanNext
<1>4. PICK g \in [0 .. N -> SearchRecords(R)] :
         g[0] = NoResults /\ \A i \in 1 .. N : g[i] = step[<<g[i - 1], i>>]
  <2> DEFINE V == SearchRecords(R)
  <2>1. N \in Nat /\ NoResults \in V /\ step \in [V \X (1 .. N) -> V]
    BY <1>1, <1>2, <1>3
  <2> HIDE DEF step, V, N
  <2>2. FollowsStep(N, V, NoResults, step)
    <3>1. IsStep(N, V, NoResults, step)
      BY <2>1 DEF IsStep
    <3> QED
      BY <3>1, PrimitiveRecursion
  <2> QED
    BY <2>2 DEF V, FollowsStep
<1>5. \A i \in 1 .. N : g[i] = ScanNext(q, g[i - 1], i)
  <2> TAKE i \in 1 .. N
  <2>1. i - 1 \in 0 .. N
    BY <1>1
  <2>2. g[i - 1] \in SearchRecords(R)
    BY <2>1
  <2> HIDE DEF R
  <2> QED
    BY <1>4, <2>2
<1>6. Scan(g)
  <2>1. g = [i \in 0 .. N |-> g[i]]
    OBVIOUS
  <2>2. ASSUME NEW i \in 0 .. N
        PROVE  g[i] = IF i = 0 THEN NoResults ELSE
                         IF q.op = "content"
                         THEN ScanContent(g[i - 1], q.entries[i], i, Limit(q.limit))
                         ELSE ScanSource(g[i - 1], q.entries[i], i, Limit(q.limit))
    <3>1. CASE i = 0
      BY <1>4, <3>1
    <3>2. CASE i # 0
      <4>1. i \in 1 .. N
        BY <1>1, <3>2
      <4> QED
        BY <1>5, <3>2, <4>1 DEF ScanNext
    <3> QED
      BY <3>1, <3>2
  <2> HIDE DEF R, step
  <2> QED
    BY <2>1, <2>2, Zenon
<1> DEFINE f == CHOOSE h : Scan(h)
<1>7. Scan(f)
  <2> HIDE DEF Scan
  <2> QED
    BY <1>6, Zenon
<1>8. SearchContent(q) = f[N]
  BY DEF SearchContent
<1> HIDE DEF f
<1>9. f[0] = NoResults /\ \A i \in 1 .. N : f[i] = ScanNext(q, f[i - 1], i)
  <2>1. \A i \in 0 .. N : f[i] = IF i = 0 THEN NoResults ELSE ScanNext(q, f[i - 1], i)
    BY <1>7 DEF ScanNext
  <2> QED
    BY <1>1, <2>1
<1> QED
  BY <1>8, <1>9

-----------------------------------------------------------------------------
(* The questions that are answered in one step have the answer of it. *)
ApiAnswer(q) ==
    LET old == PublicClassApi(q.previous)
        new == PublicClassApi(q.current)
        common == {c \in DOMAIN old \cap DOMAIN new : ApiChanged(old[c], new[c])}
    IN [addedClasses |-> DOMAIN new \ DOMAIN old,
        removedClasses |-> DOMAIN old \ DOMAIN new,
        changed |-> [c \in common |-> ClassApiChange(old[c], new[c])]]

AInv ==
    /\ question \in Questions
    /\ Answered("content") \/ Answered("source") => answer = SearchContent(question)
    /\ Answered("sources") =>
          answer = [pairing |-> Pairing(question.classpath, question.there, question.broken)]
    /\ Answered("api") => answer = ApiAnswer(question)

(* question never changes once asked, and answer is set from it alone. *)
LEMMA AlwaysAInv == QuerySpec => []AInv
<1>1. QueryInit => AInv
  BY DEF QueryInit, AInv, Answered
<1>2. AInv /\ [QueryNext]_queryVars => AInv'
  <2> SUFFICES ASSUME AInv, [QueryNext]_queryVars PROVE AInv'
    OBVIOUS
  <2>1. question' = question
    BY DEF QueryNext, queryVars, ExamineEdge, NextParent, EndOfHierarchy, AnswerSearch,
           AnswerSources, AnswerDeclaration, AnswerApi
  <2>2. CASE AnswerSearch
    BY <2>1, <2>2 DEF AnswerSearch, Asked, AInv, Answered
  <2>3. CASE AnswerSources
    BY <2>1, <2>3 DEF AnswerSources, Asked, AInv, Answered
  <2>4. CASE AnswerApi
    <3>1. answer' = ApiAnswer(question) /\ question.op = "api"
      BY <2>4 DEF AnswerApi, Asked, ApiAnswer
    <3> QED
      BY <2>1, <3>1 DEF AInv, Answered
  <2>5. CASE answer' = answer
    BY <2>1, <2>5 DEF AInv, Answered
  <2>6. CASE question.op \in {"hierarchy", "declaration"}
    BY <2>1, <2>6 DEF AInv, Answered
  <2> QED
    BY <2>2, <2>3, <2>4, <2>5, <2>6 DEF QueryNext, queryVars, ExamineEdge, NextParent,
       EndOfHierarchy, AnswerDeclaration, Asked
<1> QED
  BY <1>1, <1>2, PTL DEF QuerySpec

(* The first n entries of a search: what there is to find in them, and     *)
(* their size.                                                             *)
HitsBelow(n) ==
    UNION {{<<i, h>> : h \in HitsOf(question.entries[i])} :
             i \in {j \in 1 .. n : Searched(question.entries[j])}}
Sizes == [i \in DOMAIN question.entries |-> question.entries[i].size]
SizeBelow(n) == SumFunctionOnSet(Sizes, 1 .. n)

(* One turn of the loop keeps the search honest about the entries so far. *)
LEMMA SearchStep ==
    ASSUME question \in Questions, question.op \in {"content", "source"},
           NEW n \in 0 .. (Len(question.entries) - 1), NEW f,
           SearchOK(f, Limit(question.limit), HitsBelow(n), SizeBelow(n)), SizeBelow(n) \in Nat
    PROVE  /\ SearchOK(ScanNext(question, f, n + 1), Limit(question.limit), HitsBelow(n + 1), SizeBelow(n + 1))
           /\ SizeBelow(n + 1) \in Nat
<1> DEFINE q == question
           limit == Limit(q.limit)
           e == q.entries[n + 1]
           H == HitsBelow(n)
           total == SizeBelow(n)
           Goal == /\ SearchOK(ScanNext(q, f, n + 1), limit, HitsBelow(n + 1), SizeBelow(n + 1))
                   /\ SizeBelow(n + 1) \in Nat
<1> SUFFICES Goal
  OBVIOUS
<1>1. q.entries \in Seq(SearchEntries) /\ limit \in Nat
  BY SearchAssumption DEF SearchEntries, Limit
<1>2. e \in SearchEntries /\ e.size \in Nat /\ n + 1 \in 1 .. Len(q.entries)
  <2>1. n + 1 \in 1 .. Len(q.entries) /\ e \in SearchEntries
    BY <1>1
  <2> QED
    BY <2>1 DEF SearchEntries
<1>3. \A k \in DOMAIN e.hits : e.hits[k] <= e.size
  BY <1>1, <1>2, SearchAssumption
<1>4. SizeBelow(n + 1) = total + e.size
  <2>1. ASSUME NEW i \in 1 .. (n + 1) PROVE Sizes[i] \in Nat
    <3>1. i \in DOMAIN q.entries /\ q.entries[i] \in SearchEntries
      BY <1>1, <1>2
    <3> QED
      BY <3>1 DEF Sizes, SearchEntries
  <2>2. SumFunctionOnSet(Sizes, 1 .. (n + 1)) = Sizes[n + 1] + SumFunctionOnSet(Sizes, 1 .. n)
    BY <2>1, SumToNext
  <2>3. Sizes[n + 1] = e.size
    BY <1>1, <1>2 DEF Sizes
  <2> QED
    BY <1>2, <2>2, <2>3 DEF SizeBelow
<1>5. HitsBelow(n + 1) = H \cup IF Searched(e) THEN {<<n + 1, h>> : h \in HitsOf(e)} ELSE {}
  BY DEF HitsBelow
<1>6. CASE q.op = "content"
  <2> DEFINE N == {<<n + 1, h>> : h \in IF e.utf8 /\ e.hits # <<>> THEN {Head(e.hits)} ELSE {}}
  <2>1. HitsBelow(n + 1) = H \cup N
    <3>1. CASE e.utf8 /\ e.hits # <<>>
      BY <1>5, <1>6, <3>1 DEF Searched, HitsOf
    <3>2. CASE ~(e.utf8 /\ e.hits # <<>>)
      BY <1>5, <1>6, <3>2 DEF Searched, HitsOf
    <3> QED
      BY <3>1, <3>2
  <2>2. ScanNext(q, f, n + 1) = ScanContent(f, e, n + 1, limit)
    BY <1>6 DEF ScanNext
  <2> HIDE DEF e, H, total, limit, q
  <2>3. SearchOK(ScanContent(f, e, n + 1, limit), limit, H \cup N, total + e.size)
    BY <1>1, <1>2, ContentStep DEF H, total, limit, q
  <2>4. total + e.size \in Nat
    BY <1>2 DEF total
  <2> QED
    BY <1>4, <2>1, <2>2, <2>3, <2>4
<1>7. CASE q.op = "source"
  <2> DEFINE N == {<<n + 1, h>> : h \in ToSet(e.hits)}
  <2>1. HitsBelow(n + 1) = H \cup N
    BY <1>5, <1>7 DEF Searched, HitsOf
  <2>2. ScanNext(q, f, n + 1) = ScanSource(f, e, n + 1, limit)
    BY <1>7 DEF ScanNext
  <2> HIDE DEF e, H, total, limit, q
  <2>3. SearchOK(ScanSource(f, e, n + 1, limit), limit, H \cup N, total + e.size)
    BY <1>1, <1>2, <1>3, SourceStep DEF H, total, limit, q
  <2>4. total + e.size \in Nat
    BY <1>2 DEF total
  <2> QED
    BY <1>4, <2>1, <2>2, <2>3, <2>4
<1> QED
  BY <1>6, <1>7

LEMMA SearchFollows ==
    ASSUME question \in Questions, question.op \in {"content", "source"}
    PROVE  SearchOK(SearchContent(question), Limit(question.limit),
                    HitsBelow(Len(question.entries)), SizeBelow(Len(question.entries)))
<1> DEFINE L == Len(question.entries)
           limit == Limit(question.limit)
<1>1. L \in Nat /\ limit \in Nat \ {0} /\ Budget \in Nat
  BY SearchAssumption DEF Limit, Budget
<1>2. PICK g : /\ g[0] = NoResults
               /\ \A i \in 1 .. L : g[i] = ScanNext(question, g[i - 1], i)
               /\ SearchContent(question) = g[L]
  BY ScanIs
<1> DEFINE T == {n \in 0 .. L : SearchOK(g[n], limit, HitsBelow(n), SizeBelow(n)) /\ SizeBelow(n) \in Nat}
<1>3. 0 \in T
  <2>1. SizeBelow(0) = 0
    BY SumOfNothing DEF SizeBelow
  <2>2. HitsBelow(0) = {}
    BY DEF HitsBelow
  <2>3. SearchOK(NoResults, limit, {}, 0)
    BY <1>1 DEF SearchOK, NoResults
  <2>4. SearchOK(g[0], limit, HitsBelow(0), SizeBelow(0)) /\ SizeBelow(0) \in Nat
    <3>1. g[0] = NoResults
      BY <1>2
    <3> HIDE DEF limit
    <3>2. SearchOK(g[0], limit, HitsBelow(0), SizeBelow(0))
      BY <2>1, <2>2, <2>3, <3>1, Zenon
    <3>3. SizeBelow(0) \in Nat
      BY <2>1
    <3> QED
      BY <3>2, <3>3
  <2> QED
    BY <1>1, <2>4
<1>4. ASSUME NEW n \in 0 .. (L - 1), n \in T
      PROVE  n + 1 \in T
  <2>1. n + 1 \in 1 .. L /\ n + 1 \in 0 .. L /\ n = (n + 1) - 1
    BY <1>1
  <2>2. g[n + 1] = ScanNext(question, g[n], n + 1)
    BY <1>2, <2>1
  <2>3. /\ SearchOK(ScanNext(question, g[n], n + 1), limit, HitsBelow(n + 1), SizeBelow(n + 1))
        /\ SizeBelow(n + 1) \in Nat
    BY <1>4, SearchStep
  <2> QED
    BY <2>1, <2>2, <2>3
<1>5. L \in T
  <2> HIDE DEF T
  <2>1. 0 .. L \subseteq T
    BY <1>1, <1>3, <1>4, IntervalInduction
  <2> QED
    BY <1>1, <2>1
<1> QED
  BY <1>2, <1>5

LEMMA SearchedHonestly == AInv => SearchesHonest
<1> SUFFICES ASSUME AInv, Answered("content") \/ Answered("source")
             PROVE  LET total == SumFunction([i \in DOMAIN question.entries |-> question.entries[i].size]) IN
                    /\ ToSet(answer.results) \subseteq AllHits
                    /\ Len(answer.results) <= Limit(question.limit)
                    /\ answer.scanned <= Budget
                    /\ ~answer.incomplete => ToSet(answer.results) = AllHits
                    /\ answer.incomplete =>
                         \/ Len(answer.results) = Limit(question.limit)
                         \/ answer.scanned < total
  BY DEF SearchesHonest
<1> DEFINE L == Len(question.entries)
<1>1. question \in Questions /\ question.op \in {"content", "source"} /\ answer = SearchContent(question)
  BY DEF AInv, Answered
<1>2. SearchOK(answer, Limit(question.limit), HitsBelow(L), SizeBelow(L))
  BY <1>1, SearchFollows
<1>3. DOMAIN question.entries = 1 .. L
  BY <1>1, SearchAssumption
<1>4. HitsBelow(L) = AllHits
  BY <1>3 DEF HitsBelow, AllHits
<1>5. SizeBelow(L) = SumFunction([i \in DOMAIN question.entries |-> question.entries[i].size])
  BY <1>3 DEF SizeBelow, SumFunction, Sizes
<1>6. answer.results \in Seq(AllHits)
  BY <1>2, <1>4 DEF SearchOK
<1>7. ToSet(answer.results) \subseteq AllHits
  BY <1>6 DEF ToSet
<1>8. ~answer.incomplete => ToSet(answer.results) = AllHits
  <2>1. ~answer.incomplete => \A h \in AllHits : \E i \in 1 .. Len(answer.results) : answer.results[i] = h
    BY <1>2, <1>4 DEF SearchOK
  <2>2. DOMAIN answer.results = 1 .. Len(answer.results)
    BY <1>6
  <2>3. ToSet(answer.results) = {answer.results[i] : i \in 1 .. Len(answer.results)}
    BY <2>2 DEF ToSet
  <2> QED
    BY <1>7, <2>1, <2>3
<1>9. /\ Len(answer.results) <= Limit(question.limit) /\ answer.scanned <= Budget
      /\ answer.incomplete => Len(answer.results) = Limit(question.limit) \/ answer.scanned < SizeBelow(L)
  BY <1>2 DEF SearchOK
<1> QED
  BY <1>5, <1>7, <1>8, <1>9

(* search_jar_content, search_source: for every archive, limit and budget,   *)
(* each result exists, the bytes read stay within the budget, and an answer  *)
(* without incomplete has missed nothing.                                    *)
THEOREM SearchesHonestHolds == QuerySpec => []SearchesHonest
BY AlwaysAInv, SearchedHonestly, PTL

-----------------------------------------------------------------------------
(* The sources archives of a classpath. *)
Sources == <<"sources">>
TestSources == <<"test", "sources">>
Ordinary(c) == ~IsSources(c) /\ c # <<>> /\ c # <<"tests">>

CandidatesOf(c) ==
    /\ IsSources(c) => SourceJarCandidates(c) = <<>>
    /\ c = <<>> => SourceJarCandidates(c) = <<Sources>>
    /\ c = <<"tests">> => SourceJarCandidates(c) = <<TestSources>>
    /\ Ordinary(c) => SourceJarCandidates(c) = <<Append(c, "sources"), Sources>>
    /\ IsSources(c) \/ c = <<>> \/ c = <<"tests">> \/ Ordinary(c)
    /\ IsSources(c) => c # <<>> /\ c # <<"tests">>

FirstOf(c, there) ==
    /\ IsSources(c) => FirstThere(c, there) = {}
    /\ c = <<>> => FirstThere(c, there) = {Sources} \cap there
    /\ c = <<"tests">> => FirstThere(c, there) = {TestSources} \cap there
    /\ Ordinary(c) => FirstThere(c, there) =
          IF Append(c, "sources") \in there THEN {Append(c, "sources")} ELSE {Sources} \cap there

LEMMA Candidates ==
    ASSUME NEW c
    PROVE  CandidatesOf(c)
<1>1. IsSources(c) => c # <<>> /\ c # <<"tests">>
  BY DEF IsSources, Last
<1>2. ~IsSources(<<>>) /\ ~IsSources(<<"tests">>)
  BY DEF IsSources, Last
<1> QED
  BY <1>1, <1>2 DEF CandidatesOf, SourceJarCandidates, Sources, TestSources, Ordinary

LEMMA FirstIs ==
    ASSUME NEW c, NEW there
    PROVE  FirstOf(c, there)
<1>0. CandidatesOf(c)
  BY Candidates
<1>1. FirstThere(c, there) =
         {SourceJarCandidates(c)[i] : i \in {j \in DOMAIN SourceJarCandidates(c) :
            /\ SourceJarCandidates(c)[j] \in there
            /\ \A k \in 1 .. (j - 1) : SourceJarCandidates(c)[k] \notin there}}
  BY DEF FirstThere
<1>2. CASE IsSources(c)
  BY <1>1, <1>2, <1>0 DEF CandidatesOf, FirstOf, Ordinary
<1>3. ASSUME NEW x, SourceJarCandidates(c) = <<x>>
      PROVE  FirstThere(c, there) = {x} \cap there
  BY <1>1, <1>3
<1>4. CASE c = <<>>
  BY <1>0, <1>3, <1>4 DEF CandidatesOf, FirstOf, Ordinary
<1>5. CASE c = <<"tests">>
  BY <1>0, <1>3, <1>5 DEF CandidatesOf, FirstOf, Ordinary
<1>6. CASE Ordinary(c)
  <2> DEFINE x == Append(c, "sources")
             s == SourceJarCandidates(c)
  <2> HIDE DEF x, s
  <2>1. s = <<x, Sources>>
    BY <1>0, <1>6 DEF CandidatesOf, x, s
  <2>2. DOMAIN s = {1, 2} /\ s[1] = x /\ s[2] = Sources
    BY <2>1
  <2>3. FirstThere(c, there) = {s[i] : i \in {j \in {1, 2} :
            s[j] \in there /\ \A k \in 1 .. (j - 1) : s[k] \notin there}}
    BY <1>1, <2>2 DEF s
  <2>4. CASE x \in there
    <3>1. {j \in {1, 2} : s[j] \in there /\ \A k \in 1 .. (j - 1) : s[k] \notin there} = {1}
      BY <2>2, <2>4
    <3> QED
      BY <1>6, <2>2, <2>3, <2>4, <3>1 DEF x, Ordinary, FirstOf
  <2>5. CASE x \notin there
    <3>1. {j \in {1, 2} : s[j] \in there /\ \A k \in 1 .. (j - 1) : s[k] \notin there}
             = {j \in {2} : Sources \in there}
      BY <2>2, <2>5
    <3> QED
      BY <1>6, <2>2, <2>3, <2>5, <3>1 DEF x, Ordinary, FirstOf
  <2> QED
    BY <2>4, <2>5
<1> QED
  BY <1>2, <1>4, <1>5, <1>6, <1>0 DEF CandidatesOf

(* Whose sources an archive has. *)
LEMMA Documented ==
    ASSUME NEW W, {"test", "tests", "sources"} \subseteq W
    PROVE
    /\ IsSources(Sources) /\ DocumentedClassifier(Sources) = <<>>
    /\ IsSources(TestSources) /\ DocumentedClassifier(TestSources) = <<"tests">>
    /\ \A c \in Seq(W) : c # <<"test">> =>
          IsSources(Append(c, "sources")) /\ DocumentedClassifier(Append(c, "sources")) = c
    /\ Append(<<"test">>, "sources") = TestSources
    /\ \A s \in Seq(W) : IsSources(s) /\ DocumentedClassifier(s) = <<>> => s = Sources
<1>1. Sources # TestSources /\ Len(Sources) = 1 /\ Sources \in Seq(W)
  <2>1. Len(Sources) = 1 /\ Len(TestSources) = 2
    BY DEF Sources, TestSources
  <2>2. Sources \in Seq(W)
    BY DEF Sources
  <2> QED
    BY <2>1, <2>2
<1>2. IsSources(Sources) /\ DocumentedClassifier(Sources) = <<>>
  BY <1>1 DEF IsSources, Last, Sources, DocumentedClassifier, Front, TestSources
<1>3. IsSources(TestSources) /\ DocumentedClassifier(TestSources) = <<"tests">>
  BY DEF IsSources, Last, TestSources, DocumentedClassifier
<1>4. ASSUME NEW c \in Seq(W), c # <<"test">>
      PROVE  IsSources(Append(c, "sources")) /\ DocumentedClassifier(Append(c, "sources")) = c
  <2> DEFINE a == Append(c, "sources")
  <2>1. a \in Seq(W) /\ Len(a) = Len(c) + 1 /\ a[Len(a)] = "sources"
        /\ \A i \in 1 .. Len(c) : a[i] = c[i]
    <3>1. "sources" \in W
      OBVIOUS
    <3> QED
      BY <3>1
  <2>2. SubSeq(a, 1, Len(a) - 1) = c
    BY <2>1
  <2>3. a # <<"test", "sources">>
    <3>1. SUFFICES ASSUME a = <<"test", "sources">>
                   PROVE  c = <<"test">>
      BY <1>4
    <3>2. Len(<<"test", "sources">>) = 2 /\ <<"test", "sources">>[1] = "test"
      OBVIOUS
    <3> HIDE DEF a
    <3>3. Len(c) = 1
      <4>1. Len(a) = 2 /\ Len(c) \in Nat
        BY <3>1, <3>2
      <4>2. Len(a) = Len(c) + 1
        BY <2>1
      <4>3. \A n \in Nat : 2 = n + 1 => n = 1
        OBVIOUS
      <4> QED
        BY <4>1, <4>2, <4>3
    <3>4. c[1] = "test"
      BY <2>1, <3>1, <3>2, <3>3
    <3> QED
      BY <3>3, <3>4
  <2> HIDE DEF a
  <2>4. IsSources(a)
    BY <2>1 DEF IsSources, Last
  <2>5. DocumentedClassifier(a) = c
    BY <2>2, <2>3 DEF DocumentedClassifier, Front
  <2> QED
    BY <2>4, <2>5 DEF a
<1>5. Append(<<"test">>, "sources") = TestSources
  BY SeqOfTwo DEF TestSources
<1>6. ASSUME NEW s \in Seq(W), IsSources(s), DocumentedClassifier(s) = <<>>
      PROVE  s = Sources
  <2>1. s # <<>> /\ s[Len(s)] = "sources" /\ SubSeq(s, 1, Len(s) - 1) = <<>>
    <3>1. s # <<>> /\ s[Len(s)] = "sources"
      BY <1>6 DEF IsSources, Last
    <3>2. <<"tests">> # <<>>
      OBVIOUS
    <3>3. SubSeq(s, 1, Len(s) - 1) = <<>>
      BY <1>6, <3>2 DEF DocumentedClassifier, Front
    <3> QED
      BY <3>1, <3>3
  <2>2. Len(s) = 1
    <3>1. Len(s) \in Nat \ {0} /\ Len(SubSeq(s, 1, Len(s) - 1)) = Len(s) - 1
      BY <2>1, SeqFront
    <3>2. Len(<<>>) = 0 /\ \A n \in Nat : 0 = n - 1 => n = 1
      OBVIOUS
    <3> QED
      BY <2>1, <3>1, <3>2
  <2> QED
    BY <2>1, <2>2 DEF Sources
<1> QED
  BY <1>2, <1>3, <1>4, <1>5, <1>6

(* A sources archive that is indexed is a candidate of what it documents. *)
LEMMA IndexedIsCandidate ==
    ASSUME NEW W, {"test", "tests", "sources"} \subseteq W,
           NEW cp, cp \subseteq Seq(W), NEW there, cp \subseteq there, NEW broken,
           \A c, d \in cp : IsSources(d) /\ DocumentedClassifier(d) = c =>
                               d \in ToSet(SourceJarCandidates(c)),
           NEW c \in cp, NEW s \in IndexedJars(cp, there, broken),
           IsSources(s), DocumentedClassifier(s) = c
    PROVE  s \in ToSet(SourceJarCandidates(c)) /\ s \in there \ broken
<1>1. s \notin broken /\ (s \in cp \/ \E d \in cp : s \in FirstThere(d, there))
  BY DEF IndexedJars
<1>2. CASE s \in cp
  BY <1>1, <1>2
<1>3. ASSUME NEW d \in cp, s \in FirstThere(d, there)
      PROVE  s \in ToSet(SourceJarCandidates(c)) /\ s \in there
  <2>1. s \in there
    BY <1>3 DEF FirstThere
  <2>2. c \in Seq(W) /\ d \in Seq(W) /\ CandidatesOf(c) /\ CandidatesOf(d) /\ FirstOf(d, there)
    BY Candidates, FirstIs
  <2>3. s = Sources \/ s = TestSources \/ (s = Append(d, "sources") /\ Ordinary(d))
    <3>1. CASE IsSources(d)
      BY <1>3, <2>2, <3>1 DEF FirstOf
    <3>2. CASE d = <<>>
      <4>1. FirstThere(d, there) = {Sources} \cap there
        BY <2>2, <3>2 DEF FirstOf
      <4> QED
        BY <1>3, <4>1
    <3>3. CASE d = <<"tests">>
      <4>1. FirstThere(d, there) = {TestSources} \cap there
        BY <2>2, <3>3 DEF FirstOf
      <4> QED
        BY <1>3, <4>1
    <3>4. CASE Ordinary(d)
      BY <1>3, <2>2, <3>4 DEF FirstOf
    <3> QED
      BY <2>2, <3>1, <3>2, <3>3, <3>4 DEF CandidatesOf
  <2>4. CASE s = Sources
    <3>1. SourceJarCandidates(c) = <<Sources>>
      BY <2>2, <2>4, Documented DEF CandidatesOf
    <3> QED
      BY <2>1, <2>4, <3>1 DEF ToSet
  <2>5. CASE s = TestSources
    <3>1. SourceJarCandidates(c) = <<TestSources>>
      BY <2>2, <2>5, Documented DEF CandidatesOf
    <3> QED
      BY <2>1, <2>5, <3>1 DEF ToSet
  <2>6. CASE s = Append(d, "sources") /\ Ordinary(d) /\ d = <<"test">>
    BY <2>5, <2>6, Documented
  <2>7. CASE s = Append(d, "sources") /\ Ordinary(d) /\ d # <<"test">>
    <3>1. d = c
      BY <2>2, <2>7, Documented
    <3>2. SourceJarCandidates(c) = <<Append(c, "sources"), Sources>>
      BY <2>2, <2>7, <3>1 DEF CandidatesOf
    <3> QED
      BY <2>1, <2>7, <3>1, <3>2 DEF ToSet
  <2> QED
    BY <2>3, <2>4, <2>5, <2>6, <2>7
<1> QED
  BY <1>1, <1>2, <1>3

Classpath(W, cp, there) ==
    /\ {"test", "tests", "sources"} \subseteq W /\ cp \subseteq Seq(W) /\ cp \subseteq there
    /\ \A c, d \in cp : IsSources(d) /\ DocumentedClassifier(d) = c =>
                               d \in ToSet(SourceJarCandidates(c))

PairRight(c, cp, there, broken) ==
    LET published == FirstThere(c, there) \ broken
        pair == SourceJarOf(c, IndexedJars(cp, there, broken))
    IN IF published = {} THEN pair \subseteq {Sources} ELSE pair = published

LEMMA PairedRight ==
    ASSUME NEW W, NEW cp, NEW there, NEW broken, Classpath(W, cp, there), NEW c \in cp, c # <<"test">>
    PROVE  PairRight(c, cp, there, broken)
<1>0. /\ {"test", "tests", "sources"} \subseteq W /\ cp \subseteq Seq(W) /\ cp \subseteq there
      /\ \A x, d \in cp : IsSources(d) /\ DocumentedClassifier(d) = x =>
                                d \in ToSet(SourceJarCandidates(x))
  BY DEF Classpath
<1> DEFINE Ix == IndexedJars(cp, there, broken)
           published == FirstThere(c, there) \ broken
           pair == SourceJarOf(c, Ix)
           Goal == IF published = {} THEN pair \subseteq {Sources} ELSE pair = published
           Doc(d) == {s \in Ix : IsSources(s) /\ DocumentedClassifier(s) = d}
<1> SUFFICES Goal
  BY DEF PairRight
<1>1. pair = IF c \in {<<>>, <<"tests">>} \/ Doc(c) # {} THEN Doc(c) ELSE Doc(<<>>)
  BY DEF SourceJarOf
<1>2. published \subseteq Ix
  BY DEF IndexedJars
<1>3. \A s \in Ix : IsSources(s) /\ DocumentedClassifier(s) = c =>
         s \in ToSet(SourceJarCandidates(c)) /\ s \in there \ broken
  BY <1>0, IndexedIsCandidate
<1>4. c \in Seq(W) /\ CandidatesOf(c) /\ FirstOf(c, there)
  BY <1>0, Candidates, FirstIs
<1>5. Ix \subseteq Seq(W)
  <2>1. ASSUME NEW d \in cp
        PROVE  FirstThere(d, there) \subseteq Seq(W)
    <3>1. d \in Seq(W) /\ Append(d, "sources") \in Seq(W) /\ Sources \in Seq(W) /\ TestSources \in Seq(W)
      BY <1>0 DEF Sources, TestSources
    <3>2. CandidatesOf(d) /\ FirstOf(d, there)
      BY Candidates, FirstIs
    <3> QED
      BY <3>1, <3>2 DEF CandidatesOf, FirstOf
  <2> QED
    BY <1>0, <2>1 DEF IndexedJars
<1>6. Doc(<<>>) \subseteq {Sources}
  BY <1>0, <1>5, Documented
<1>7. Sources \in Ix => Doc(<<>>) = {Sources}
  BY <1>0, <1>6, Documented
<1> HIDE DEF Ix
<1>8. ASSUME NEW x, SourceJarCandidates(c) = <<x>>, FirstThere(c, there) = {x} \cap there,
             IsSources(x), DocumentedClassifier(x) = c
      PROVE  Doc(c) = published
  <2>1. Doc(c) \subseteq {x} \cap (there \ broken)
    BY <1>3, <1>8 DEF ToSet
  <2>2. published = {x} \cap (there \ broken)
    BY <1>8
  <2> QED
    BY <1>2, <1>8, <2>1, <2>2
<1> HIDE DEF published, pair, Doc
<1>9. CASE c = <<>>
  <2>1. Doc(c) = published
    BY <1>4, <1>8, <1>9, <1>0, Documented DEF CandidatesOf, FirstOf
  <2> QED
    BY <1>1, <1>9, <2>1
<1>10. CASE c = <<"tests">>
  <2>1. Doc(c) = published
    BY <1>4, <1>8, <1>10, <1>0, Documented DEF CandidatesOf, FirstOf
  <2> QED
    BY <1>1, <1>10, <2>1
<1>11. CASE IsSources(c)
  <2>1. Doc(c) = {} /\ published = {}
    BY <1>3, <1>4, <1>11 DEF CandidatesOf, FirstOf, ToSet, Doc, published
  <2> QED
    BY <1>1, <1>4, <1>6, <1>11, <2>1 DEF CandidatesOf
<1>12. CASE Ordinary(c)
  <2> DEFINE a == Append(c, "sources")
  <2>1. SourceJarCandidates(c) = <<a, Sources>>
        /\ FirstThere(c, there) = IF a \in there THEN {a} ELSE {Sources} \cap there
    BY <1>4, <1>12 DEF CandidatesOf, FirstOf
  <2>2. IsSources(a) /\ DocumentedClassifier(a) = c
    BY <1>0, <1>4, Documented
  <2>3. DocumentedClassifier(Sources) # c /\ c # <<>> /\ c # <<"tests">>
    BY <1>0, <1>12, Documented DEF Ordinary
  <2> HIDE DEF a
  <2>4. Doc(c) \subseteq {a} \cap (there \ broken)
    <3> SUFFICES ASSUME NEW s \in Doc(c)
                 PROVE  s = a /\ s \in there \ broken
      BY Zenon
    <3>1. s \in ToSet(SourceJarCandidates(c)) /\ s \in there \ broken
      BY <1>3 DEF Doc
    <3>2. s = a \/ s = Sources
      BY <2>1, <3>1 DEF ToSet
    <3> QED
      BY <2>3, <3>1, <3>2 DEF Doc
  <2>5. CASE a \in there
    <3>1. published = {a} \ broken /\ {a} \ broken \subseteq Ix
      BY <1>2, <2>1, <2>5 DEF published
    <3>2. Doc(c) = {a} \ broken
      BY <2>2, <2>4, <3>1 DEF Doc
    <3>3. CASE a \in broken
      BY <1>1, <1>6, <3>1, <3>2, <3>3
    <3>4. CASE a \notin broken
      BY <1>1, <3>1, <3>2, <3>4
    <3> QED
      BY <3>3, <3>4
  <2>6. CASE a \notin there
    <3>1. Doc(c) = {} /\ published = {Sources} \cap (there \ broken)
      BY <2>1, <2>4, <2>6 DEF published
    <3> QED
      BY <1>1, <1>2, <1>6, <1>7, <2>3, <3>1
  <2> QED
    BY <2>5, <2>6
<1> QED
  BY <1>4, <1>9, <1>10, <1>11, <1>12 DEF CandidatesOf

LEMMA NotStamped ==
    ASSUME NEW cp, NEW there, NEW broken, NEW s, \A d \in cp : s \notin SourceJarStampPaths(d)
    PROVE  Pairing(cp, there \ {s}, broken) = Pairing(cp, there, broken)
<1>1. ASSUME NEW d \in cp
      PROVE  FirstThere(d, there \ {s}) = FirstThere(d, there)
  <2> DEFINE k == SourceJarCandidates(d)
  <2>1. \A i \in DOMAIN k : k[i] # s
    BY DEF SourceJarStampPaths, ToSet
  <2>2. ASSUME NEW j \in DOMAIN k
        PROVE  (k[j] \in there \ {s} /\ \A i \in 1 .. (j - 1) : k[i] \notin there \ {s})
                 <=> (k[j] \in there /\ \A i \in 1 .. (j - 1) : k[i] \notin there)
    <3>1. j \in Nat /\ \A i \in 1 .. (j - 1) : i \in DOMAIN k
      <4>1. k = <<>> \/ (\E x : k = <<x>>) \/ (\E x, y : k = <<x, y>>)
        BY DEF SourceJarCandidates
      <4>2. DOMAIN k = {} \/ DOMAIN k = {1} \/ DOMAIN k = {1, 2}
        BY <4>1
      <4> HIDE DEF k
      <4> QED
        BY <4>2
    <3> QED
      BY <2>1, <3>1
  <2> QED
    BY <2>2 DEF FirstThere
<1>2. IndexedJars(cp, there \ {s}, broken) = IndexedJars(cp, there, broken)
  BY <1>1 DEF IndexedJars
<1> QED
  BY <1>2 DEF Pairing

LEMMA PairedWithSources == AInv => SourcesPaired
<1> SUFFICES ASSUME AInv, Answered("sources")
             PROVE  SourcesPaired
  BY DEF SourcesPaired
<1> DEFINE cp == question.classpath
           there == question.there
           broken == question.broken
           W == {"test", "tests", "sources"} \cup UNION {ToSet(c) : c \in cp}
<1>1. question \in Questions /\ question.op = "sources"
      /\ answer.pairing = Pairing(cp, there, broken)
  BY DEF AInv, Answered
<1>2. cp \subseteq there /\ (\A c \in cp : c \in Seq(ToSet(c)))
      /\ \A c, d \in cp : IsSources(d) /\ DocumentedClassifier(d) = c =>
            d \in ToSet(SourceJarCandidates(c))
  BY <1>1, SourcesAssumption
<1>3. cp \subseteq Seq(W)
  <2> SUFFICES ASSUME NEW c \in cp PROVE c \in Seq(W)
    OBVIOUS
  <2>1. c \in Seq(ToSet(c)) /\ ToSet(c) \subseteq W
    BY <1>2
  <2> HIDE DEF W
  <2> QED
    BY <2>1
<1>4. {"test", "tests", "sources"} \subseteq W
  OBVIOUS
<1>5. ASSUME NEW c \in cp \ {<<"test">>}
      PROVE  LET published == FirstThere(c, there) \ broken
             IN IF published = {} THEN answer.pairing[c] \subseteq {<<"sources">>}
                ELSE answer.pairing[c] = published
  <2>1. answer.pairing[c] = SourceJarOf(c, IndexedJars(cp, there, broken))
    BY <1>1 DEF Pairing
  <2> HIDE DEF cp, there, broken, W
  <2>2. Classpath(W, cp, there)
    BY <1>2, <1>3, <1>4 DEF Classpath
  <2>3. PairRight(c, cp, there, broken)
    BY <1>5, <2>2, PairedRight
  <2> QED
    BY <2>1, <2>3, Zenon DEF PairRight, Sources
<1>6. ASSUME NEW c \in cp, NEW s, \A d \in cp : s \notin SourceJarStampPaths(d)
      PROVE  answer.pairing[c] = Pairing(cp, there \ {s}, broken)[c]
  <2> HIDE DEF cp, there, broken, W
  <2>1. Pairing(cp, there \ {s}, broken) = Pairing(cp, there, broken)
    BY <1>6, NotStamped
  <2> QED
    BY <1>1, <2>1
<1> QED
  BY <1>5, <1>6 DEF SourcesPaired

(* SourceJarPairing: for every classpath and whatever sources exist or cannot *)
(* be opened, an archive gets the sources published for it or those of its    *)
(* artifact, and other sources always come with another stamp.                *)
THEOREM SourcesPairedHolds == QuerySpec => []SourcesPaired
BY AlwaysAInv, PairedWithSources, PTL

-----------------------------------------------------------------------------
(* The difference of two APIs. *)

Selects(jar, c, selected, e) ==
    IF e.class = c /\ Competes(jar, e) /\ (selected = <<>> \/ Supersedes(selected[1], e))
    THEN <<e>> ELSE selected

(* g[i] is what the first i entries select for a class. *)
SelectsFor(jar, c, g) ==
    /\ g[0] = <<>>
    /\ \A i \in 1 .. Len(jar.entries) : g[i] = Selects(jar, c, g[i - 1], jar.entries[i])

LEMMA SelectExists ==
    ASSUME NEW jar, jar.entries \in Seq(ToSet(jar.entries)), NEW c
    PROVE  \E g \in [0 .. Len(jar.entries) -> Seq(ToSet(jar.entries))] : SelectsFor(jar, c, g)
<1> DEFINE N == Len(jar.entries)
           S == ToSet(jar.entries)
           V == Seq(S)
           step == [p \in V \X (1 .. N) |-> Selects(jar, c, p[1], jar.entries[p[2]])]
<1>1. N \in Nat /\ <<>> \in V
  OBVIOUS
<1>2. step \in [V \X (1 .. N) -> V]
  <2> SUFFICES ASSUME NEW v \in V, NEW i \in 1 .. N
               PROVE  Selects(jar, c, v, jar.entries[i]) \in V
    OBVIOUS
  <2>1. jar.entries[i] \in S
    OBVIOUS
  <2>2. <<jar.entries[i]>> \in V
    BY <2>1, SeqOfOne
  <2> QED
    BY <2>2 DEF Selects
<1>3. PICK g \in [0 .. N -> V] :
         g[0] = <<>> /\ \A i \in 1 .. N : g[i] = step[<<g[i - 1], i>>]
  <2> HIDE DEF N, V, step
  <2>1. IsStep(N, V, <<>>, step)
    BY <1>1, <1>2 DEF IsStep
  <2>2. FollowsStep(N, V, <<>>, step)
    BY <2>1, PrimitiveRecursion
  <2> QED
    BY <2>2 DEF FollowsStep
<1>4. ASSUME NEW i \in 1 .. N
      PROVE  g[i] = Selects(jar, c, g[i - 1], jar.entries[i])
  <2>1. i - 1 \in 0 .. N
    BY <1>1
  <2>2. g[i - 1] \in V
    BY <2>1
  <2> HIDE DEF V
  <2> QED
    BY <1>3, <2>2
<1> QED
  BY <1>3, <1>4 DEF SelectsFor

LEMMA SelectIs ==
    ASSUME NEW jar, jar.entries \in Seq(ToSet(jar.entries)), NEW c
    PROVE  \E f : SelectsFor(jar, c, f) /\ SelectedEntry(jar, c) = f[Len(jar.entries)]
<1> DEFINE N == Len(jar.entries)
           Sel(h) == h = [i \in 0 .. N |->
                        IF i = 0 THEN <<>>
                        ELSE LET e == jar.entries[i]
                                 selected == h[i - 1] IN
                             IF e.class = c /\ Competes(jar, e)
                                /\ (selected = <<>> \/ Supersedes(selected[1], e))
                             THEN <<e>> ELSE selected]
<1>0. N \in Nat
  OBVIOUS
<1>1. PICK g \in [0 .. N -> Seq(ToSet(jar.entries))] : SelectsFor(jar, c, g)
  BY SelectExists
<1>2. Sel(g)
  <2>1. g = [i \in 0 .. N |-> g[i]]
    OBVIOUS
  <2>2. ASSUME NEW i \in 0 .. N
        PROVE  g[i] = IF i = 0 THEN <<>>
                      ELSE LET e == jar.entries[i]
                               selected == g[i - 1] IN
                           IF e.class = c /\ Competes(jar, e)
                              /\ (selected = <<>> \/ Supersedes(selected[1], e))
                           THEN <<e>> ELSE selected
    <3>1. CASE i = 0
      BY <1>1, <3>1 DEF SelectsFor
    <3>2. CASE i # 0
      <4>1. i \in 1 .. N
        BY <1>0, <3>2
      <4> QED
        BY <1>1, <3>2, <4>1 DEF SelectsFor, Selects
    <3> QED
      BY <3>1, <3>2
  <2> QED
    BY <2>1, <2>2, Zenon
<1> DEFINE f == CHOOSE x : Sel(x)
<1>4. Sel(f)
  <2> HIDE DEF Sel
  <2> QED
    BY <1>2, Zenon
<1>5. SelectedEntry(jar, c) = f[N]
  BY DEF SelectedEntry
<1> HIDE DEF f
<1>6. SelectsFor(jar, c, f)
  <2>1. \A i \in 0 .. N : f[i] = IF i = 0 THEN <<>>
                                 ELSE Selects(jar, c, f[i - 1], jar.entries[i])
    BY <1>4 DEF Selects
  <2> HIDE DEF Sel
  <2>2. f[0] = <<>>
    BY <1>0, <2>1
  <2>3. ASSUME NEW i \in 1 .. N
        PROVE  f[i] = Selects(jar, c, f[i - 1], jar.entries[i])
    BY <1>0, <2>1
  <2> QED
    BY <2>2, <2>3 DEF SelectsFor
<1> QED
  BY <1>5, <1>6

(* The entry that a class has: the one with the highest version of those   *)
(* that compete.                                                           *)
Wins(jar, c, e) ==
    /\ e \in ToSet(jar.entries) /\ e.class = c /\ Competes(jar, e)
    /\ \A o \in ToSet(jar.entries) : o.class = c /\ Competes(jar, o) => o.version <= e.version

SelectedUpto(jar, c, n, s) ==
    \/ /\ s = <<>>
       /\ \A k \in 1 .. n : ~(jar.entries[k].class = c /\ Competes(jar, jar.entries[k]))
    \/ \E i \in 1 .. n :
          /\ s = <<jar.entries[i]>> /\ jar.entries[i].class = c /\ Competes(jar, jar.entries[i])
          /\ \A k \in 1 .. n : jar.entries[k].class = c /\ Competes(jar, jar.entries[k])
                                  => jar.entries[k].version <= jar.entries[i].version

LEMMA SelectStep ==
    ASSUME NEW jar, NEW c, NEW n \in Nat, NEW s, SelectedUpto(jar, c, n, s),
           \A k \in 1 .. (n + 1) : jar.entries[k].version \in Nat
    PROVE  SelectedUpto(jar, c, n + 1, Selects(jar, c, s, jar.entries[n + 1]))
<1> DEFINE e == jar.entries[n + 1]
           Runs(x) == x.class = c /\ Competes(jar, x)
           t == Selects(jar, c, s, e)
<1>0. \A k \in 1 .. (n + 1) : k \in 1 .. n \/ k = n + 1
  OBVIOUS
<1>00. (n + 1) \in 1 .. (n + 1) /\ \A k \in 1 .. n : k \in 1 .. (n + 1)
  OBVIOUS
<1>1. CASE ~Runs(e)
  <2>1. t = s
    BY <1>1 DEF Selects
  <2>2. CASE s = <<>> /\ \A k \in 1 .. n : ~Runs(jar.entries[k])
    BY <1>0, <1>1, <2>1, <2>2 DEF SelectedUpto
  <2>3. ASSUME NEW i \in 1 .. n, s = <<jar.entries[i]>>, Runs(jar.entries[i]),
               \A k \in 1 .. n : Runs(jar.entries[k]) => jar.entries[k].version <= jar.entries[i].version
        PROVE  SelectedUpto(jar, c, n + 1, t)
    <3>1. \A k \in 1 .. (n + 1) : Runs(jar.entries[k]) => jar.entries[k].version <= jar.entries[i].version
      BY <1>0, <1>1, <2>3
    <3> QED
      BY <1>00, <2>1, <2>3, <3>1 DEF SelectedUpto
  <2> QED
    BY <2>2, <2>3 DEF SelectedUpto
<1>2. CASE Runs(e) /\ s = <<>>
  <2>1. t = <<e>>
    BY <1>2 DEF Selects
  <2>2. \A k \in 1 .. n : ~Runs(jar.entries[k])
    BY <1>2 DEF SelectedUpto
  <2>3. \A k \in 1 .. (n + 1) : Runs(jar.entries[k]) => jar.entries[k].version <= e.version
    BY <1>0, <1>00, <2>2
  <2> QED
    BY <1>00, <1>2, <2>1, <2>3 DEF SelectedUpto
<1>3. CASE Runs(e) /\ s # <<>>
  <2>1. PICK i \in 1 .. n :
           /\ s = <<jar.entries[i]>> /\ Runs(jar.entries[i])
           /\ \A k \in 1 .. n : Runs(jar.entries[k]) => jar.entries[k].version <= jar.entries[i].version
    BY <1>3 DEF SelectedUpto
  <2>2. s[1] = jar.entries[i] /\ jar.entries[i].version \in Nat /\ e.version \in Nat
    BY <1>00, <2>1
  <2>3. CASE e.version > jar.entries[i].version
    <3>1. t = <<e>>
      BY <1>3, <2>2, <2>3 DEF Selects, Supersedes
    <3>2. ASSUME NEW k \in 1 .. (n + 1), Runs(jar.entries[k])
          PROVE  jar.entries[k].version <= e.version
      <4>1. jar.entries[k].version \in Nat
        OBVIOUS
      <4>2. k \in 1 .. n => jar.entries[k].version <= jar.entries[i].version
        BY <2>1, <3>2
      <4> QED
        BY <1>0, <2>2, <2>3, <4>1, <4>2
    <3> QED
      BY <1>00, <1>3, <3>1, <3>2 DEF SelectedUpto
  <2>4. CASE ~(e.version > jar.entries[i].version)
    <3>1. t = s
      BY <1>3, <2>2, <2>4 DEF Selects, Supersedes
    <3>2. ASSUME NEW k \in 1 .. (n + 1), Runs(jar.entries[k])
          PROVE  jar.entries[k].version <= jar.entries[i].version
      BY <1>0, <2>1, <2>2, <2>4, <3>2
    <3> QED
      BY <1>00, <2>1, <3>1, <3>2 DEF SelectedUpto
  <2> QED
    BY <2>3, <2>4
<1> QED
  BY <1>1, <1>2, <1>3

EntriesOK(jar) ==
    /\ jar.entries \in Seq(ToSet(jar.entries))
    /\ \A i \in DOMAIN jar.entries : jar.entries[i].version \in Nat
    /\ \A i, k \in DOMAIN jar.entries :
          /\ Competes(jar, jar.entries[i]) /\ Competes(jar, jar.entries[k])
          /\ jar.entries[i].class = jar.entries[k].class
          /\ jar.entries[i].version = jar.entries[k].version
          => i = k

LEMMA SelectedIs ==
    ASSUME NEW jar, EntriesOK(jar), NEW c
    PROVE  SelectedUpto(jar, c, Len(jar.entries), SelectedEntry(jar, c))
<1> DEFINE N == Len(jar.entries)
<1>1. N \in Nat /\ jar.entries \in Seq(ToSet(jar.entries)) /\ DOMAIN jar.entries = 1 .. N
  BY DEF EntriesOK
<1>2. PICK f : SelectsFor(jar, c, f) /\ SelectedEntry(jar, c) = f[N]
  BY <1>1, SelectIs
<1> DEFINE T == {n \in 0 .. N : SelectedUpto(jar, c, n, f[n])}
<1>3. 0 \in T
  <2>1. f[0] = <<>>
    BY <1>2 DEF SelectsFor
  <2>2. SelectedUpto(jar, c, 0, <<>>)
    BY DEF SelectedUpto
  <2> QED
    BY <1>1, <2>1, <2>2
<1>4. ASSUME NEW n \in 0 .. (N - 1), n \in T
      PROVE  n + 1 \in T
  <2>1. n \in Nat /\ n + 1 \in 1 .. N /\ n + 1 \in 0 .. N /\ n = (n + 1) - 1
    BY <1>1
  <2>2. f[n + 1] = Selects(jar, c, f[n], jar.entries[n + 1])
    BY <1>2, <2>1 DEF SelectsFor
  <2>3. \A k \in 1 .. (n + 1) : jar.entries[k].version \in Nat
    <3>1. \A k \in 1 .. (n + 1) : k \in 1 .. N
      BY <1>1, <2>1
    <3> QED
      BY <1>1, <3>1 DEF EntriesOK
  <2>4. SelectedUpto(jar, c, n, f[n])
    BY <1>4
  <2> HIDE DEF T
  <2>5. SelectedUpto(jar, c, n + 1, Selects(jar, c, f[n], jar.entries[n + 1]))
    BY <2>1, <2>3, <2>4, SelectStep
  <2> QED
    BY <2>1, <2>2, <2>5 DEF T
<1>5. N \in T
  <2> HIDE DEF T
  <2>1. 0 .. N \subseteq T
    BY <1>1, <1>3, <1>4, IntervalInduction
  <2> QED
    BY <1>1, <2>1
<1> QED
  BY <1>2, <1>5

LEMMA OneWins ==
    ASSUME NEW jar, EntriesOK(jar), NEW c, NEW a, NEW b, Wins(jar, c, a), Wins(jar, c, b)
    PROVE  a = b
<1>1. jar.entries \in Seq(ToSet(jar.entries))
  BY DEF EntriesOK
<1>2. PICK i \in DOMAIN jar.entries : a = jar.entries[i]
  BY DEF Wins, ToSet
<1>3. PICK k \in DOMAIN jar.entries : b = jar.entries[k]
  BY DEF Wins, ToSet
<1>4. a.version \in Nat /\ b.version \in Nat
  BY <1>2, <1>3 DEF EntriesOK
<1>5. a.version <= b.version /\ b.version <= a.version
  BY DEF Wins
<1>6. a.version = b.version
  BY <1>4, <1>5
<1>7. i = k
  BY <1>2, <1>3, <1>6 DEF Wins, EntriesOK
<1> QED
  BY <1>2, <1>3, <1>7

LEMMA SelectedWins ==
    ASSUME NEW jar, EntriesOK(jar), NEW c
    PROVE  \/ SelectedEntry(jar, c) = <<>> /\ \A e : ~Wins(jar, c, e)
           \/ \E e : SelectedEntry(jar, c) = <<e>> /\ Wins(jar, c, e)
<1> DEFINE N == Len(jar.entries)
<1>1. N \in Nat /\ DOMAIN jar.entries = 1 .. N
  BY DEF EntriesOK
<1>2. SelectedUpto(jar, c, N, SelectedEntry(jar, c))
  BY SelectedIs
<1>3. CASE SelectedEntry(jar, c) = <<>>
           /\ \A k \in 1 .. N : ~(jar.entries[k].class = c /\ Competes(jar, jar.entries[k]))
  BY <1>1, <1>3 DEF Wins, ToSet
<1>4. ASSUME NEW i \in 1 .. N, SelectedEntry(jar, c) = <<jar.entries[i]>>,
             jar.entries[i].class = c, Competes(jar, jar.entries[i]),
             \A k \in 1 .. N : jar.entries[k].class = c /\ Competes(jar, jar.entries[k])
                               => jar.entries[k].version <= jar.entries[i].version
      PROVE  \E e : SelectedEntry(jar, c) = <<e>> /\ Wins(jar, c, e)
  <2>1. Wins(jar, c, jar.entries[i])
    BY <1>1, <1>4 DEF Wins, ToSet
  <2> QED
    BY <1>4, <2>1
<1> QED
  BY <1>2, <1>3, <1>4 DEF SelectedUpto

(* The API of a class of an archive is that of the entry that it has. *)
Api(e) == [super |-> e.super, interfaces |-> e.interfaces,
           members |-> {m.name : m \in {n \in e.members : n.visibility \in {"public", "protected"}}}]
IsPublic(jar, c, e) == Wins(jar, c, e) /\ e.visibility = "public"

LEMMA ApiIs ==
    ASSUME NEW jar, EntriesOK(jar), NEW c
    PROVE  /\ c \in DOMAIN PublicClassApi(jar) <=> \E e : IsPublic(jar, c, e)
           /\ \A e : IsPublic(jar, c, e) => PublicClassApi(jar)[c] = Api(e)
<1> DEFINE public == {s[1] : s \in {t \in EffectiveClassEntries(jar) :
                                    t # <<>> /\ t[1].visibility = "public"}}
<1>1. \A e : e \in public <=> IsPublic(jar, e.class, e)
  <2>1. ASSUME NEW e \in public
        PROVE  IsPublic(jar, e.class, e)
    <3>1. PICK s \in EffectiveClassEntries(jar) : s # <<>> /\ s[1].visibility = "public" /\ e = s[1]
      OBVIOUS
    <3>2. PICK d : s = SelectedEntry(jar, d)
      BY <3>1 DEF EffectiveClassEntries
    <3>3. PICK w : s = <<w>> /\ Wins(jar, d, w)
      BY <3>1, <3>2, SelectedWins
    <3>4. e = w /\ d = w.class
      BY <3>1, <3>3 DEF Wins
    <3> QED
      BY <3>1, <3>3, <3>4 DEF IsPublic
  <2>2. ASSUME NEW e, IsPublic(jar, e.class, e)
        PROVE  e \in public
    <3>1. Wins(jar, e.class, e) /\ e.visibility = "public"
      BY <2>2 DEF IsPublic
    <3>2. PICK w : SelectedEntry(jar, e.class) = <<w>> /\ Wins(jar, e.class, w)
      BY <3>1, SelectedWins
    <3>3. w = e
      BY <3>1, <3>2, OneWins
    <3>4. SelectedEntry(jar, e.class) \in EffectiveClassEntries(jar)
      BY <3>1 DEF Wins, ToSet, EffectiveClassEntries
    <3>5. SelectedEntry(jar, e.class) # <<>> /\ SelectedEntry(jar, e.class)[1] = e
      BY <3>2, <3>3
    <3> QED
      BY <3>1, <3>4, <3>5
  <2> QED
    BY <2>1, <2>2
<1>2. PublicClassApi(jar) = [x \in {e.class : e \in public} |->
          LET e == CHOOSE y \in public : y.class = x IN
          [super |-> e.super, interfaces |-> e.interfaces,
           members |-> {m.name : m \in {n \in e.members : n.visibility \in {"public", "protected"}}}]]
  BY DEF PublicClassApi
<1> HIDE DEF public
<1>3. \A e : IsPublic(jar, c, e) => e.class = c
  BY DEF IsPublic, Wins
<1>4. c \in {e.class : e \in public} <=> \E e : IsPublic(jar, c, e)
  BY <1>1, <1>3
<1>5. ASSUME NEW e, IsPublic(jar, c, e)
      PROVE  PublicClassApi(jar)[c] = Api(e)
  <2>1. e \in public /\ e.class = c
    BY <1>1, <1>3, <1>5
  <2>2. \A y \in public : y.class = c => y = e
    BY <1>1, <1>5, OneWins DEF IsPublic
  <2>3. (CHOOSE y \in public : y.class = c) = e
    BY <2>1, <2>2
  <2>4. c \in {x.class : x \in public}
    BY <2>1
  <2>5. PublicClassApi(jar)[c] = Api(CHOOSE y \in public : y.class = c)
    BY <1>2, <2>4 DEF Api
  <2> QED
    BY <2>3, <2>5
<1> QED
  BY <1>2, <1>4, <1>5

(* What programs see of a class, from its API. *)
Seen(a) == {<<"super", a.super>>} \cup {<<"interface", i>> : i \in a.interfaces}
              \cup {<<"member", m>> : m \in a.members}

LEMMA LoadedWins ==
    ASSUME NEW jar, EntriesOK(jar), NEW c
    PROVE  \A e : e \in Loaded(jar, c) <=> Wins(jar, c, e)
BY DEF Loaded, Wins, Competes, MinMultiRelease

LEMMA SeenIs ==
    ASSUME NEW jar, EntriesOK(jar), NEW c
    PROVE  /\ c \notin DOMAIN PublicClassApi(jar) => SeenOf(jar, c) = {}
           /\ c \in DOMAIN PublicClassApi(jar) =>
                SeenOf(jar, c) = Seen(PublicClassApi(jar)[c]) /\ SeenOf(jar, c) # {}
<1>1. \A e : e \in {x \in Loaded(jar, c) : x.visibility = "public"} <=> IsPublic(jar, c, e)
  BY LoadedWins DEF IsPublic
<1>2. ASSUME c \notin DOMAIN PublicClassApi(jar)
      PROVE  SeenOf(jar, c) = {}
  <2>1. {x \in Loaded(jar, c) : x.visibility = "public"} = {}
    BY <1>1, <1>2, ApiIs
  <2> QED
    BY <2>1 DEF SeenOf
<1>3. ASSUME c \in DOMAIN PublicClassApi(jar)
      PROVE  SeenOf(jar, c) = Seen(PublicClassApi(jar)[c]) /\ SeenOf(jar, c) # {}
  <2>1. PICK e : IsPublic(jar, c, e)
    BY <1>3, ApiIs
  <2>2. {x \in Loaded(jar, c) : x.visibility = "public"} = {e}
    <3>1. \A x : IsPublic(jar, c, x) => x = e
      BY <2>1, OneWins DEF IsPublic
    <3> QED
      BY <1>1, <2>1, <3>1
  <2>3. PublicClassApi(jar)[c] = Api(e)
    BY <2>1, ApiIs
  <2>4. SeenOf(jar, c) = {<<"super", e.super>>}
             \cup {<<"interface", i>> : i \in e.interfaces}
             \cup {<<"member", m.name>> :
                     m \in {n \in e.members : n.visibility \in {"public", "protected"}}}
    BY <2>2 DEF SeenOf
  <2>5. {<<"member", m.name>> : m \in {n \in e.members : n.visibility \in {"public", "protected"}}}
           = {<<"member", m>> : m \in Api(e).members}
    BY DEF Api
  <2>6. SeenOf(jar, c) = Seen(Api(e))
    BY <2>4, <2>5 DEF Seen, Api
  <2> QED
    BY <2>3, <2>4, <2>6
<1> QED
  BY <1>2, <1>3

LEMMA SeenSame ==
    ASSUME NEW a, NEW b
    PROVE  Seen(a) = Seen(b) <=> ~ApiChanged(a, b)
<1>1. ASSUME ~ApiChanged(a, b)
      PROVE  Seen(a) = Seen(b)
  BY <1>1 DEF ApiChanged, Seen
<1>2. ASSUME Seen(a) = Seen(b)
      PROVE  ~ApiChanged(a, b)
  <2>1. \A x, i : <<"super", i>> \in Seen(x) <=> i = x.super
    BY DEF Seen
  <2>2. \A x, i : <<"interface", i>> \in Seen(x) <=> i \in x.interfaces
    BY DEF Seen
  <2>3. \A x, i : <<"member", i>> \in Seen(x) <=> i \in x.members
    BY DEF Seen
  <2> QED
    BY <1>2, <2>1, <2>2, <2>3 DEF ApiChanged
<1> QED
  BY <1>1, <1>2

LEMMA ChangeApplies ==
    ASSUME NEW a, NEW b
    PROVE  Seen(b) = AppliedTo(Seen(a), ClassApiChange(a, b))
<1> DEFINE change == ClassApiChange(a, b)
           applied == AppliedTo(Seen(a), change)
<1>1. /\ change.added = b.members \ a.members /\ change.removed = a.members \ b.members
      /\ change.previousSuper = a.super /\ change.currentSuper = b.super
      /\ change.addedInterfaces = b.interfaces \ a.interfaces
      /\ change.removedInterfaces = a.interfaces \ b.interfaces
  BY DEF ClassApiChange
<1> HIDE DEF change
<1>2. applied =
        (Seen(a) \ ({<<"super", a.super>>}
               \cup {<<"interface", i>> : i \in a.interfaces \ b.interfaces}
               \cup {<<"member", m>> : m \in a.members \ b.members}))
        \cup {<<"super", b.super>>}
        \cup {<<"interface", i>> : i \in b.interfaces \ a.interfaces}
        \cup {<<"member", m>> : m \in b.members \ a.members}
  BY <1>1 DEF AppliedTo
<1> HIDE DEF applied
<1>3. \A x : x \in Seen(b) <=> x \in applied
  BY <1>2 DEF Seen
<1>4. Seen(b) = applied
  BY <1>3
<1> QED
  BY <1>4 DEF applied, change

LEMMA ApiDiffed == AInv => ApiDiffExact
<1> SUFFICES ASSUME AInv, Answered("api"),
                    NEW c \in {e.class : e \in ToSet(question.previous.entries \o question.current.entries)}
             PROVE  LET before == SeenOf(question.previous, c)
                        after == SeenOf(question.current, c)
                    IN /\ c \in answer.addedClasses <=> before = {} /\ after # {}
                       /\ c \in answer.removedClasses <=> before # {} /\ after = {}
                       /\ before # {} /\ after # {} =>
                            IF c \in DOMAIN answer.changed
                            THEN before # after /\ after = AppliedTo(before, answer.changed[c])
                            ELSE before = after
  BY DEF ApiDiffExact
<1> DEFINE old == PublicClassApi(question.previous)
           new == PublicClassApi(question.current)
           before == SeenOf(question.previous, c)
           after == SeenOf(question.current, c)
<1>1. EntriesOK(question.previous) /\ EntriesOK(question.current)
  BY EntriesAssumption DEF AInv, Answered, EntriesOK
<1>2. /\ c \notin DOMAIN old => before = {}
      /\ c \in DOMAIN old => before = Seen(old[c]) /\ before # {}
      /\ c \notin DOMAIN new => after = {}
      /\ c \in DOMAIN new => after = Seen(new[c]) /\ after # {}
  BY <1>1, SeenIs
<1>3. answer = ApiAnswer(question)
  BY DEF AInv
<1>4. /\ answer.addedClasses = DOMAIN new \ DOMAIN old
      /\ answer.removedClasses = DOMAIN old \ DOMAIN new
      /\ answer.changed = [x \in {x \in DOMAIN old \cap DOMAIN new : ApiChanged(old[x], new[x])} |->
                             ClassApiChange(old[x], new[x])]
  BY <1>3 DEF ApiAnswer
<1> HIDE DEF old, new, before, after
<1>5. (c \in answer.addedClasses <=> before = {} /\ after # {})
      /\ (c \in answer.removedClasses <=> before # {} /\ after = {})
  BY <1>2, <1>4
<1>6. ASSUME before # {} /\ after # {}
      PROVE  IF c \in DOMAIN answer.changed
             THEN before # after /\ after = AppliedTo(before, answer.changed[c])
             ELSE before = after
  <2>1. c \in DOMAIN old /\ c \in DOMAIN new /\ before = Seen(old[c]) /\ after = Seen(new[c])
    BY <1>2, <1>6
  <2>2. c \in DOMAIN answer.changed <=> ApiChanged(old[c], new[c])
    BY <1>4, <2>1
  <2>3. c \in DOMAIN answer.changed => answer.changed[c] = ClassApiChange(old[c], new[c])
    BY <1>4
  <2>4. before = after <=> ~ApiChanged(old[c], new[c])
    BY <2>1, SeenSame
  <2>5. after = AppliedTo(before, ClassApiChange(old[c], new[c]))
    BY <2>1, ChangeApplies
  <2> QED
    BY <2>2, <2>3, <2>4, <2>5
<1> QED
  BY <1>5, <1>6 DEF before, after

(* compare_artifact_api: for every two archives, the difference applied to   *)
(* what programs saw of the previous one gives what they see of the current  *)
(* one, and it says nothing of a class that looks the same in both.          *)
THEOREM ApiDiffExactHolds == QuerySpec => []ApiDiffExact
BY AlwaysAInv, ApiDiffed, PTL

-----------------------------------------------------------------------------
(* discover_module: a directory that was reached was entered, or is on the *)
(* stack of calls to be made.  A call is never deeper than the number of   *)
(* directories entered, for every call on the way to it entered another.   *)

Discovery == text # NoText /\ text.op = "modules"

Calls(R) == [directory : R, selector : Seq(STRING), depth : Nat]
Modules(R) == [selector : Seq(STRING), directory : R]

Known(l, d) == d \in l.visited \/ \E i \in 1 .. Len(l.stack) : l.stack[i].directory = d

LoopOK(l, t, R) ==
    /\ DOMAIN l = {"stack", "found", "visited"}
    /\ l.stack \in Seq(Calls(R)) /\ l.found \in Seq(Modules(R))
    /\ l.visited \subseteq R \cap DOMAIN t.modules
    /\ IsFiniteSet(l.visited)
    /\ \A i \in 1 .. Len(l.stack) : l.stack[i].depth <= Cardinality(l.visited)
    /\ Known(l, t.root)
    /\ \A d \in l.visited : \A m \in ToSet(t.modules[d]) : Known(l, t.entered[<<d, m>>])
    /\ {f.directory : f \in ToSet(l.found)} = l.visited
    /\ Len(l.found) = Cardinality(l.visited)

Excused == Reachable \ DOMAIN text.modules # {} \/ Cardinality(Reachable) > MaxDepth

MInv ==
    Discovery =>
        /\ text \in Texts
        /\ LoopOK(loop, text, Reachable)
        /\ reading # NoText =>
             \/ reading = [outcome |-> "error"] /\ Excused
             \/ reading = [outcome |-> "discovered", found |-> loop.found] /\ loop.stack = <<>>

LEMMA RootReachable == text.root \in Reachable
BY DEF Reachable, LeadsOnlyTo, Targets

LEMMA ModuleReachable ==
    ASSUME NEW d \in Reachable \cap DOMAIN text.modules, NEW m \in ToSet(text.modules[d]),
           <<d, m>> \in DOMAIN text.entered
    PROVE  text.entered[<<d, m>>] \in Reachable
<1>1. text.entered[<<d, m>>] \in Targets
  BY DEF Targets
<1>2. \A S \in SUBSET Targets : LeadsOnlyTo(S) => text.entered[<<d, m>>] \in S
  BY DEF Reachable, LeadsOnlyTo
<1> QED
  BY <1>1, <1>2 DEF Reachable

LEMMA ReachableFinite ==
    ASSUME text \in Texts, text.op = "modules"
    PROVE  IsFiniteSet(Reachable)
<1>1. IsFiniteSet({text.entered[x] : x \in DOMAIN text.entered})
  BY DiscoveryAssumption
<1> DEFINE E == {text.entered[x] : x \in DOMAIN text.entered}
<1>2. Reachable \subseteq E \cup {text.root}
  BY DEF Reachable, Targets
<1> HIDE DEF E
<1>3. IsFiniteSet(E \cup {text.root})
  BY <1>1, FS_AddElement DEF E
<1> QED
  BY <1>2, <1>3, FS_Subset

LEMMA SameProject ==
    ASSUME text' = text
    PROVE  Reachable' = Reachable /\ (Discovery' <=> Discovery) /\ (Excused' <=> Excused)
<1>1. Reachable' = Reachable
  BY DEF Reachable, LeadsOnlyTo, Targets
<1> QED
  BY <1>1 DEF Discovery, Excused

LEMMA InitMInv == OutputInit => MInv
<1> SUFFICES ASSUME OutputInit, Discovery PROVE MInv
  BY DEF MInv
<1> DEFINE c == [directory |-> text.root, selector |-> <<>>, depth |-> 0]
<1>1. /\ text \in Texts /\ reading = NoText
      /\ loop = [stack |-> <<c>>, found |-> <<>>, visited |-> {}]
  BY DEF OutputInit, Discovery
<1>2. c \in Calls(Reachable) /\ c.depth = 0 /\ c.directory = text.root
  BY RootReachable DEF Calls
<1> HIDE DEF c
<1>3. IsFiniteSet({}) /\ Cardinality({}) = 0
  BY FS_EmptySet
<1>4. Known(loop, text.root)
  BY <1>1, <1>2 DEF Known
<1>5. {f.directory : f \in ToSet(loop.found)} = {}
  BY <1>1 DEF ToSet
<1>6. /\ loop.stack \in Seq(Calls(Reachable)) /\ loop.found \in Seq(Modules(Reachable))
      /\ DOMAIN loop = {"stack", "found", "visited"} /\ loop.visited = {} /\ Len(loop.found) = 0
      /\ \A i \in 1 .. Len(loop.stack) : loop.stack[i].depth <= 0
  BY <1>1, <1>2
<1>7. LoopOK(loop, text, Reachable)
  BY <1>3, <1>4, <1>5, <1>6 DEF LoopOK
<1> QED
  BY <1>1, <1>7 DEF MInv

(* The call on top of the stack. *)
LEMMA TopCall ==
    ASSUME LoopOK(loop, text, Reachable), loop.stack # <<>>
    PROVE  /\ Call = loop.stack[1] /\ Call.directory \in Reachable
           /\ Call.selector \in Seq(STRING) /\ Call.depth \in Nat
           /\ Call.depth <= Cardinality(loop.visited)
           /\ Len(loop.stack) \in Nat /\ Len(loop.stack) >= 1
           /\ Tail(loop.stack) \in Seq(Calls(Reachable))
           /\ Len(Tail(loop.stack)) = Len(loop.stack) - 1
           /\ \A i \in 1 .. Len(Tail(loop.stack)) :
                i + 1 \in 1 .. Len(loop.stack) /\ Tail(loop.stack)[i] = loop.stack[i + 1]
<1>1. loop.stack \in Seq(Calls(Reachable)) /\ Call = loop.stack[1] /\ Len(loop.stack) >= 1
      /\ Len(loop.stack) \in Nat
  BY DEF LoopOK, Call
<1>2. Call \in Calls(Reachable)
  BY <1>1
<1>3. Call.depth <= Cardinality(loop.visited)
  BY <1>1 DEF LoopOK
<1> QED
  BY <1>1, <1>2, <1>3 DEF Calls

(* The discovery fails for a reason. *)
LEMMA RefusedExcused ==
    ASSUME MInv, Discovery, loop.stack # <<>>, Refused
    PROVE  Excused
<1>1. /\ text \in Texts /\ text.op = "modules" /\ LoopOK(loop, text, Reachable)
  BY DEF MInv, Discovery
<1>2. CASE Call.depth > MaxDepth
  <2>1. Cardinality(loop.visited) <= Cardinality(Reachable) /\ Cardinality(Reachable) \in Nat
        /\ Cardinality(loop.visited) \in Nat
    BY <1>1, ReachableFinite, FS_Subset, FS_CardinalityType DEF LoopOK
  <2> QED
    BY <1>1, <1>2, <2>1, TopCall, DiscoveryAssumption DEF Excused
<1>3. CASE Call.directory \notin DOMAIN text.modules
  BY <1>1, <1>3, TopCall DEF Excused
<1>4. CASE Call.directory = "outside"
  BY <1>1, <1>3, <1>4, DiscoveryAssumption
<1>5. ASSUME Call.directory \in DOMAIN text.modules,
             NEW m \in ToSet(text.modules[Call.directory]),
             text.entered[<<Call.directory, m>>] = "up"
      PROVE  Excused
  <2>1. <<Call.directory, m>> \in DOMAIN text.entered /\ "up" \notin DOMAIN text.modules
    BY <1>1, <1>5, DiscoveryAssumption
  <2>2. "up" \in Reachable
    BY <1>1, <1>5, <2>1, TopCall, ModuleReachable
  <2> QED
    BY <2>1, <2>2 DEF Excused
<1> QED
  BY <1>2, <1>3, <1>4, <1>5 DEF Refused

(* A call that is done leaves what is known. *)
LEMMA StaysKnown ==
    ASSUME LoopOK(loop, text, Reachable), loop.stack # <<>>, NEW l,
           loop.visited \cup {Call.directory} \subseteq l.visited,
           \A i \in 1 .. Len(Tail(loop.stack)) :
              \E j \in 1 .. Len(l.stack) : l.stack[j] = Tail(loop.stack)[i],
           NEW d, Known(loop, d)
    PROVE  Known(l, d)
<1>1. CASE d \in loop.visited \cup {Call.directory}
  BY <1>1 DEF Known
<1>2. ASSUME NEW i \in 1 .. Len(loop.stack), loop.stack[i].directory = d, i # 1
      PROVE  Known(l, d)
  <2>1. i - 1 \in 1 .. Len(Tail(loop.stack)) /\ Tail(loop.stack)[i - 1] = loop.stack[i]
    BY <1>2, TopCall
  <2>2. PICK j \in 1 .. Len(l.stack) : l.stack[j] = loop.stack[i]
    BY <2>1
  <2> QED
    BY <1>2, <2>2 DEF Known
<1> QED
  BY <1>1, <1>2, TopCall DEF Known

(* A directory that was entered before is not entered again. *)
LEMMA SeenAgain ==
    ASSUME LoopOK(loop, text, Reachable), loop.stack # <<>>, Call.directory \in loop.visited
    PROVE  LoopOK([loop EXCEPT !.stack = Tail(@)], text, Reachable)
<1> DEFINE l == [loop EXCEPT !.stack = Tail(@)]
<1>1. /\ l.stack = Tail(loop.stack) /\ l.found = loop.found /\ l.visited = loop.visited
      /\ DOMAIN l = {"stack", "found", "visited"}
  BY DEF LoopOK
<1> HIDE DEF l
<1>2. \A d : Known(loop, d) => Known(l, d)
  BY <1>1, StaysKnown
<1>3. \A i \in 1 .. Len(l.stack) : l.stack[i].depth <= Cardinality(l.visited)
  BY <1>1, TopCall DEF LoopOK
<1>4. LoopOK(l, text, Reachable)
  BY <1>1, <1>2, <1>3, TopCall DEF LoopOK
<1> QED
  BY <1>4 DEF l

LEMMA Concatenated ==
    ASSUME NEW A, NEW s \in Seq(A), NEW t \in Seq(A)
    PROVE  /\ s \o t \in Seq(A) /\ Len(s \o t) = Len(s) + Len(t)
           /\ \A i \in 1 .. Len(s) : (s \o t)[i] = s[i]
           /\ \A i \in 1 .. Len(t) : (s \o t)[Len(s) + i] = t[i]
           /\ \A i \in 1 .. Len(s \o t) :
                \/ i \in 1 .. Len(s) /\ (s \o t)[i] = s[i]
                \/ i - Len(s) \in 1 .. Len(t) /\ (s \o t)[i] = t[i - Len(s)]
OBVIOUS

(* The calls for the modules of a directory. *)
CallsFor(names, calls) ==
    /\ names = text.modules[Call.directory] /\ Call.directory \in DOMAIN text.modules
    /\ names \in Seq(STRING) /\ DOMAIN names = 1 .. Len(names)
    /\ calls \in Seq(Calls(Reachable)) /\ Len(calls) = Len(names)
    /\ \A i \in 1 .. Len(names) :
         /\ calls[i].directory = text.entered[<<Call.directory, names[i]>>]
         /\ calls[i].depth = Call.depth + 1

LEMMA ModuleCalls ==
    ASSUME text \in Texts, text.op = "modules", LoopOK(loop, text, Reachable),
           loop.stack # <<>>, Call.directory \notin loop.visited, ~Refused
    PROVE  LET names == text.modules[Call.directory]
               calls == [i \in DOMAIN names |->
                           [directory |-> text.entered[<<Call.directory, names[i]>>],
                            selector |-> Append(Call.selector, names[i]),
                            depth |-> Call.depth + 1]]
           IN  CallsFor(names, calls)
<1> DEFINE D == Call.directory
           names == text.modules[Call.directory]
           n == Len(names)
           c(i) == [directory |-> text.entered[<<Call.directory, names[i]>>],
                    selector |-> Append(Call.selector, names[i]),
                    depth |-> Call.depth + 1]
           calls == [i \in DOMAIN names |-> c(i)]
<1>1. D \in DOMAIN text.modules /\ D \in Reachable
  BY TopCall DEF Refused
<1>2. names \in Seq(STRING)
  BY <1>1, DiscoveryAssumption
<1>3. n \in Nat /\ DOMAIN names = 1 .. n
  BY <1>2
<1>4. ASSUME NEW i \in 1 .. n
      PROVE  c(i) \in Calls(Reachable)
  <2>1. names[i] \in ToSet(text.modules[D]) /\ names[i] \in STRING
    BY <1>2, <1>3 DEF ToSet
  <2>2. <<D, names[i]>> \in DOMAIN text.entered
    BY <1>1, <2>1, DiscoveryAssumption
  <2>3. text.entered[<<D, names[i]>>] \in Reachable
    BY <1>1, <2>1, <2>2, ModuleReachable
  <2>4. Append(Call.selector, names[i]) \in Seq(STRING) /\ Call.depth + 1 \in Nat
    BY <2>1, TopCall
  <2> HIDE DEF D
  <2> QED
    BY <2>3, <2>4 DEF Calls, D
<1>5. \A i \in 1 .. n : /\ c(i).directory = text.entered[<<Call.directory, names[i]>>]
                        /\ c(i).depth = Call.depth + 1
  OBVIOUS
<1> HIDE DEF c
<1>6. calls = [i \in 1 .. n |-> c(i)]
  BY <1>3
<1>7. calls \in Seq(Calls(Reachable)) /\ Len(calls) = n /\ \A i \in 1 .. n : calls[i] = c(i)
  BY <1>3, <1>4, <1>6
<1> HIDE DEF calls, n
<1>8. /\ names \in Seq(STRING) /\ DOMAIN names = 1 .. n /\ D \in DOMAIN text.modules
      /\ \A i \in 1 .. n :
            /\ calls[i].directory = text.entered[<<Call.directory, names[i]>>]
            /\ calls[i].depth = Call.depth + 1
  BY <1>1, <1>2, <1>3, <1>5, <1>7
<1> QED
  BY <1>7, <1>8 DEF CallsFor, calls, n, c

(* A directory that is entered puts its modules on the stack. *)
LEMMA Entered ==
    ASSUME LoopOK(loop, text, Reachable), loop.stack # <<>>,
           Call.directory \notin loop.visited, NEW names, NEW calls, CallsFor(names, calls)
    PROVE  LoopOK([stack |-> calls \o Tail(loop.stack),
                   visited |-> loop.visited \cup {Call.directory},
                   found |-> Append(loop.found, [selector |-> Call.selector,
                                                 directory |-> Call.directory])],
                  text, Reachable)
<1> DEFINE D == Call.directory
           T == Tail(loop.stack)
           n == Len(names)
           f == [selector |-> Call.selector, directory |-> Call.directory]
           S == calls \o T
           F == Append(loop.found, f)
           l == [stack |-> S, visited |-> loop.visited \cup {D}, found |-> F]
<1>1. D \in DOMAIN text.modules /\ D \in Reachable
  BY TopCall DEF CallsFor
<1>2. n \in Nat /\ DOMAIN names = 1 .. n /\ names = text.modules[D]
  BY DEF CallsFor
<1>3. \A i \in 1 .. n : /\ calls[i].directory = text.entered[<<D, names[i]>>]
                        /\ calls[i].depth = Call.depth + 1
  BY DEF CallsFor
<1>4. Call.depth \in Nat /\ Call.depth <= Cardinality(loop.visited)
  BY TopCall
<1>5. calls \in Seq(Calls(Reachable)) /\ Len(calls) = n
  BY DEF CallsFor
<1>6. /\ T \in Seq(Calls(Reachable)) /\ Len(T) \in Nat /\ Len(T) = Len(loop.stack) - 1
      /\ \A i \in 1 .. Len(T) : i + 1 \in 1 .. Len(loop.stack) /\ T[i] = loop.stack[i + 1]
  BY TopCall
<1> HIDE DEF T
<1>7. /\ S \in Seq(Calls(Reachable)) /\ Len(S) = n + Len(T)
      /\ \A i \in 1 .. n : S[i] = calls[i]
      /\ \A i \in 1 .. Len(T) : S[n + i] = T[i]
      /\ \A i \in 1 .. Len(S) :
           \/ i \in 1 .. n /\ S[i] = calls[i]
           \/ i - n \in 1 .. Len(T) /\ S[i] = T[i - n]
  <2> HIDE DEF n
  <2>1. /\ S \in Seq(Calls(Reachable)) /\ Len(S) = Len(calls) + Len(T)
        /\ \A i \in 1 .. Len(calls) : S[i] = calls[i]
        /\ \A i \in 1 .. Len(T) : S[Len(calls) + i] = T[i]
        /\ \A i \in 1 .. Len(S) :
             \/ i \in 1 .. Len(calls) /\ S[i] = calls[i]
             \/ i - Len(calls) \in 1 .. Len(T) /\ S[i] = T[i - Len(calls)]
    <3> DEFINE A == Calls(Reachable)
    <3>1. calls \in Seq(A) /\ T \in Seq(A)
      BY <1>5, <1>6
    <3> HIDE DEF A
    <3>2. /\ S \in Seq(A) /\ Len(S) = Len(calls) + Len(T)
          /\ \A i \in 1 .. Len(calls) : S[i] = calls[i]
          /\ \A i \in 1 .. Len(T) : S[Len(calls) + i] = T[i]
          /\ \A i \in 1 .. Len(S) :
               \/ i \in 1 .. Len(calls) /\ S[i] = calls[i]
               \/ i - Len(calls) \in 1 .. Len(T) /\ S[i] = T[i - Len(calls)]
      BY <3>1, Concatenated, Zenon
    <3> HIDE DEF S
    <3> QED
      BY <3>2 DEF A
  <2> HIDE DEF S
  <2> QED
    BY <1>5, <2>1
<1> HIDE DEF S, D, n
<1>9. /\ l.stack = S /\ l.found = F /\ l.visited = loop.visited \cup {D}
      /\ DOMAIN l = {"stack", "found", "visited"}
  OBVIOUS
<1> HIDE DEF l
<1>10. /\ Cardinality(l.visited) = Cardinality(loop.visited) + 1 /\ IsFiniteSet(l.visited)
       /\ Cardinality(loop.visited) \in Nat
  <2>1. IsFiniteSet(loop.visited) /\ D \notin loop.visited
    BY DEF LoopOK, D
  <2>2. /\ Cardinality(loop.visited \cup {D}) = Cardinality(loop.visited) + 1
        /\ IsFiniteSet(loop.visited \cup {D}) /\ Cardinality(loop.visited) \in Nat
    BY <2>1, FS_AddElement, FS_CardinalityType
  <2> QED
    BY <1>9, <2>2
<1>11. \A d : Known(loop, d) => Known(l, d)
  <2>1. \A i \in 1 .. Len(T) : n + i \in 1 .. Len(l.stack) /\ l.stack[n + i] = T[i]
    BY <1>2, <1>6, <1>7, <1>9
  <2>2. \A i \in 1 .. Len(T) : \E j \in 1 .. Len(l.stack) : l.stack[j] = T[i]
    BY <2>1
  <2> QED
    BY <1>9, <2>2, StaysKnown DEF D, T
<1>12. ASSUME NEW d \in l.visited, NEW m \in ToSet(text.modules[d])
       PROVE  Known(l, text.entered[<<d, m>>])
  <2>1. CASE d \in loop.visited
    BY <1>11, <1>12, <2>1 DEF LoopOK
  <2>2. CASE d = D
    <3>1. PICK i \in 1 .. n : names[i] = m
      BY <1>2, <1>12, <2>2 DEF ToSet, D
    <3>2. i \in 1 .. Len(l.stack) /\ l.stack[i].directory = text.entered[<<d, m>>]
      <4>1. i \in 1 .. Len(S) /\ S[i] = calls[i]
        BY <1>2, <1>6, <1>7
      <4> HIDE DEF S
      <4> QED
        BY <1>3, <1>9, <2>2, <3>1, <4>1
    <3> QED
      BY <3>2 DEF Known
  <2> QED
    BY <1>9, <2>1, <2>2
<1>13. \A i \in 1 .. Len(l.stack) : l.stack[i].depth <= Cardinality(l.visited)
  <2>1. \A i \in 1 .. n : calls[i].depth <= Cardinality(l.visited)
    <3>1. Call.depth + 1 <= Cardinality(l.visited)
      BY <1>4, <1>10
    <3> QED
      BY <1>3, <3>1
  <2>2. \A i \in 1 .. Len(T) : T[i].depth <= Cardinality(l.visited)
    <3>1. \A i \in 1 .. Len(T) : T[i].depth <= Cardinality(loop.visited) /\ T[i].depth \in Nat
      <4>1. \A i \in 1 .. Len(loop.stack) :
              loop.stack[i].depth <= Cardinality(loop.visited) /\ loop.stack[i] \in Calls(Reachable)
        BY DEF LoopOK
      <4>2. \A x \in Calls(Reachable) : x.depth \in Nat
        BY DEF Calls
      <4> QED
        BY <1>6, <4>1, <4>2
    <3> QED
      BY <1>10, <3>1
  <2> QED
    BY <1>7, <1>9, <2>1, <2>2
<1>14. /\ F \in Seq(Modules(Reachable)) /\ Len(F) = Len(loop.found) + 1
       /\ {x.directory : x \in ToSet(F)} = {x.directory : x \in ToSet(loop.found)} \cup {D}
  <2>1. /\ loop.found \in Seq(Modules(Reachable)) /\ f \in Modules(Reachable) /\ f.directory = D
    BY TopCall DEF LoopOK, Modules, D
  <2> HIDE DEF f
  <2>2. /\ F \in Seq(Modules(Reachable)) /\ Len(F) = Len(loop.found) + 1
        /\ ToSet(F) = ToSet(loop.found) \cup {f}
    BY <2>1 DEF ToSet
  <2> HIDE DEF F
  <2> QED
    BY <2>1, <2>2
<1> HIDE DEF F
<1>15. LoopOK(l, text, Reachable)
  BY <1>1, <1>7, <1>9, <1>10, <1>11, <1>12, <1>13, <1>14 DEF LoopOK
<1> QED
  BY <1>15 DEF l, S, F, D, T

LEMMA DiscoverModuleStep ==
    ASSUME MInv, DiscoverModule
    PROVE  MInv'
<1>1. /\ Discovery /\ text' = text /\ loop.stack # <<>> /\ reading = NoText
      /\ text \in Texts /\ text.op = "modules" /\ LoopOK(loop, text, Reachable)
  BY DEF DiscoverModule, DiscoverFails, Continue, Given, Discovery, MInv
<1>2. CASE Refused
  <2>1. reading' = [outcome |-> "error"] /\ loop' = loop
    BY <1>2 DEF DiscoverModule, DiscoverFails
  <2> QED
    BY <1>1, <1>2, <2>1, RefusedExcused, SameProject DEF MInv
<1>3. CASE ~Refused /\ VisitedDirectory
  <2>1. loop' = [loop EXCEPT !.stack = Tail(@)] /\ reading' = NoText
    BY <1>1, <1>3 DEF DiscoverModule, Continue
  <2>2. LoopOK(loop', text, Reachable)
    BY <1>1, <1>3, <2>1, SeenAgain DEF VisitedDirectory
  <2> QED
    BY <1>1, <2>1, <2>2, SameProject DEF MInv
<1>4. CASE ~Refused /\ ~VisitedDirectory
  <2> DEFINE names == text.modules[Call.directory]
             calls == [i \in DOMAIN names |->
                         [directory |-> text.entered[<<Call.directory, names[i]>>],
                          selector |-> Append(Call.selector, names[i]),
                          depth |-> Call.depth + 1]]
  <2>1. /\ loop' = [stack |-> calls \o Tail(loop.stack),
                    visited |-> loop.visited \cup {Call.directory},
                    found |-> Append(loop.found, [selector |-> Call.selector,
                                                  directory |-> Call.directory])]
        /\ reading' = NoText
    BY <1>1, <1>4, Zenon DEF DiscoverModule, Continue
  <2>2. CallsFor(names, calls) /\ Call.directory \notin loop.visited
    BY <1>1, <1>4, ModuleCalls, Zenon DEF VisitedDirectory
  <2> HIDE DEF names, calls
  <2>3. LoopOK(loop', text, Reachable)
    BY <1>1, <2>1, <2>2, Entered, Zenon
  <2> QED
    BY <1>1, <2>1, <2>3, SameProject DEF MInv
<1> QED
  BY <1>2, <1>3, <1>4

LEMMA NextMInv == MInv /\ [OutputNext]_outputVars => MInv'
<1> SUFFICES ASSUME MInv, [OutputNext]_outputVars PROVE MInv'
  OBVIOUS
<1>1. CASE DiscoverModule
  BY <1>1, DiscoverModuleStep
<1>2. CASE DiscoverProject
  <2>1. /\ text' = text /\ loop' = loop /\ loop.stack = <<>>
        /\ reading' = [outcome |-> "discovered", found |-> loop.found]
    BY <1>2 DEF DiscoverProject
  <2> QED
    BY <2>1, SameProject DEF MInv
<1>3. CASE UNCHANGED outputVars
  BY <1>3, SameProject DEF outputVars, MInv
<1>4. CASE ResolutionLine \/ ExplainResolution \/ DependencyTree \/ WildcardStep \/ WildcardEnd
           \/ BuildClasspath \/ CoverageGaps \/ ScopedIdentity \/ ParentPom
           \/ ReactorIdentity \/ FocusedTest
  <2>1. text.op # "modules"
    BY <1>4, Zenon DEF ResolutionLine, ExplainResolution, DependencyTree, WildcardStep, WildcardEnd,
           BuildClasspath, CoverageGaps, ScopedIdentity, ParentPom, ReactorIdentity,
           FocusedTest, Given
  <2>2. text' = text
    <3>1. CASE ResolutionLine
      BY <3>1, Zenon DEF ResolutionLine, Continue
    <3>2. CASE WildcardStep
      BY <3>2, Zenon DEF WildcardStep, Continue, Matched
    <3>3. CASE ScopedIdentity
      BY <3>3, Zenon DEF ScopedIdentity, Continue, Unindexed
    <3>4. CASE ExplainResolution \/ DependencyTree \/ WildcardEnd \/ BuildClasspath
               \/ CoverageGaps \/ ParentPom \/ ReactorIdentity \/ FocusedTest
      BY <3>4, Zenon DEF ExplainResolution, DependencyTree, WildcardEnd, Matched, BuildClasspath,
             CoverageGaps, ParentPom, Continue, ReactorIdentity, Unindexed, FocusedTest
    <3> QED
      BY <1>4, <3>1, <3>2, <3>3, <3>4
  <2> QED
    BY <2>1, <2>2 DEF MInv, Discovery
<1> QED
  BY <1>1, <1>2, <1>3, <1>4 DEF OutputNext

LEMMA ModulesKept == MInv => ModulesOnce
<1> SUFFICES ASSUME MInv, Discovery, reading # NoText PROVE ModulesOnce
  BY DEF ModulesOnce, Read, Discovery
<1>1. LoopOK(loop, text, Reachable)
  BY DEF MInv
<1>2. CASE reading = [outcome |-> "error"] /\ Excused
  BY <1>2 DEF ModulesOnce, Excused
<1>3. CASE reading = [outcome |-> "discovered", found |-> loop.found] /\ loop.stack = <<>>
  <2>1. reading.outcome # "error" /\ reading.found = loop.found
    BY <1>3
  <2>2. Reachable \subseteq loop.visited
    <3>1. \A d : Known(loop, d) => d \in loop.visited
      BY <1>3 DEF Known
    <3>2. LeadsOnlyTo(loop.visited)
      BY <1>1, <3>1 DEF LoopOK, LeadsOnlyTo
    <3>3. loop.visited \in SUBSET Targets
      BY <1>1 DEF LoopOK, Reachable
    <3> QED
      BY <3>2, <3>3 DEF Reachable
  <2>3. loop.visited = Reachable
    BY <1>1, <2>2 DEF LoopOK
  <2> QED
    BY <1>1, <2>1, <2>3 DEF ModulesOnce, LoopOK
<1> QED
  BY <1>2, <1>3 DEF MInv

(* For every project, however its directories are linked: discover_project *)
(* finds each directory that the modules lead to exactly once, and fails   *)
(* only if one of them cannot be used or they are nested too deeply.       *)
THEOREM ModulesOnceHolds == OutputSpec => []ModulesOnce
BY InitMInv, NextMInv, ModulesKept, PTL DEF OutputSpec

-----------------------------------------------------------------------------
(* The classpath, by induction over the lines that Maven printed.          *)

ReadState(I) == [expected : BOOLEAN, found : BOOLEAN, items : SUBSET I]
NothingRead == [expected |-> FALSE, found |-> FALSE, items |-> {}]

(* What is known after the first i lines. *)
ReadSoFar(lines, i, f) ==
    /\ f.expected <=> i > 0 /\ lines[i].marker
    /\ f.found <=> \E j \in 1 .. i : lines[j].marker
    /\ f.items = UNION {lines[j].items : j \in {k \in 1 .. i : lines[k].classpath}}

Marked(lines) ==
    /\ lines \in Seq(ToSet(lines))
    /\ \A i \in DOMAIN lines :
         /\ lines[i].marker \in BOOLEAN
         /\ lines[i].classpath <=> i > 1 /\ lines[i - 1].marker
         /\ lines[i].marker => ~lines[i].classpath /\ i < Len(lines)

LEMMA LineRead ==
    ASSUME NEW lines, Marked(lines), NEW i \in 0 .. (Len(lines) - 1), NEW I,
           NEW f \in ReadState(I), ReadSoFar(lines, i, f)
    PROVE  ReadSoFar(lines, i + 1, ClasspathLine(f, lines[i + 1]))
<1> DEFINE line == lines[i + 1]
           B(n) == {k \in 1 .. n : lines[k].classpath}
           A(n) == {lines[j].items : j \in B(n)}
<1>0. /\ i \in Nat /\ Len(lines) \in Nat /\ DOMAIN lines = 1 .. Len(lines) /\ i + 1 \in DOMAIN lines
      /\ i + 1 > 0 /\ (i + 1) - 1 = i
  BY DEF Marked
<1>1. /\ line.marker \in BOOLEAN /\ (line.classpath <=> i > 0 /\ lines[i].marker)
      /\ (line.marker => ~line.classpath)
  <2>1. i + 1 > 1 <=> i > 0
    BY <1>0
  <2> QED
    BY <1>0, <2>1 DEF Marked
<1>2. f.expected <=> line.classpath
  BY <1>1 DEF ReadSoFar
<1>3. 1 .. (i + 1) = (1 .. i) \cup {i + 1}
  BY <1>0
<1>4. (\E j \in 1 .. (i + 1) : lines[j].marker) <=> (\E j \in 1 .. i : lines[j].marker) \/ line.marker
  BY <1>3
<1>5. B(i + 1) = IF line.classpath THEN B(i) \cup {i + 1} ELSE B(i)
  BY <1>3
<1>6. UNION A(i + 1) = IF line.classpath THEN (UNION A(i)) \cup line.items ELSE UNION A(i)
  <2>1. A(i + 1) = IF line.classpath THEN A(i) \cup {line.items} ELSE A(i)
    <3> HIDE DEF B
    <3> QED
      BY <1>5
  <2> QED
    BY <2>1
<1>7. f.items = UNION A(i) /\ (f.found <=> \E j \in 1 .. i : lines[j].marker)
  BY DEF ReadSoFar
<1> DEFINE g == ClasspathLine(f, line)
<1>8. /\ g.expected <=> line.marker
      /\ g.found <=> f.found \/ line.marker
      /\ g.items = IF line.classpath THEN f.items \cup line.items ELSE f.items
  <2>1. CASE f.expected
    BY <1>1, <1>2, <2>1 DEF ClasspathLine, ReadState
  <2>2. CASE ~f.expected /\ line.marker
    BY <1>1, <1>2, <2>2 DEF ClasspathLine, ReadState
  <2>3. CASE ~f.expected /\ ~line.marker
    BY <1>1, <1>2, <2>3 DEF ClasspathLine, ReadState
  <2> QED
    BY <2>1, <2>2, <2>3
<1> HIDE DEF g
<1> QED
  BY <1>0, <1>4, <1>6, <1>7, <1>8 DEF ReadSoFar, g

(* The recursive function of parse_classpath is the loop. *)
LEMMA ReadIs ==
    ASSUME NEW lines, Marked(lines), NEW I, \A i \in DOMAIN lines : lines[i].items \subseteq I,
           NEW p, p = (CHOOSE h : h = [i \in 0 .. Len(lines) |->
                          IF i = 0 THEN NothingRead ELSE ClasspathLine(h[i - 1], lines[i])])
    PROVE  p[Len(lines)] \in ReadState(I) /\ ReadSoFar(lines, Len(lines), p[Len(lines)])
<1> DEFINE N == Len(lines)
           V == ReadState(I)
           Reads(h) == h = [i \in 0 .. N |->
                          IF i = 0 THEN NothingRead ELSE ClasspathLine(h[i - 1], lines[i])]
           step == [x \in V \X (1 .. N) |-> ClasspathLine(x[1], lines[x[2]])]
<1>1. N \in Nat /\ DOMAIN lines = 1 .. N
  BY DEF Marked
<1>2. NothingRead \in V
  BY DEF NothingRead, ReadState
<1>3. \A f \in V, i \in 1 .. N : ClasspathLine(f, lines[i]) \in V
  <2> TAKE f \in V, i \in 1 .. N
  <2>1. lines[i].items \subseteq I /\ lines[i].marker \in BOOLEAN
    BY <1>1 DEF Marked
  <2> QED
    BY <2>1 DEF ClasspathLine, ReadState
<1>4. PICK g \in [0 .. N -> V] : g[0] = NothingRead /\ \A i \in 1 .. N : g[i] = step[<<g[i - 1], i>>]
  <2>1. N \in Nat /\ NothingRead \in V /\ step \in [V \X (1 .. N) -> V]
    BY <1>1, <1>2, <1>3
  <2> HIDE DEF step, V, N
  <2>2. FollowsStep(N, V, NothingRead, step)
    <3>1. IsStep(N, V, NothingRead, step)
      BY <2>1 DEF IsStep
    <3> QED
      BY <3>1, PrimitiveRecursion
  <2> QED
    BY <2>2 DEF FollowsStep
<1>5. \A i \in 1 .. N : g[i] = ClasspathLine(g[i - 1], lines[i])
  <2> TAKE i \in 1 .. N
  <2>1. i - 1 \in 0 .. N
    BY <1>1
  <2>2. g[i - 1] \in V
    BY <2>1
  <2> HIDE DEF V
  <2> QED
    BY <1>4, <2>2
<1>6. Reads(g)
  <2>1. g = [i \in 0 .. N |-> g[i]]
    OBVIOUS
  <2>2. ASSUME NEW i \in 0 .. N
        PROVE  g[i] = IF i = 0 THEN NothingRead ELSE ClasspathLine(g[i - 1], lines[i])
    <3>1. i = 0 \/ i \in 1 .. N
      BY <1>1
    <3> QED
      BY <1>1, <1>4, <1>5, <3>1
  <2> HIDE DEF V, step
  <2> QED
    BY <2>1, <2>2, Zenon
<1>7. Reads(p)
  <2>1. p = CHOOSE h : Reads(h)
    OBVIOUS
  <2> HIDE DEF Reads
  <2> QED
    BY <1>6, <2>1, Zenon
<1>8. p[0] = NothingRead /\ \A i \in 1 .. N : p[i] = ClasspathLine(p[i - 1], lines[i])
  <2>1. \A i \in 0 .. N : p[i] = IF i = 0 THEN NothingRead ELSE ClasspathLine(p[i - 1], lines[i])
    BY <1>7
  <2> QED
    BY <1>1, <2>1
<1> DEFINE T == {i \in 0 .. N : p[i] \in V /\ ReadSoFar(lines, i, p[i])}
<1>9. 0 \in T
  <2>1. ReadSoFar(lines, 0, NothingRead)
    BY DEF ReadSoFar, NothingRead
  <2> QED
    BY <1>1, <1>2, <1>8, <2>1
<1>10. \A i \in 0 .. (N - 1) : i \in T => i + 1 \in T
  <2> SUFFICES ASSUME NEW i \in 0 .. (N - 1), p[i] \in V, ReadSoFar(lines, i, p[i])
               PROVE  i + 1 \in T
    OBVIOUS
  <2>1. i + 1 \in 1 .. N /\ (i + 1) - 1 = i /\ i + 1 \in 0 .. N
    BY <1>1
  <2>2. p[i + 1] = ClasspathLine(p[i], lines[i + 1])
    BY <1>8, <2>1
  <2>3. p[i + 1] \in V
    BY <1>3, <2>1, <2>2
  <2>4. ReadSoFar(lines, i + 1, p[i + 1])
    BY <2>2, LineRead
  <2> QED
    BY <2>1, <2>3, <2>4
<1>11. 0 .. N \subseteq T
  <2> HIDE DEF T
  <2> QED
    BY <1>1, <1>9, <1>10, IntervalInduction
<1>12. N \in T
  <2> HIDE DEF T
  <2> QED
    BY <1>1, <1>11
<1> QED
  BY <1>12

ItemsPrinted(lines) == UNION {l.items : l \in {x \in ToSet(lines) : x.classpath}}

(* parse_classpath and parse_classpath_paths of a whole print. *)
LEMMA WholeParsed ==
    ASSUME NEW lines, Marked(lines), NEW items, items = ItemsPrinted(lines)
    PROVE  LET cut == ~\E l \in ToSet(lines) : l.marker
               archives == {i \in items : i.coordinate # NoText}
               absolute == {i \in items : i.absolute}
           IN ParseClasspath(lines) =
                [artifacts |-> {i.coordinate : i \in archives},
                 artifactsIncomplete |-> cut \/ archives # items,
                 paths |-> {i.path : i \in absolute},
                 pathsIncomplete |-> cut \/ absolute # items]
<1> DEFINE N == Len(lines)
           p == CHOOSE h : h = [i \in 0 .. N |->
                   IF i = 0 THEN NothingRead ELSE ClasspathLine(h[i - 1], lines[i])]
           I == UNION {lines[i].items : i \in DOMAIN lines}
           read == p[N]
           Parsed(r) == [artifacts |-> {i.coordinate : i \in {x \in r.items : x.coordinate # NoText}},
                         artifactsIncomplete |-> (r.expected \/ ~r.found)
                                   \/ {x \in r.items : x.coordinate # NoText} # r.items,
                         paths |-> {i.path : i \in {x \in r.items : x.absolute}},
                         pathsIncomplete |-> (r.expected \/ ~r.found)
                                   \/ {x \in r.items : x.absolute} # r.items]
<1>1. ParseClasspath(lines) = Parsed(read)
  BY DEF ParseClasspath, NothingRead
<1>2. read \in ReadState(I) /\ ReadSoFar(lines, N, read)
  <2>1. \A i \in DOMAIN lines : lines[i].items \subseteq I
    OBVIOUS
  <2> HIDE DEF I
  <2> QED
    BY <2>1, ReadIs
<1>3. N \in Nat /\ DOMAIN lines = 1 .. N /\ ToSet(lines) = {lines[i] : i \in 1 .. N}
  BY DEF Marked, ToSet
<1> HIDE DEF p
<1>4. read.expected = FALSE
  <2>1. ~(N > 0 /\ lines[N].marker)
    BY <1>3 DEF Marked
  <2> QED
    BY <1>2, <2>1 DEF ReadSoFar, ReadState
<1>5. read.found <=> \E l \in ToSet(lines) : l.marker
  BY <1>2, <1>3 DEF ReadSoFar
<1>6. read.items = items
  BY <1>2, <1>3 DEF ReadSoFar, ItemsPrinted
<1> QED
  BY <1>1, <1>4, <1>5, <1>6

(* What is read is what was printed, if it is complete. *)
LEMMA ClasspathRead ==
    ASSUME text \in Texts, text.op = "classpath", BuildClasspath
    PROVE  ClasspathTrue'
<1> DEFINE items == ItemsPrinted(text.printed)
           markers == \E l \in ToSet(text.printed) : l.marker
           truncated == text.kept # text.printed
           parsed == ParseClasspath(text.kept)
           archives == {i \in items : i.coordinate # NoText}
           absolute == {i \in items : i.absolute}
<1>1. Marked(text.printed)
  BY ClasspathAssumption DEF Marked
<1>2. text' = text /\ reading' = [paths |-> parsed.paths, artifacts |-> parsed.artifacts,
                      pathsIncomplete |-> truncated \/ parsed.pathsIncomplete,
                      incomplete |-> truncated \/ parsed.artifactsIncomplete
                                               \/ parsed.pathsIncomplete]
  BY DEF BuildClasspath
<1>3. ~truncated => parsed = [artifacts |-> {i.coordinate : i \in archives},
                 artifactsIncomplete |-> ~markers \/ archives # items,
                 paths |-> {i.path : i \in absolute},
                 pathsIncomplete |-> ~markers \/ absolute # items]
  <2> SUFFICES ASSUME ~truncated
               PROVE  ParseClasspath(text.printed) =
                [artifacts |-> {i.coordinate : i \in archives},
                 artifactsIncomplete |-> ~markers \/ archives # items,
                 paths |-> {i.path : i \in absolute},
                 pathsIncomplete |-> ~markers \/ absolute # items]
    OBVIOUS
  <2> QED
    BY <1>1, WholeParsed
<1>8. (absolute = items => \A i \in items : i.absolute) /\ (archives = items => \A i \in items : i.coordinate # NoText)
      /\ ((\A i \in items : i.absolute /\ i.coordinate # NoText) => absolute = items /\ archives = items)
  <2> HIDE DEF items
  <2> QED
    OBVIOUS
<1>9. truncated \in BOOLEAN /\ markers \in BOOLEAN
  OBVIOUS
<1> HIDE DEF items, markers, parsed, truncated, archives, absolute
<1>10. /\ reading'.paths = parsed.paths /\ reading'.artifacts = parsed.artifacts
       /\ reading'.pathsIncomplete = (truncated \/ parsed.pathsIncomplete)
       /\ reading'.incomplete = (truncated \/ parsed.artifactsIncomplete \/ parsed.pathsIncomplete)
  BY <1>2
<1>11. ~truncated =>
         /\ parsed.artifacts = {i.coordinate : i \in archives}
         /\ parsed.artifactsIncomplete = (~markers \/ archives # items)
         /\ parsed.paths = {i.path : i \in absolute}
         /\ parsed.pathsIncomplete = (~markers \/ absolute # items)
  BY <1>3
<1>4. ~reading'.pathsIncomplete => ~truncated /\ absolute = items /\ reading'.paths = {i.path : i \in items}
  BY <1>10, <1>11
<1>5. ~reading'.incomplete => ~truncated /\ archives = items /\ reading'.artifacts = {i.coordinate : i \in items}
  BY <1>10, <1>11
<1>6. ~truncated /\ markers /\ (\A i \in items : i.absolute /\ i.coordinate # NoText)
        => ~reading'.incomplete /\ ~reading'.pathsIncomplete
  BY <1>8, <1>9, <1>10, <1>11
<1>7. items = UNION {l.items : l \in {x \in ToSet(text'.printed) : x.classpath}}
      /\ (markers <=> \E l \in ToSet(text'.printed) : l.marker)
      /\ (truncated <=> ~(text'.kept = text'.printed))
  BY <1>2 DEF items, ItemsPrinted, markers, truncated
<1> QED
  BY <1>4, <1>5, <1>6, <1>7 DEF ClasspathTrue

(* A step reads a text of the kind that its action is for, and leaves the  *)
(* text as it is; what was read stays.                                     *)
Reads(op) == text.op = op /\ text # NoText /\ reading = NoText

LEMMA OutputStep ==
    ASSUME [OutputNext]_outputVars
    PROVE  /\ text' = text
           /\ \/ reading' = reading
              \/ Reads("tree") /\ ExplainResolution
              \/ Reads("depths") /\ DependencyTree
              \/ Reads("pattern") /\ (WildcardStep \/ WildcardEnd)
              \/ Reads("classpath") /\ BuildClasspath
              \/ Reads("coverage") /\ CoverageGaps
              \/ Reads("modules") /\ (DiscoverModule \/ DiscoverProject)
              \/ Reads("identity") /\ (ScopedIdentity \/ ReactorIdentity)
              \/ Reads("tests") /\ FocusedTest
<1>1. CASE ResolutionLine
  BY <1>1 DEF ResolutionLine, Continue
<1>2. CASE ExplainResolution
  BY <1>2 DEF ExplainResolution, Given, Reads
<1>3. CASE DependencyTree
  BY <1>3 DEF DependencyTree, Given, Reads
<1>4. CASE WildcardStep
  BY <1>4 DEF WildcardStep, Given, Reads, Continue, Matched
<1>5. CASE WildcardEnd
  BY <1>5 DEF WildcardEnd, Given, Reads, Matched
<1>6. CASE BuildClasspath
  BY <1>6 DEF BuildClasspath, Given, Reads
<1>7. CASE CoverageGaps
  BY <1>7 DEF CoverageGaps, Given, Reads
<1>8. CASE DiscoverModule
  <2>1. text' = text
    BY <1>8 DEF DiscoverModule, Continue, DiscoverFails
  <2> QED
    BY <1>8, <2>1 DEF DiscoverModule, Given, Reads
<1>9. CASE DiscoverProject
  BY <1>9 DEF DiscoverProject, Given, Reads
<1>10. CASE ScopedIdentity
  BY <1>10 DEF ScopedIdentity, Given, Reads, Continue, Unindexed
<1>11. CASE ParentPom
  BY <1>11 DEF ParentPom, Continue
<1>12. CASE ReactorIdentity
  <2>1. text' = text
    BY <1>12 DEF ReactorIdentity, Unindexed
  <2> QED
    BY <1>12, <2>1 DEF ReactorIdentity, Given, Reads
<1>13. CASE FocusedTest
  BY <1>13 DEF FocusedTest, Given, Reads
<1>14. CASE UNCHANGED outputVars
  BY <1>14 DEF outputVars
<1> QED
  BY <1>1, <1>2, <1>3, <1>4, <1>5, <1>6, <1>7, <1>8, <1>9, <1>10, <1>11, <1>12, <1>13, <1>14
     DEF OutputNext

(* build_classpath_paths: for every print of Maven and whatever is kept of   *)
(* it, a classpath that is not called incomplete is the one that Maven       *)
(* printed, and a whole print of absolute paths is not called incomplete.    *)
THEOREM ClasspathTrueHolds == OutputSpec => []ClasspathTrue
<1> DEFINE CInv == text \in Texts /\ ClasspathTrue
<1>1. OutputInit => CInv
  BY DEF OutputInit, ClasspathTrue, Read
<1>2. CInv /\ [OutputNext]_outputVars => CInv'
  <2> SUFFICES ASSUME CInv, [OutputNext]_outputVars PROVE CInv'
    OBVIOUS
  <2>1. text' = text
    BY OutputStep
  <2>2. CASE text.op = "classpath" /\ BuildClasspath
    BY <2>1, <2>2, ClasspathRead
  <2>3. CASE reading' = reading
    BY <2>1, <2>3 DEF ClasspathTrue, Read
  <2>4. CASE text.op # "classpath"
    BY <2>1, <2>4 DEF ClasspathTrue, Read
  <2> QED
    BY <2>2, <2>3, <2>4, OutputStep DEF Reads
<1>3. CInv => ClasspathTrue
  OBVIOUS
<1> QED
  BY <1>1, <1>2, <1>3, PTL DEF OutputSpec

-----------------------------------------------------------------------------
(* The matching of a pattern.  g has the positions <<i, j>> from which the *)
(* rest of the pattern matches the rest of the value.                      *)
IsGlob(p, v, g) ==
    /\ \A j \in 1 .. (Len(v) + 1) : <<Len(p) + 1, j>> \in g <=> j = Len(v) + 1
    /\ \A i \in 1 .. Len(p), j \in 1 .. (Len(v) + 1) :
         IF p[i] = "*"
         THEN <<i, j>> \in g <=> \E k \in j .. (Len(v) + 1) : <<i + 1, k>> \in g
         ELSE <<i, j>> \in g <=> j <= Len(v) /\ v[j] = p[i] /\ <<i + 1, j + 1>> \in g

Row(p, v, n, S) ==
    LET c == p[Len(p) + 1 - n]
        end == Len(v) + 1
    IN {j \in 1 .. end : IF c = "*" THEN \E k \in j .. end : k \in S
                         ELSE j < end /\ v[j] = c /\ j + 1 \in S}

LEMMA RowsAre ==
    ASSUME NEW p, Len(p) \in Nat, NEW v, Len(v) \in Nat
    PROVE  \E f : /\ f[0] = {Len(v) + 1}
                  /\ \A n \in 1 .. Len(p) : f[n] = Row(p, v, n, f[n - 1])
                  /\ IsInstance(v, p) <=> 1 \in f[Len(p)]
<1> DEFINE N == Len(p)
           V == SUBSET (1 .. (Len(v) + 1))
           base == {Len(v) + 1}
           Rows(h) == h = [n \in 0 .. N |-> IF n = 0 THEN base ELSE Row(p, v, n, h[n - 1])]
           step == [x \in V \X (1 .. N) |-> Row(p, v, x[2], x[1])]
<1>1. N \in Nat /\ base \in V
  BY Z3
<1>2. \A S \in V, n \in 1 .. N : Row(p, v, n, S) \in V
  BY DEF Row
<1>3. PICK g \in [0 .. N -> V] : g[0] = base /\ \A n \in 1 .. N : g[n] = step[<<g[n - 1], n>>]
  <2>1. N \in Nat /\ base \in V /\ step \in [V \X (1 .. N) -> V]
    <3> HIDE DEF V, N, base
    <3> QED
      BY <1>1, <1>2
  <2> HIDE DEF step, V, N, base
  <2>2. FollowsStep(N, V, base, step)
    <3>1. IsStep(N, V, base, step)
      BY <2>1 DEF IsStep
    <3> QED
      BY <3>1, PrimitiveRecursion
  <2> QED
    BY <2>2 DEF FollowsStep
<1>4. \A n \in 1 .. N : g[n] = Row(p, v, n, g[n - 1])
  <2> TAKE n \in 1 .. N
  <2>1. n - 1 \in 0 .. N
    BY <1>1
  <2>2. g[n - 1] \in V
    BY <2>1
  <2> HIDE DEF V
  <2> QED
    BY <1>3, <2>2
<1>5. Rows(g)
  <2>1. g = [n \in 0 .. N |-> g[n]]
    OBVIOUS
  <2>2. ASSUME NEW n \in 0 .. N
        PROVE  g[n] = IF n = 0 THEN base ELSE Row(p, v, n, g[n - 1])
    <3>1. n = 0 \/ n \in 1 .. N
      BY <1>1
    <3> HIDE DEF base
    <3> QED
      BY <1>1, <1>3, <1>4, <3>1
  <2> HIDE DEF V, step, base
  <2> QED
    BY <2>1, <2>2, Zenon
<1> DEFINE f == CHOOSE h : Rows(h)
<1>6. Rows(f)
  <2> HIDE DEF Rows
  <2> QED
    BY <1>5, Zenon
<1>7. IsInstance(v, p) <=> 1 \in f[N]
  BY DEF IsInstance, Row
<1> HIDE DEF f
<1>8. f[0] = base /\ \A n \in 1 .. N : f[n] = Row(p, v, n, f[n - 1])
  <2>1. \A n \in 0 .. N : f[n] = IF n = 0 THEN base ELSE Row(p, v, n, f[n - 1])
    <3> HIDE DEF base
    <3> QED
      BY <1>6
  <2> HIDE DEF base
  <2> QED
    BY <1>1, <2>1
<1> QED
  BY <1>7, <1>8

LEMMA GlobExists ==
    ASSUME NEW p, Len(p) \in Nat, NEW v, Len(v) \in Nat
    PROVE  \E g : IsGlob(p, v, g) /\ (IsInstance(v, p) <=> <<1, 1>> \in g)
<1> DEFINE P == Len(p)
           E == Len(v) + 1
<1>1. PICK f : /\ f[0] = {E}
               /\ \A n \in 1 .. P : f[n] = Row(p, v, n, f[n - 1])
               /\ IsInstance(v, p) <=> 1 \in f[P]
  BY RowsAre
<1> DEFINE g == {x \in (1 .. (P + 1)) \X (1 .. E) : x[2] \in f[P + 1 - x[1]]}
<1>2. P \in Nat /\ E \in Nat /\ E >= 1
  OBVIOUS
<1>3. \A i \in 1 .. (P + 1), j \in 1 .. E : <<i, j>> \in g <=> j \in f[P + 1 - i]
  OBVIOUS
<1> HIDE DEF g
<1>4. \A j \in 1 .. E : <<P + 1, j>> \in g <=> j = E
  BY <1>1, <1>2, <1>3
<1>5. \A i \in 1 .. P, j \in 1 .. E :
         /\ p[i] = "*" => (<<i, j>> \in g <=> \E k \in j .. E : <<i + 1, k>> \in g)
         /\ p[i] # "*" => (<<i, j>> \in g <=> j < E /\ v[j] = p[i] /\ <<i + 1, j + 1>> \in g)
  <2> TAKE i \in 1 .. P, j \in 1 .. E
  <2>1. /\ P + 1 - i \in 1 .. P /\ (P + 1 - i) - 1 = P + 1 - (i + 1) /\ P + 1 - (P + 1 - i) = i
        /\ i \in 1 .. (P + 1) /\ i + 1 \in 1 .. (P + 1)
    BY <1>2
  <2> DEFINE S == f[P + 1 - (i + 1)]
  <2>2. f[P + 1 - i] = Row(p, v, P + 1 - i, S)
    BY <1>1, <2>1
  <2>3. <<i, j>> \in g <=> j \in Row(p, v, P + 1 - i, S)
    BY <1>3, <2>1, <2>2
  <2>4. \A k \in 1 .. E : <<i + 1, k>> \in g <=> k \in S
    BY <1>3, <2>1
  <2> HIDE DEF S
  <2>5. j \in Row(p, v, P + 1 - i, S) <=>
          IF p[i] = "*" THEN \E k \in j .. E : k \in S ELSE j < E /\ v[j] = p[i] /\ j + 1 \in S
    BY <2>1 DEF Row
  <2>6. (\A k \in j .. E : k \in 1 .. E) /\ (j < E => j + 1 \in 1 .. E)
    BY <1>2
  <2> QED
    BY <2>3, <2>4, <2>5, <2>6
<1>6. IsGlob(p, v, g)
  <2>1. \A j \in 1 .. E : j < E <=> j <= Len(v)
    BY <1>2
  <2> QED
    BY <1>4, <1>5, <2>1 DEF IsGlob
<1>7. <<1, 1>> \in g <=> 1 \in f[P]
  <2>1. 1 \in 1 .. (P + 1) /\ 1 \in 1 .. E /\ P + 1 - 1 = P
    BY <1>2
  <2> QED
    BY <1>3, <2>1
<1> QED
  BY <1>1, <1>6, <1>7

(* What the positions of the loop l are worth, for any g.                  *)
Cursor(l, p, v, g) ==
    /\ DOMAIN l = {"p", "v", "star", "starV"}
    /\ l.p \in 1 .. (Len(p) + 1) /\ l.v \in 1 .. (Len(v) + 1) /\ l.star \in 0 .. Len(p)
    /\ l.star = 0 => (<<1, 1>> \in g <=> <<l.p, l.v>> \in g)
    /\ l.star # 0 =>
         /\ l.star < l.p /\ l.starV \in 1 .. l.v /\ l.p - l.star - 1 = l.v - l.starV
         /\ <<1, 1>> \in g <=> \E k \in l.starV .. (Len(v) + 1) : <<l.star + 1, k>> \in g
         /\ \A k \in l.starV .. (Len(v) + 1) : <<l.star + 1, k>> \in g =>
              k + (l.v - l.starV) <= Len(v) + 1 /\ <<l.p, k + (l.v - l.starV)>> \in g
         /\ <<l.p, l.v>> \in g => <<l.star + 1, l.starV>> \in g

(* The same character: both positions move on. *)
LEMMA CursorSame ==
    ASSUME NEW p, Len(p) \in Nat, NEW v, Len(v) \in Nat, NEW g, IsGlob(p, v, g),
           NEW l, Cursor(l, p, v, g), l.v <= Len(v), l.p <= Len(p), p[l.p] = v[l.v], v[l.v] # "*",
           NEW m, m = [l EXCEPT !.p = @ + 1, !.v = @ + 1]
    PROVE  Cursor(m, p, v, g)
<1> DEFINE E == Len(v) + 1
<1>1. /\ DOMAIN m = {"p", "v", "star", "starV"} /\ m.p = l.p + 1 /\ m.v = l.v + 1
      /\ m.star = l.star /\ m.starV = l.starV
  BY DEF Cursor
<1>2. /\ l.p \in 1 .. Len(p) /\ l.v \in 1 .. Len(v) /\ l.star \in 0 .. Len(p) /\ E \in Nat
      /\ m.p \in 1 .. (Len(p) + 1) /\ m.v \in 1 .. E
  BY <1>1 DEF Cursor
<1>3. \A j \in 1 .. E : <<l.p, j>> \in g <=> j <= Len(v) /\ v[j] = p[l.p] /\ <<l.p + 1, j + 1>> \in g
  BY <1>2 DEF IsGlob
<1>4. <<l.p, l.v>> \in g <=> <<m.p, m.v>> \in g
  <2>1. l.v \in 1 .. E
    BY <1>2
  <2> QED
    BY <1>1, <1>3, <2>1
<1>5. CASE l.star = 0
  BY <1>1, <1>2, <1>4, <1>5 DEF Cursor
<1>6. CASE l.star # 0
  <2>1. /\ l.star < l.p /\ l.starV \in 1 .. l.v /\ l.p - l.star - 1 = l.v - l.starV
        /\ <<1, 1>> \in g <=> \E k \in l.starV .. E : <<l.star + 1, k>> \in g
        /\ \A k \in l.starV .. E : <<l.star + 1, k>> \in g =>
              k + (l.v - l.starV) <= E /\ <<l.p, k + (l.v - l.starV)>> \in g
        /\ <<l.p, l.v>> \in g => <<l.star + 1, l.starV>> \in g
    BY <1>6 DEF Cursor
  <2>0. /\ l.p \in Int /\ l.v \in Int /\ l.star \in Int /\ l.starV \in Int
        /\ l.star < l.p /\ 1 <= l.starV /\ l.starV <= l.v /\ l.p - l.star - 1 = l.v - l.starV
    BY <1>2, <2>1
  <2>2. m.star < m.p /\ m.starV \in 1 .. m.v /\ m.p - m.star - 1 = m.v - m.starV
    BY <1>1, <2>0
  <2>3. ASSUME NEW k \in m.starV .. E, <<m.star + 1, k>> \in g
        PROVE  k + (m.v - m.starV) <= E /\ <<m.p, k + (m.v - m.starV)>> \in g
    <3> DEFINE j == k + (l.v - l.starV)
    <3>1. k \in l.starV .. E /\ k + (l.v - l.starV) <= E /\ <<l.p, j>> \in g
      BY <1>1, <2>1, <2>3
    <3>2. j \in 1 .. E /\ k + (m.v - m.starV) = j + 1
      <4>1. k \in Int /\ l.starV <= k /\ j <= E
        BY <2>0, <3>1
      <4>2. j \in Int /\ 1 <= j
        BY <2>0, <4>1
      <4>3. k + ((l.v + 1) - l.starV) = (k + (l.v - l.starV)) + 1
        BY <2>0, <4>1
      <4> QED
        BY <1>1, <1>2, <4>1, <4>2, <4>3
    <3> HIDE DEF j
    <3>3. j <= Len(v) /\ <<l.p + 1, j + 1>> \in g
      BY <1>3, <3>1, <3>2
    <3>4. j + 1 <= E
      BY <1>2, <3>2, <3>3
    <3> QED
      BY <1>1, <3>2, <3>3, <3>4
  <2> QED
    BY <1>1, <1>2, <1>4, <2>1, <2>2, <2>3 DEF Cursor
<1> QED
  BY <1>5, <1>6

(* A star: it takes nothing for now. *)
LEMMA CursorStar ==
    ASSUME NEW p, Len(p) \in Nat, NEW v, Len(v) \in Nat, NEW g, IsGlob(p, v, g),
           NEW l, Cursor(l, p, v, g), l.v <= Len(v), l.p <= Len(p), p[l.p] = "*",
           NEW m, m = [l EXCEPT !.star = l.p, !.p = @ + 1, !.starV = l.v]
    PROVE  Cursor(m, p, v, g)
<1> DEFINE E == Len(v) + 1
<1>1. /\ DOMAIN m = {"p", "v", "star", "starV"} /\ m.p = l.p + 1 /\ m.v = l.v
      /\ m.star = l.p /\ m.starV = l.v
  BY DEF Cursor
<1>2. /\ l.p \in 1 .. Len(p) /\ l.v \in 1 .. Len(v) /\ l.star \in 0 .. Len(p) /\ E \in Nat
      /\ m.p \in 1 .. (Len(p) + 1) /\ m.v \in 1 .. E
  BY <1>1 DEF Cursor
<1>3. \A j \in 1 .. E : <<l.p, j>> \in g <=> \E k \in j .. E : <<l.p + 1, k>> \in g
  BY <1>2 DEF IsGlob
<1>4. <<1, 1>> \in g <=> \E k \in l.v .. E : <<l.p + 1, k>> \in g
  <2>0. l.v \in 1 .. E
    BY <1>2
  <2>1. CASE l.star = 0
    BY <1>3, <2>0, <2>1 DEF Cursor
  <2>2. CASE l.star # 0
    <3>1. /\ l.star < l.p /\ l.starV \in 1 .. l.v /\ l.p - l.star - 1 = l.v - l.starV
          /\ <<1, 1>> \in g <=> \E k \in l.starV .. E : <<l.star + 1, k>> \in g
          /\ \A k \in l.starV .. E : <<l.star + 1, k>> \in g =>
                k + (l.v - l.starV) <= E /\ <<l.p, k + (l.v - l.starV)>> \in g
          /\ <<l.p, l.v>> \in g => <<l.star + 1, l.starV>> \in g
      BY <2>2 DEF Cursor
    <3>2. ASSUME NEW k \in l.starV .. E, <<l.star + 1, k>> \in g
          PROVE  \E i \in l.v .. E : <<l.p + 1, i>> \in g
      <4> DEFINE j == k + (l.v - l.starV)
      <4>1. j <= E /\ <<l.p, j>> \in g
        BY <3>1, <3>2
      <4>2. j \in 1 .. E /\ j >= l.v
        <5>1. /\ l.v \in Int /\ l.starV \in Int /\ 1 <= l.starV /\ l.starV <= l.v
              /\ k \in Int /\ l.starV <= k
          BY <1>2, <3>1
        <5> QED
          BY <1>2, <4>1, <5>1
      <4> HIDE DEF j
      <4>3. PICK i \in j .. E : <<l.p + 1, i>> \in g
        BY <1>3, <4>1, <4>2
      <4>4. i \in l.v .. E
        BY <1>2, <4>2
      <4> QED
        BY <4>3, <4>4
    <3>3. ASSUME NEW k \in l.v .. E, <<l.p + 1, k>> \in g
          PROVE  \E i \in l.starV .. E : <<l.star + 1, i>> \in g
      <4>1. <<l.p, l.v>> \in g
        BY <1>3, <2>0, <3>3
      <4>2. l.starV \in l.starV .. E
        <5>1. l.v \in Int /\ l.starV \in Int /\ l.starV <= l.v /\ l.v <= Len(v)
          BY <1>2, <3>1
        <5>2. E \in Int /\ l.starV <= E
          BY <5>1
        <5> HIDE DEF E
        <5> QED
          BY <5>1, <5>2
      <4> QED
        BY <3>1, <4>1, <4>2
    <3> QED
      BY <3>1, <3>2, <3>3
  <2> QED
    BY <2>1, <2>2
<1>5. /\ m.star < m.p /\ m.starV \in 1 .. m.v /\ m.p - m.star - 1 = m.v - m.starV
      /\ m.star \in 0 .. Len(p) /\ m.star # 0
  BY <1>1, <1>2
<1>6. \A k \in m.starV .. E : k + (m.v - m.starV) = k /\ k <= E
  <2>1. m.v \in Int /\ m.starV = m.v
    BY <1>1, <1>2
  <2> QED
    BY <1>2, <2>1
<1>7. /\ <<1, 1>> \in g <=> \E k \in m.starV .. E : <<m.star + 1, k>> \in g
      /\ m.p = m.star + 1
  BY <1>1, <1>4
<1>8. <<m.p, m.v>> \in g => <<m.star + 1, m.starV>> \in g
  BY <1>1, <1>7
<1>9. \A k \in m.starV .. E : <<m.star + 1, k>> \in g =>
         k + (m.v - m.starV) <= E /\ <<m.p, k + (m.v - m.starV)>> \in g
  BY <1>6, <1>7
<1> QED
  BY <1>1, <1>2, <1>5, <1>7, <1>8, <1>9 DEF Cursor

(* Neither: the last star takes one character more. *)
LEMMA CursorRetry ==
    ASSUME NEW p, Len(p) \in Nat, NEW v, Len(v) \in Nat, NEW g, IsGlob(p, v, g),
           NEW l, Cursor(l, p, v, g), l.v <= Len(v), l.p <= Len(p) => p[l.p] # v[l.v] /\ p[l.p] # "*"
    PROVE  /\ <<l.p, l.v>> \notin g
           /\ l.star # 0 => \A m : m = [l EXCEPT !.p = l.star + 1, !.starV = @ + 1, !.v = l.starV + 1]
                                     => Cursor(m, p, v, g)
<1> DEFINE E == Len(v) + 1
<1>1. /\ l.p \in 1 .. (Len(p) + 1) /\ l.v \in 1 .. Len(v) /\ l.star \in 0 .. Len(p) /\ E \in Nat
      /\ l.v \in 1 .. E /\ l.v < E
  BY DEF Cursor
<1>2. <<l.p, l.v>> \notin g
  <2>1. CASE l.p = Len(p) + 1
    BY <1>1, <2>1 DEF IsGlob
  <2>2. CASE l.p # Len(p) + 1
    <3>1. l.p \in 1 .. Len(p) /\ p[l.p] # v[l.v] /\ p[l.p] # "*"
      BY <1>1, <2>2
    <3>2. <<l.p, l.v>> \in g => v[l.v] = p[l.p]
      BY <1>1, <3>1 DEF IsGlob
    <3> QED
      BY <3>1, <3>2
  <2> QED
    BY <2>1, <2>2
<1>3. ASSUME l.star # 0, NEW m, m = [l EXCEPT !.p = l.star + 1, !.starV = @ + 1, !.v = l.starV + 1]
      PROVE  Cursor(m, p, v, g)
  <2>1. /\ l.star < l.p /\ l.starV \in 1 .. l.v /\ l.p - l.star - 1 = l.v - l.starV
        /\ <<1, 1>> \in g <=> \E k \in l.starV .. E : <<l.star + 1, k>> \in g
        /\ \A k \in l.starV .. E : <<l.star + 1, k>> \in g =>
              k + (l.v - l.starV) <= E /\ <<l.p, k + (l.v - l.starV)>> \in g
    BY <1>3 DEF Cursor
  <2>2. /\ DOMAIN m = {"p", "v", "star", "starV"} /\ m.p = l.star + 1 /\ m.v = l.starV + 1
        /\ m.star = l.star /\ m.starV = l.starV + 1
    BY <1>3 DEF Cursor
  <2>3. <<l.star + 1, l.starV>> \notin g
    <3>1. l.starV \in l.starV .. E /\ l.starV + (l.v - l.starV) = l.v
      BY <1>1, <2>1
    <3> QED
      BY <1>2, <2>1, <3>1
  <2>4. \A k \in l.starV .. E : k = l.starV \/ k \in (l.starV + 1) .. E
    BY <1>1, <2>1
  <2>5. \A k \in (l.starV + 1) .. E : k \in l.starV .. E
    BY <1>1, <2>1
  <2>6. <<1, 1>> \in g <=> \E k \in (l.starV + 1) .. E : <<l.star + 1, k>> \in g
    BY <2>1, <2>3, <2>4, <2>5
  <2>7. /\ m.star < m.p /\ m.starV \in 1 .. m.v /\ m.p - m.star - 1 = m.v - m.starV
        /\ m.star \in 0 .. Len(p) /\ m.star # 0 /\ m.v - m.starV = 0
        /\ m.p \in 1 .. (Len(p) + 1) /\ m.v \in 1 .. E /\ m.v \in Int /\ m.starV = m.v
    <3>1. l.starV \in Int /\ 1 <= l.starV /\ l.starV <= l.v /\ l.v \in Int
      BY <1>1, <2>1
    <3>2. l.starV + 1 \in 1 .. E /\ l.star + 1 \in 1 .. (Len(p) + 1) /\ l.star < l.star + 1
          /\ (l.star + 1) - l.star - 1 = 0 /\ (l.starV + 1) - (l.starV + 1) = 0
          /\ l.starV + 1 \in 1 .. (l.starV + 1) /\ l.starV + 1 \in Int
      BY <1>1, <3>1
    <3> QED
      BY <1>1, <1>3, <2>2, <3>2
  <2>8. \A k \in m.starV .. E : k + (m.v - m.starV) = k /\ k <= E
    BY <1>1, <2>7
  <2>9. /\ <<1, 1>> \in g <=> \E k \in m.starV .. E : <<m.star + 1, k>> \in g
        /\ m.p = m.star + 1
    BY <2>2, <2>6
  <2> QED
    BY <2>2, <2>7, <2>8, <2>9 DEF Cursor
<1> QED
  BY <1>2, <1>3

(* Of a pattern, only stars match the empty rest of a value. *)
LEMMA OnlyStars ==
    ASSUME NEW p, Len(p) \in Nat, NEW v, Len(v) \in Nat, NEW g, IsGlob(p, v, g),
           NEW i \in 1 .. (Len(p) + 1)
    PROVE  <<i, Len(v) + 1>> \in g <=> \A k \in i .. Len(p) : p[k] = "*"
<1> DEFINE P == Len(p)
           E == Len(v) + 1
           Stars(j) == <<j, E>> \in g <=> \A k \in j .. P : p[k] = "*"
           T == {n \in 0 .. P : Stars(P + 1 - n)}
<1>0. P \in Nat /\ E \in Nat /\ E \in 1 .. E
  OBVIOUS
<1>1. 0 \in T
  <2>1. <<P + 1, E>> \in g
    BY <1>0 DEF IsGlob
  <2>2. Stars(P + 1)
    BY <1>0, <2>1
  <2>3. P + 1 - 0 = P + 1 /\ 0 \in 0 .. P
    BY <1>0
  <2> HIDE DEF Stars
  <2> QED
    BY <2>2, <2>3
<1>2. \A n \in 0 .. (P - 1) : n \in T => n + 1 \in T
  <2> SUFFICES ASSUME NEW n \in 0 .. (P - 1), Stars(P + 1 - n)
               PROVE  n + 1 \in T
    OBVIOUS
  <2> DEFINE j == P + 1 - (n + 1)
  <2>1. j \in 1 .. P /\ j + 1 = P + 1 - n /\ n + 1 \in 0 .. P /\ j .. P = {j} \cup ((j + 1) .. P)
    BY <1>0
  <2>2. Stars(j + 1)
    BY <2>1
  <2> HIDE DEF j
  <2>3. <<j, E>> \in g <=> p[j] = "*" /\ <<j + 1, E>> \in g
    <3>1. E .. E = {E} /\ ~(E <= Len(v))
      BY <1>0
    <3>2. IF p[j] = "*" THEN <<j, E>> \in g <=> \E k \in E .. E : <<j + 1, k>> \in g
          ELSE <<j, E>> \in g <=> E <= Len(v) /\ v[E] = p[j] /\ <<j + 1, E + 1>> \in g
      BY <1>0, <2>1 DEF IsGlob
    <3> HIDE DEF E
    <3> QED
      BY <3>1, <3>2
  <2>4. Stars(j)
    BY <2>1, <2>2, <2>3
  <2> HIDE DEF Stars
  <2> QED
    BY <2>1, <2>4 DEF j
<1>3. 0 .. P \subseteq T
  <2> HIDE DEF T
  <2> QED
    BY <1>0, <1>1, <1>2, IntervalInduction
<1>4. P + 1 - i \in T
  <2>1. P + 1 - i \in 0 .. P
    BY <1>0
  <2> HIDE DEF T
  <2> QED
    BY <1>3, <2>1
<1>5. P + 1 - (P + 1 - i) = i
  BY <1>0
<1> HIDE DEF Stars
<1>6. Stars(i)
  BY <1>4, <1>5
<1> QED
  BY <1>6 DEF Stars

(* At the end of the value the rest of the pattern decides. *)
LEMMA CursorEnd ==
    ASSUME NEW p, Len(p) \in Nat, NEW v, Len(v) \in Nat, NEW g, IsGlob(p, v, g),
           NEW l, Cursor(l, p, v, g), l.v > Len(v)
    PROVE  <<1, 1>> \in g <=> \A k \in l.p .. Len(p) : p[k] = "*"
<1> DEFINE E == Len(v) + 1
<1>1. l.p \in 1 .. (Len(p) + 1) /\ l.v = E /\ E \in Nat /\ l.v \in Int
  BY DEF Cursor
<1>2. <<l.p, l.v>> \in g <=> \A k \in l.p .. Len(p) : p[k] = "*"
  BY <1>1, OnlyStars
<1>3. <<1, 1>> \in g <=> <<l.p, l.v>> \in g
  <2>1. CASE l.star = 0
    BY <2>1 DEF Cursor
  <2>2. CASE l.star # 0
    <3>1. /\ l.starV \in 1 .. l.v
          /\ <<1, 1>> \in g <=> \E k \in l.starV .. E : <<l.star + 1, k>> \in g
          /\ \A k \in l.starV .. E : <<l.star + 1, k>> \in g =>
                k + (l.v - l.starV) <= E /\ <<l.p, k + (l.v - l.starV)>> \in g
          /\ <<l.p, l.v>> \in g => <<l.star + 1, l.starV>> \in g
      BY <2>2 DEF Cursor
    <3>2. l.starV \in Int /\ l.starV <= E /\ l.starV \in l.starV .. E
      BY <1>1, <3>1
    <3>3. ASSUME NEW k \in l.starV .. E, <<l.star + 1, k>> \in g
          PROVE  <<l.p, l.v>> \in g
      <4>1. k + (l.v - l.starV) <= E /\ <<l.p, k + (l.v - l.starV)>> \in g
        BY <3>1, <3>3
      <4>2. k \in Int /\ l.starV <= k
        BY <3>2
      <4>3. k + (l.v - l.starV) = l.v
        BY <1>1, <3>2, <4>1, <4>2
      <4> QED
        BY <4>1, <4>3
    <3> QED
      BY <3>1, <3>2, <3>3
  <2> QED
    BY <2>1, <2>2
<1> QED
  BY <1>2, <1>3

Globs == {t \in Texts : t.op = "pattern"}

PInv ==
    text \in Globs =>
        /\ \A g : IsGlob(text.pattern, text.value, g) => Cursor(loop, text.pattern, text.value, g)
        /\ reading # NoText => (reading.matches <=> IsInstance(text.value, text.pattern))

LEMMA GlobText ==
    ASSUME NEW t \in Globs
    PROVE  /\ Len(t.pattern) \in Nat /\ Len(t.value) \in Nat
           /\ \A i \in 1 .. Len(t.value) : t.value[i] # "*"
<1>1. t.pattern \in Seq(ToSet(t.pattern)) /\ t.value \in Seq(ToSet(t.value) \ {"*"})
  BY PatternAssumption DEF Globs
<1> QED
  BY <1>1

LEMMA InitPInv == OutputInit => PInv
<1> SUFFICES ASSUME OutputInit, text \in Globs,
                    NEW g, IsGlob(text.pattern, text.value, g)
             PROVE  Cursor(loop, text.pattern, text.value, g)
  BY DEF PInv, OutputInit
<1>1. loop = [p |-> 1, v |-> 1, star |-> 0, starV |-> 1]
  BY DEF OutputInit, Globs
<1> QED
  BY <1>1, GlobText DEF Cursor

LEMMA NextPInv == PInv /\ [OutputNext]_outputVars => PInv'
<1> SUFFICES ASSUME PInv, [OutputNext]_outputVars, text \in Globs
             PROVE  PInv'
  BY OutputStep DEF PInv
<1> DEFINE p == text.pattern
           v == text.value
<1>0. /\ Len(p) \in Nat /\ Len(v) \in Nat /\ \A i \in 1 .. Len(v) : v[i] # "*"
      /\ text.op = "pattern" /\ text' = text
  BY GlobText, OutputStep DEF Globs
<1>1. PICK h : IsGlob(p, v, h) /\ (IsInstance(v, p) <=> <<1, 1>> \in h)
  BY <1>0, GlobExists
<1>2. \A g : IsGlob(p, v, g) => Cursor(loop, p, v, g)
  BY DEF PInv
<1> HIDE DEF p, v
<1>3. CASE WildcardStep
  <2>1. loop.v <= Len(v) /\ reading = NoText
    BY <1>3 DEF WildcardStep, Given, v
  <2>2. loop.v \in 1 .. Len(v) /\ loop.p \in 1 .. (Len(p) + 1) /\ v[loop.v] # "*"
    BY <1>0, <1>1, <1>2, <2>1 DEF Cursor
  <2>3. CASE SameCharacter
    <3>1. loop.p <= Len(p) /\ p[loop.p] = v[loop.v] /\ reading' = reading
          /\ loop' = [loop EXCEPT !.p = @ + 1, !.v = @ + 1]
      BY <1>3, <2>3 DEF WildcardStep, SameCharacter, Continue, p, v
    <3>2. \A g : IsGlob(p, v, g) => Cursor(loop', p, v, g)
      BY <1>0, <1>2, <2>1, <2>2, <3>1, CursorSame
    <3> QED
      BY <1>0, <2>1, <3>1, <3>2 DEF PInv, p, v
  <2>4. CASE ~SameCharacter /\ AtStar
    <3>1. loop.p <= Len(p) /\ p[loop.p] = "*" /\ reading' = reading
          /\ loop' = [loop EXCEPT !.star = loop.p, !.p = @ + 1, !.starV = loop.v]
      BY <1>3, <2>4 DEF WildcardStep, AtStar, Continue, p
    <3>2. \A g : IsGlob(p, v, g) => Cursor(loop', p, v, g)
      BY <1>0, <1>2, <2>1, <2>2, <3>1, CursorStar
    <3> QED
      BY <1>0, <2>1, <3>1, <3>2 DEF PInv, p, v
  <2>5. CASE ~SameCharacter /\ ~AtStar
    <3>1. loop.p <= Len(p) => p[loop.p] # v[loop.v] /\ p[loop.p] # "*"
      BY <2>5 DEF SameCharacter, AtStar, p, v
    <3>2. CASE loop.star # 0
      <4>1. /\ reading' = reading
            /\ loop' = [loop EXCEPT !.p = loop.star + 1, !.starV = @ + 1, !.v = loop.starV + 1]
        BY <1>3, <2>5, <3>2 DEF WildcardStep, Continue, Retry
      <4>2. \A g : IsGlob(p, v, g) => Cursor(loop', p, v, g)
        BY <1>0, <1>2, <2>1, <3>1, <3>2, <4>1, CursorRetry
      <4> QED
        BY <1>0, <2>1, <4>1, <4>2 DEF PInv, p, v
    <3>3. CASE loop.star = 0
      <4>1. loop' = loop /\ reading' = [matches |-> FALSE]
        BY <1>3, <2>5, <3>3 DEF WildcardStep, Matched
      <4>2. <<loop.p, loop.v>> \notin h
        BY <1>0, <1>1, <1>2, <2>1, <3>1, CursorRetry
      <4>3. <<1, 1>> \notin h
        BY <1>1, <1>2, <3>3, <4>2 DEF Cursor
      <4>4. reading'.matches <=> IsInstance(v, p)
        BY <1>1, <4>1, <4>3
      <4> QED
        BY <1>0, <1>2, <4>1, <4>4 DEF PInv, p, v
    <3> QED
      BY <3>2, <3>3
  <2> QED
    BY <2>3, <2>4, <2>5
<1>4. CASE WildcardEnd
  <2>1. /\ loop.v > Len(v) /\ loop' = loop
        /\ reading' = [matches |-> \A i \in loop.p .. Len(p) : p[i] = "*"]
    BY <1>4 DEF WildcardEnd, Matched, p, v
  <2>2. <<1, 1>> \in h <=> \A i \in loop.p .. Len(p) : p[i] = "*"
    BY <1>0, <1>1, <1>2, <2>1, CursorEnd
  <2>3. reading'.matches <=> IsInstance(v, p)
    BY <1>1, <2>1, <2>2
  <2> QED
    BY <1>0, <1>2, <2>1, <2>3 DEF PInv, p, v
<1>5. CASE UNCHANGED outputVars
  BY <1>5 DEF PInv, outputVars
<1>6. CASE ~WildcardStep /\ ~WildcardEnd /\ ~UNCHANGED outputVars
  <2>1. ~Given("tree") /\ ~Given("depths") /\ ~Given("classpath") /\ ~Given("coverage")
        /\ ~Given("modules") /\ ~Given("identity") /\ ~Given("tests")
    BY <1>0 DEF Given
  <2> QED
    BY <1>6, <2>1 DEF OutputNext, ResolutionLine, ExplainResolution, DependencyTree,
       BuildClasspath, CoverageGaps, DiscoverModule, DiscoverProject, ScopedIdentity, ParentPom,
       ReactorIdentity, FocusedTest
<1> QED
  BY <1>3, <1>4, <1>5, <1>6

(* wildcard_matches: for every pattern and every value without stars, the    *)
(* loop that only goes back to its last star finds a match if there is one.  *)
THEOREM WildcardIsGlobHolds == OutputSpec => []WildcardIsGlob
<1> DEFINE TInv == text \in Texts /\ PInv
<1>1. OutputInit => TInv
  BY InitPInv DEF OutputInit
<1>2. TInv /\ [OutputNext]_outputVars => TInv'
  BY NextPInv, OutputStep
<1>3. TInv => WildcardIsGlob
  BY DEF PInv, WildcardIsGlob, Read, Globs
<1> QED
  BY <1>1, <1>2, <1>3, PTL DEF OutputSpec

-----------------------------------------------------------------------------
(* The reports of a focused test. *)

(* The sums over a finite set of reports of what their suites count. *)
LEMMA Counted ==
    ASSUME NEW R, IsFiniteSet(R),
           \A r \in R : /\ r.tests \in Nat /\ r.failures \in Nat /\ r.errors \in Nat /\ r.skipped \in Nat
                        /\ r.failures + r.errors + r.skipped <= r.tests
    PROVE  LET s == ParseTestReports(R).summary IN
           /\ s.failed + s.errors + s.skipped + s.passed = SumFunction([r \in R |-> r.tests])
           /\ s.failed \in Nat /\ s.errors \in Nat
           /\ \A r \in R : r.failures <= s.failed /\ r.errors <= s.errors
<1> DEFINE f == [r \in R |-> r.failures]
           e == [r \in R |-> r.errors]
           k == [r \in R |-> r.skipped]
           left(r) == r.tests - (r.failures + r.errors + r.skipped)
           p == [r \in R |-> IF left(r) > 0 THEN left(r) ELSE 0]
           fe == [r \in R |-> f[r] + e[r]]
           fek == [r \in R |-> fe[r] + k[r]]
           t == [r \in R |-> r.tests]
           Sum(h) == SumFunctionOnSet(h, R)
<1>1. ParseTestReports(R).summary = [failed |-> Sum(f), errors |-> Sum(e), skipped |-> Sum(k), passed |-> Sum(p)]
  BY DEF ParseTestReports, SumFunction
<1>2. SumFunction(t) = Sum(t)
  BY DEF SumFunction
<1>3. \A r \in R : /\ f[r] \in Nat /\ e[r] \in Nat /\ k[r] \in Nat /\ p[r] \in Nat /\ t[r] \in Nat
                   /\ fe[r] \in Nat /\ fek[r] \in Nat
                   /\ fe[r] = f[r] + e[r] /\ fek[r] = fe[r] + k[r] /\ t[r] = fek[r] + p[r]
  <2> TAKE r \in R
  <2>1. /\ r.tests \in Nat /\ r.failures \in Nat /\ r.errors \in Nat /\ r.skipped \in Nat
        /\ r.failures + r.errors + r.skipped <= r.tests
    OBVIOUS
  <2>2. left(r) \in Nat /\ r.tests = ((r.failures + r.errors) + r.skipped) + left(r)
    BY <2>1
  <2>3. p[r] = left(r)
    <3> HIDE DEF left
    <3> QED
      BY <2>2
  <2> QED
    BY <2>1, <2>2, <2>3
<1>4. \A r \in R : f[r] = r.failures /\ e[r] = r.errors
  OBVIOUS
<1> HIDE DEF f, e, k, p, fe, fek, t
<1>5. Sum(fe) = Sum(f) + Sum(e)
  BY <1>3, SumAddsUp
<1>6. Sum(fek) = Sum(fe) + Sum(k)
  BY <1>3, SumAddsUp
<1>7. Sum(t) = Sum(fek) + Sum(p)
  BY <1>3, SumAddsUp
<1>8. Sum(f) \in Nat /\ Sum(e) \in Nat /\ Sum(k) \in Nat /\ Sum(p) \in Nat
  BY <1>3, SumIsNat
<1>9. \A r \in R : f[r] <= Sum(f) /\ e[r] <= Sum(e)
  BY <1>3, SumAtLeast
<1> HIDE DEF Sum
<1>10. Sum(f) + Sum(e) + Sum(k) + Sum(p) = Sum(t)
  BY <1>5, <1>6, <1>7, <1>8
<1> QED
  BY <1>1, <1>2, <1>4, <1>8, <1>9, <1>10 DEF t

(* parse_reactor_summary names modules only. *)
LEMMA SummaryNames ==
    ASSUME NEW t \in Texts, t.op = "tests"
    PROVE  ReactorSummary(t.lines) \subseteq t.modules
<1> DEFINE begun(i) == \E j \in 1..(i - 1) : t.lines[j].kind = "summary"
           ended(i) == \E j \in 1..i : t.lines[j].kind = "build" /\ begun(j)
<1>0. DOMAIN t.lines = 1 .. Len(t.lines) /\ Len(t.lines) \in Nat
  BY TestAssumption
<1> SUFFICES ASSUME NEW i \in DOMAIN t.lines, t.lines[i].kind = "module", begun(i), ~ended(i)
             PROVE  t.lines[i].module \in t.modules
  BY DEF ReactorSummary
<1>1. PICK j \in 1 .. (i - 1) : t.lines[j].kind = "summary"
  OBVIOUS
<1>2. i \in Int /\ j \in DOMAIN t.lines /\ j < i
  BY <1>0, <1>1
<1>3. ASSUME NEW k \in j .. i, t.lines[k].kind = "build"
      PROVE  FALSE
  <2>1. k # j
    BY <1>1, <1>3
  <2>2. j \in 1 .. (k - 1) /\ k \in 1 .. i
    BY <1>0, <1>2, <2>1
  <2>3. begun(k)
    BY <1>1, <2>2
  <2> QED
    BY <1>3, <2>2, <2>3
<1> QED
  BY <1>1, <1>2, <1>3, TestAssumption

(* What updated_reports keeps: nothing but what was written if every earlier *)
(* report was stamped, and all of it if it is later than what it replaces.   *)
LEMMA UpdatedWritten ==
    ASSUME text \in Texts, text.op = "tests"
    PROVE  /\ AllStamped => UpdatedReports \subseteq text.written
           /\ WrittenLater => text.written \subseteq UpdatedReports
           /\ UpdatedReports \subseteq text.earlier \cup text.written
           /\ IsFiniteSet(UpdatedReports)
<1>1. UpdatedReports \subseteq text.earlier \cup text.written
  BY DEF UpdatedReports, ReportsAfter
<1>2. IsFiniteSet(UpdatedReports)
  <2>1. IsFiniteSet(text.earlier \cup text.written)
    BY FS_Union, TestAssumption
  <2> QED
    BY <1>1, <2>1, FS_Subset
<1>3. ASSUME AllStamped, NEW r \in UpdatedReports, r \notin text.written
      PROVE  FALSE
  <2>1. r \in text.earlier /\ r \in ReportSnapshot
    BY <1>1, <1>3 DEF AllStamped, ReportSnapshot
  <2>2. r.modified > r.modified
    BY <2>1 DEF UpdatedReports
  <2> QED
    BY <2>1, <2>2, TestAssumption
<1>4. ASSUME WrittenLater, NEW r \in text.written
      PROVE  r \in UpdatedReports
  BY <1>4 DEF WrittenLater, UpdatedReports, ReportsAfter, ReportSnapshot
<1> QED
  BY <1>1, <1>2, <1>3, <1>4

(* The answer of run_focused_test is about what was written. *)
LEMMA TestRead ==
    ASSUME text \in Texts, text.op = "tests", FocusedTest
    PROVE  FocusedTestTrue'
<1> DEFINE W == UpdatedReports
           failing == FailedIn(W)
           none(report) == [report |-> report, summary |-> NoText, failures |-> {}]
           parsed == CASE text.discovery = "fails" -> none("Invalid")
                       [] text.discovery = "works" /\ W = {} -> none("Missing")
                       [] text.discovery = "works" /\ \E r \in W : ~r.parses -> none("Invalid")
                       [] OTHER -> ParseTestReports(W)
           s == ParseTestReports(W).summary
           failed == parsed.report = "Available" /\ parsed.summary.failed + parsed.summary.errors > 0
           readable == text.discovery = "works" /\ W # {} /\ \A r \in W : r.parses
<1>1. /\ text' = text
      /\ reading' = [report |-> parsed.report, summary |-> parsed.summary, failures |-> parsed.failures,
             outcome |-> IF failed THEN "TestFailure" ELSE BuildOutcome(text.status, text.said),
             notice |-> PolicyNotice(text.status, text.said),
             reactor |-> ReactorSummary(text.lines)]
  BY DEF FocusedTest
<1>2. /\ IsFiniteSet(W)
      /\ \A r \in W : /\ r.tests \in Nat /\ r.failures \in Nat /\ r.errors \in Nat /\ r.skipped \in Nat
                      /\ r.failures + r.errors + r.skipped <= r.tests
                      /\ (\E c \in r.cases : c.kind # "passed") => r.failures + r.errors > 0
  <2>1. W \subseteq text.earlier \cup text.written /\ IsFiniteSet(W)
    BY UpdatedWritten
  <2> HIDE DEF W
  <2> QED
    BY <2>1, TestAssumption
<1>3. /\ s.failed + s.errors + s.skipped + s.passed = SumFunction([r \in W |-> r.tests])
      /\ s.failed \in Nat /\ s.errors \in Nat
      /\ \A r \in W : r.failures <= s.failed /\ r.errors <= s.errors
  <2> HIDE DEF s, W
  <2> QED
    BY <1>2, Counted DEF s
<1>4. failing # {} => s.failed + s.errors > 0
  <2> SUFFICES ASSUME failing # {}
               PROVE  s.failed + s.errors > 0
    OBVIOUS
  <2>1. PICK r \in W : \E c \in r.cases : c.kind # "passed"
    BY DEF FailedIn
  <2> HIDE DEF s, W, failing
  <2> QED
    BY <1>2, <1>3, <2>1
<1>5. ParseTestReports(W).report = "Available" /\ ParseTestReports(W).failures = failing
  BY DEF ParseTestReports, FailedIn
<1>6. /\ readable => parsed = ParseTestReports(W)
      /\ ~readable => parsed = none("Invalid") \/ (parsed = none("Missing") /\ W = {})
  <2> DEFINE Parsed == ParseTestReports(W)
             Invalid == none("Invalid")
             Absent == none("Missing")
             bad == \E r \in W : ~r.parses
  <2>1. text.discovery = "fails" \/ text.discovery = "works"
    BY TestAssumption
  <2>2. parsed = CASE text.discovery = "fails" -> Invalid
                   [] text.discovery = "works" /\ W = {} -> Absent
                   [] text.discovery = "works" /\ bad -> Invalid
                   [] OTHER -> Parsed
    OBVIOUS
  <2>3. readable <=> text.discovery = "works" /\ W # {} /\ ~bad
    OBVIOUS
  <2>4. bad => W # {}
    OBVIOUS
  <2> HIDE DEF Parsed, Invalid, Absent, bad, parsed, readable, W
  <2>5. CASE text.discovery = "fails"
    BY <2>2, <2>3, <2>5 DEF Invalid
  <2>6. CASE text.discovery = "works" /\ W = {}
    BY <2>2, <2>3, <2>4, <2>6 DEF Absent
  <2>7. CASE text.discovery = "works" /\ W # {} /\ bad
    BY <2>2, <2>3, <2>7 DEF Invalid
  <2>8. CASE text.discovery = "works" /\ W # {} /\ ~bad
    BY <2>2, <2>3, <2>8 DEF Parsed
  <2> QED
    BY <2>1, <2>5, <2>6, <2>7, <2>8
<1>7. BuildOutcome(text.status, text.said) = "Success" => text.status = "Success"
  BY DEF BuildOutcome
<1>8. ReactorSummary(text.lines) \subseteq text.modules
  BY SummaryNames
<1> HIDE DEF parsed, failed
<1>9. /\ reading'.report = parsed.report /\ reading'.summary = parsed.summary
      /\ reading'.failures = parsed.failures /\ reading'.reactor = ReactorSummary(text.lines)
      /\ reading'.outcome = IF failed THEN "TestFailure" ELSE BuildOutcome(text.status, text.said)
  BY <1>1
<1> HIDE DEF s, failing, W
<1>10. reading'.report = "Available" => /\ readable /\ reading'.summary = s /\ reading'.failures = failing
                                        /\ failed <=> s.failed + s.errors > 0
  <2>1. CASE readable
    BY <1>5, <1>6, <1>9, <2>1 DEF s, failed
  <2>2. CASE ~readable
    <3>1. parsed.report # "Available"
      BY <1>6, <2>2
    <3> QED
      BY <1>9, <3>1
  <2> QED
    BY <2>1, <2>2
<1>11. reading'.report = "Missing" => W = {}
  <2>1. CASE readable
    <3>1. parsed.report = "Available"
      BY <1>5, <1>6, <2>1
    <3> QED
      BY <1>9, <3>1
  <2>2. CASE parsed = none("Invalid")
    BY <1>9, <2>2
  <2> HIDE DEF readable, none
  <2> QED
    BY <1>6, <2>1, <2>2
<1>12. reading'.report = "Available" /\ failing # {} => reading'.outcome = "TestFailure"
  BY <1>4, <1>9, <1>10
<1>13. reading'.outcome = "Success" =>
         text.status = "Success" /\ (reading'.report = "Available" => failing = {})
  BY <1>7, <1>9, <1>12
<1>14. reading'.report = "Available" =>
         reading'.summary.failed + reading'.summary.errors + reading'.summary.skipped
           + reading'.summary.passed = SumFunction([r \in W |-> r.tests])
  BY <1>3, <1>10
<1>15. /\ text' = text
       /\ AllStamped => W \subseteq text.written
       /\ WrittenLater => text.written \subseteq W
  BY <1>1, UpdatedWritten DEF W
<1>16. /\ AllStamped => failing \subseteq FailedIn(text.written)
       /\ WrittenLater => FailedIn(text.written) \subseteq failing
  BY <1>15 DEF FailedIn, failing
<1>17. AllStamped /\ WrittenLater => W = text.written
  BY <1>15
<1>18. /\ reading'.report = "Available" => W # {} /\ \A r \in W : r.parses
       /\ reading'.reactor \subseteq text.modules
  BY <1>8, <1>9, <1>10 DEF readable
<1> HIDE DEF readable
<1> QED
  BY <1>10, <1>11, <1>12, <1>13, <1>14, <1>15, <1>16, <1>17, <1>18
     DEF FocusedTestTrue, AllStamped, WrittenLater

(* run_focused_test: for all reports before and after the run and every      *)
(* failure of the snapshot or of the metadata, the failed tests in the       *)
(* answer are those of reports that this run of Maven has written if the     *)
(* earlier ones were stamped, and all of them if they are later than what    *)
(* they replace; success is said only if Maven was and none is listed.       *)
THEOREM FocusedTestTrueHolds == OutputSpec => []FocusedTestTrue
<1> DEFINE CInv == text \in Texts /\ FocusedTestTrue
<1>1. OutputInit => CInv
  BY DEF OutputInit, FocusedTestTrue, Read
<1>2. CInv /\ [OutputNext]_outputVars => CInv'
  <2> SUFFICES ASSUME CInv, [OutputNext]_outputVars PROVE CInv'
    OBVIOUS
  <2>1. text' = text
    BY OutputStep
  <2>2. CASE text.op = "tests" /\ FocusedTest
    BY <2>1, <2>2, TestRead
  <2>3. CASE reading' = reading
    BY <2>1, <2>3 DEF FocusedTestTrue, AllStamped, WrittenLater, Read
  <2>4. CASE text.op # "tests"
    BY <2>1, <2>4 DEF FocusedTestTrue, Read
  <2> QED
    BY <2>2, <2>3, <2>4, OutputStep DEF Reads
<1>3. CInv => FocusedTestTrue
  OBVIOUS
<1> QED
  BY <1>1, <1>2, <1>3, PTL DEF OutputSpec

-----------------------------------------------------------------------------
(* The gaps of the coverage. *)

(* D[c] are the elements before c in a total order: those with fewer than  *)
(* limit before them are its first limit elements.                         *)
LEMMA FirstOfOrder ==
    ASSUME NEW C, IsFiniteSet(C), NEW limit \in Nat, NEW D \in [C -> SUBSET C],
           \A c \in C : c \notin D[c],
           \A c, d \in C : c \in D[d] => D[c] \subseteq D[d],
           \A c, d \in C : c = d \/ c \in D[d] \/ d \in D[c],
           NEW shown, shown = {c \in C : Cardinality(D[c]) < limit}
    PROVE  /\ Cardinality(C) > limit <=> C \ shown # {}
           /\ Cardinality(shown) <= limit
           /\ \A h \in C \ shown, s \in shown : s \in D[h]
<1>1. \A S \in SUBSET C : IsFiniteSet(S) /\ Cardinality(S) \in Nat
  BY FS_Subset, FS_CardinalityType
<1>2. \A S \in SUBSET C : \A Q \in SUBSET S : Cardinality(Q) <= Cardinality(S)
  BY <1>1, FS_Subset
<1>3. ASSUME NEW h \in C \ shown, NEW s \in shown
      PROVE  s \in D[h]
  <2>1. h # s /\ s \in C /\ Cardinality(D[s]) < limit /\ ~(Cardinality(D[h]) < limit)
    OBVIOUS
  <2>2. h \notin D[s]
    <3> SUFFICES ASSUME h \in D[s] PROVE FALSE
      OBVIOUS
    <3>1. D[h] \in SUBSET D[s] /\ D[s] \in SUBSET C /\ D[h] \in SUBSET C
      BY <2>1
    <3>2. Cardinality(D[h]) <= Cardinality(D[s])
      BY <1>2, <3>1
    <3>3. Cardinality(D[h]) \in Nat /\ Cardinality(D[s]) \in Nat
      BY <1>1, <3>1
    <3> QED
      BY <2>1, <3>2, <3>3
  <2> QED
    BY <2>1, <2>2
<1>4. Cardinality(shown) <= limit
  <2>0. shown \in SUBSET C
    OBVIOUS
  <2>1. CASE shown = {}
    BY <2>1, FS_EmptySet
  <2>2. CASE shown # {}
    <3> DEFINE ranks == {Cardinality(D[c]) : c \in shown}
    <3>1. ranks \subseteq Int /\ ranks # {} /\ \A x \in ranks : x <= limit
      <4>1. \A c \in shown : Cardinality(D[c]) \in Nat /\ Cardinality(D[c]) < limit
        BY <1>1
      <4> QED
        BY <2>2, <4>1
    <3>2. PICK x \in ranks : \A y \in ranks : y <= x
      <4> HIDE DEF ranks
      <4>1. limit \in Int
        OBVIOUS
      <4> QED
        BY <3>1, <4>1, GreatestElement
    <3>3. PICK m \in shown : \A c \in shown : Cardinality(D[c]) <= Cardinality(D[m])
      BY <3>2
    <3>4. ASSUME NEW c \in shown, c # m
          PROVE  c \in D[m]
      <4> SUFFICES ASSUME m \in D[c] PROVE FALSE
        BY <3>4
      <4>1. D[m] \in SUBSET D[c] /\ m \in D[c] /\ m \notin D[m] /\ D[c] \in SUBSET C /\ D[m] \in SUBSET C
        OBVIOUS
      <4>2. D[m] \in SUBSET (D[c] \ {m}) /\ (D[c] \ {m}) \in SUBSET C
        BY <4>1
      <4>3. Cardinality(D[m]) <= Cardinality(D[c] \ {m})
        BY <1>2, <4>2
      <4>4. Cardinality(D[c] \ {m}) = Cardinality(D[c]) - 1
        BY <1>1, <4>1, FS_RemoveElement
      <4>5. Cardinality(D[m]) \in Nat /\ Cardinality(D[c]) \in Nat
        BY <1>1, <4>1
      <4> QED
        BY <3>3, <4>3, <4>4, <4>5
    <3>5. shown \ {m} \in SUBSET D[m] /\ D[m] \in SUBSET C
      BY <3>4
    <3>6. Cardinality(shown \ {m}) <= Cardinality(D[m])
      BY <1>2, <3>5
    <3>7. Cardinality(shown \ {m}) = Cardinality(shown) - 1
      BY <1>1, <2>0, <3>3, FS_RemoveElement
    <3>8. Cardinality(D[m]) \in Nat /\ Cardinality(shown) \in Nat /\ Cardinality(D[m]) < limit
      BY <1>1, <2>0, <3>5
    <3> QED
      BY <3>6, <3>7, <3>8
  <2> QED
    BY <2>1, <2>2
<1>5. ASSUME NEW h \in C \ shown
      PROVE  Cardinality(C) > limit
  <2>1. D[h] \in SUBSET (C \ {h}) /\ h \in C /\ C \ {h} \in SUBSET C /\ C \in SUBSET C
        /\ ~(Cardinality(D[h]) < limit) /\ D[h] \in SUBSET C
    OBVIOUS
  <2>2. Cardinality(D[h]) <= Cardinality(C \ {h})
    BY <1>2, <2>1
  <2>3. Cardinality(C \ {h}) = Cardinality(C) - 1
    BY <2>1, FS_RemoveElement
  <2>4. Cardinality(D[h]) \in Nat /\ Cardinality(C) \in Nat
    BY <1>1, <2>1
  <2> QED
    BY <2>1, <2>2, <2>3, <2>4
<1>6. C \ shown = {} => ~(Cardinality(C) > limit)
  <2> SUFFICES ASSUME C \ shown = {} PROVE ~(Cardinality(C) > limit)
    OBVIOUS
  <2>1. C = shown
    OBVIOUS
  <2>2. Cardinality(C) \in Nat
    BY <1>1
  <2>3. Cardinality(C) <= limit
    BY <1>4, <2>1, Zenon
  <2>4. ASSUME NEW n \in Nat, n <= limit PROVE ~(n > limit)
    BY <2>4
  <2> HIDE <1>4, <2>1
  <2> QED
    BY <2>2, <2>3, <2>4
<1>7. Cardinality(C) > limit <=> C \ shown # {}
  BY <1>5, <1>6
<1> QED
  BY <1>3, <1>4, <1>7

LEMMA Division ==
    ASSUME NEW a \in Nat, NEW b \in Nat, b > 0
    PROVE  a \div b \in Nat /\ (a \div b) * b <= a /\ a < (a \div b) * b + b
<1>1. a \div b \in Int /\ (a \div b) * b <= a /\ a < (a \div b) * b + b
  OBVIOUS
<1>2. \A q \in Int : q < 0 => q * b + b <= 0
  OBVIOUS
<1>3. a \div b >= 0
  <2> DEFINE q == a \div b
  <2> HIDE DEF q
  <2>1. q \in Int /\ a < q * b + b
    BY <1>1 DEF q
  <2>2. ~(q < 0)
    BY <1>2, <2>1
  <2> QED
    BY <2>1, <2>2 DEF q
<1> QED
  BY <1>1, <1>3

(* Shares a / s and b / t whose basis points are in order are in order but *)
(* for one basis point, and equal shares have equal basis points.          *)
LEMMA SharesInOrder ==
    ASSUME NEW a \in Nat, NEW s \in Nat, s > 0, NEW b \in Nat, NEW t \in Nat, t > 0,
           (a * 10000) \div s <= (b * 10000) \div t
    PROVE  /\ b * s * 10000 + t * s > a * t * 10000
           /\ b * s = a * t => (a * 10000) \div s = (b * 10000) \div t
<1> DEFINE q == (a * 10000) \div s
           r == (b * 10000) \div t
<1>1. /\ q \in Nat /\ q * s <= a * 10000 /\ a * 10000 < q * s + s
      /\ r \in Nat /\ r * t <= b * 10000 /\ b * 10000 < r * t + t
  <2>1. a * 10000 \in Nat /\ b * 10000 \in Nat
    OBVIOUS
  <2> QED
    BY <2>1, Division
<1>2. q <= r
  OBVIOUS
<1> HIDE DEF q, r
<1>3. (a * 10000) * t < (q * s + s) * t
  BY <1>1
<1>4. (q * s + s) * t = (q * s) * t + s * t
  BY <1>1
<1>5. (q * s) * t <= (r * s) * t
  <2>1. q * s <= r * s
    BY <1>1, <1>2
  <2>2. q * s \in Int /\ r * s \in Int
    BY <1>1
  <2> HIDE DEF q, r
  <2> QED
    BY <2>1, <2>2
<1>6. (r * s) * t = (r * t) * s
  BY <1>1
<1>7. (r * t) * s <= (b * 10000) * s
  BY <1>1
<1>8. (b * 10000) * s = b * s * 10000 /\ (a * 10000) * t = a * t * 10000 /\ s * t = t * s
  OBVIOUS
<1>9. /\ (a * 10000) * t \in Int /\ (q * s) * t \in Int /\ s * t \in Int /\ (r * s) * t \in Int
      /\ (r * t) * s \in Int /\ (b * 10000) * s \in Int /\ (q * s + s) * t \in Int
  BY <1>1
<1>10. b * s * 10000 + t * s > a * t * 10000
  BY <1>3, <1>4, <1>5, <1>6, <1>7, <1>8, <1>9
<1>11. ASSUME b * s = a * t PROVE q = r
  <2>1. (r * t) * s < (q * s) * t + s * t
    BY <1>3, <1>4, <1>7, <1>8, <1>9, <1>11
  <2>2. (r * t) * s = r * (s * t) /\ (q * s) * t = q * (s * t) /\ s * t \in Nat
    BY <1>1
  <2>3. (q + 1) * (s * t) = q * (s * t) + s * t
    BY <1>1
  <2>4. r * (s * t) < (q + 1) * (s * t)
    BY <2>1, <2>2, <2>3
  <2>5. \A x, y \in Nat, z \in Nat : x * z < y * z => x < y
    OBVIOUS
  <2>6. r < q + 1
    BY <1>1, <2>2, <2>4, <2>5
  <2> QED
    BY <1>1, <1>2, <2>6
<1> QED
  BY <1>10, <1>11 DEF q, r

Counts(c) == c.missed \in Nat /\ c.covered \in Nat /\ c.name \in Nat
Total(c) == c.missed + c.covered

(* The order of coverage_gaps. *)
LEMMA ScoreIs ==
    ASSUME NEW c, Counts(c)
    PROVE  /\ Score(c) \in Nat
           /\ Total(c) = 0 => Score(c) = 10001
           /\ Total(c) > 0 => Score(c) = (c.covered * 10000) \div Total(c) /\ Score(c) <= 10000
<1>1. c.missed \in Nat /\ c.covered \in Nat /\ Total(c) \in Nat /\ c.covered <= Total(c)
  BY DEF Counts, Total
<1>2. CASE Total(c) = 0
  BY <1>1, <1>2 DEF Score, Total, Unscored
<1>3. CASE Total(c) > 0
  <2> DEFINE t == Total(c)
             q == (c.covered * 10000) \div t
  <2>1. Score(c) = q
    BY <1>1, <1>3 DEF Score, Total
  <2>2. q \in Nat /\ q * t <= c.covered * 10000
    <3>1. c.covered * 10000 \in Nat
      BY <1>1
    <3> HIDE DEF t
    <3> QED
      BY <1>1, <1>3, <3>1, Division DEF t
  <2>3. t \in Nat /\ t > 0 /\ c.covered <= t
    BY <1>1, <1>3
  <2> HIDE DEF q, t
  <2>4. c.covered * 10000 <= 10000 * t /\ c.covered * 10000 \in Int /\ q * t \in Int
    BY <1>1, <2>2, <2>3
  <2>5. q * t <= 10000 * t
    BY <2>2, <2>3, <2>4
  <2>6. \A x \in Nat : x > 10000 => x * t > 10000 * t
    BY <2>3
  <2>7. q <= 10000
    BY <2>2, <2>3, <2>5, <2>6
  <2> QED
    BY <1>3, <2>1, <2>2, <2>7 DEF q, t
<1> QED
  BY <1>1, <1>2, <1>3

LEMMA BeforeOrders ==
    ASSUME NEW a, Counts(a), NEW b, Counts(b), NEW c, Counts(c)
    PROVE  /\ ~Before(a, a)
           /\ Before(a, b) /\ Before(b, c) => Before(a, c)
           /\ a.name = b.name \/ Before(a, b) \/ Before(b, a)
<1>1. /\ Score(a) \in Nat /\ Score(b) \in Nat /\ Score(c) \in Nat
      /\ a.missed \in Nat /\ b.missed \in Nat /\ c.missed \in Nat
      /\ a.name \in Nat /\ b.name \in Nat /\ c.name \in Nat
  BY ScoreIs DEF Counts
<1> QED
  BY <1>1 DEF Before

(* What is worse by less than a basis point may come later. *)
LEMMA WorseFirst ==
    ASSUME NEW s, Counts(s), NEW h, Counts(h), Before(s, h), Total(h) > 0
    PROVE  /\ Total(s) > 0
           /\ h.covered * Total(s) * 10000 + Total(h) * Total(s) > s.covered * Total(h) * 10000
           /\ h.covered * Total(s) = s.covered * Total(h) => h.missed <= s.missed
<1>1. /\ Score(s) \in Nat /\ Score(h) \in Nat /\ Total(s) \in Nat /\ Total(h) \in Nat
      /\ s.covered \in Nat /\ h.covered \in Nat /\ s.missed \in Nat /\ h.missed \in Nat
  BY ScoreIs DEF Counts, Total
<1>2. Score(s) <= Score(h) /\ (Score(s) = Score(h) => s.missed >= h.missed)
  BY <1>1 DEF Before
<1>3. Score(h) = (h.covered * 10000) \div Total(h) /\ Score(h) <= 10000
  BY ScoreIs
<1>4. Total(s) > 0
  <2>1. Total(s) = 0 => Score(s) = 10001
    BY ScoreIs
  <2> QED
    BY <1>1, <1>2, <1>3, <2>1
<1>5. Score(s) = (s.covered * 10000) \div Total(s)
  BY <1>4, ScoreIs
<1>6. /\ h.covered * Total(s) * 10000 + Total(h) * Total(s) > s.covered * Total(h) * 10000
      /\ h.covered * Total(s) = s.covered * Total(h) => Score(s) = Score(h)
  <2> DEFINE a == s.covered
             n == Total(s)
             b == h.covered
             t == Total(h)
  <2>1. a \in Nat /\ n \in Nat /\ n > 0 /\ b \in Nat /\ t \in Nat /\ t > 0
    BY <1>1, <1>4
  <2>2. Score(s) = (a * 10000) \div n /\ Score(h) = (b * 10000) \div t /\ Score(s) <= Score(h)
    BY <1>2, <1>3, <1>5
  <2> SUFFICES b * n * 10000 + t * n > a * t * 10000 /\ (b * n = a * t => Score(s) = Score(h))
    OBVIOUS
  <2> HIDE DEF a, n, b, t
  <2>3. (a * 10000) \div n <= (b * 10000) \div t
    BY <2>2
  <2>4. /\ b * n * 10000 + t * n > a * t * 10000
        /\ b * n = a * t => (a * 10000) \div n = (b * 10000) \div t
    BY <2>1, <2>3, SharesInOrder
  <2> QED
    BY <2>2, <2>4
<1> QED
  BY <1>1, <1>2, <1>4, <1>6

(* Prefixes of one path lie on it one after another. *)
LEMMA PrefixesNest ==
    ASSUME NEW A, NEW B, NEW C, NEW a \in Seq(A), NEW b \in Seq(B), NEW c \in Seq(C),
           IsPrefix(a, c), IsPrefix(b, c), Len(a) <= Len(b)
    PROVE  IsPrefix(a, b) /\ (Len(a) = Len(b) => a = b)
<1>1. /\ Len(a) \in Nat /\ Len(b) \in Nat /\ Len(c) \in Nat /\ Len(a) <= Len(c) /\ Len(b) <= Len(c)
      /\ SubSeq(a, 1, Len(a)) = SubSeq(c, 1, Len(a)) /\ SubSeq(b, 1, Len(b)) = SubSeq(c, 1, Len(b))
  BY DEF IsPrefix
<1>2. \A i \in 1 .. Len(a) : a[i] = c[i]
  <2> TAKE i \in 1 .. Len(a)
  <2>1. SubSeq(a, 1, Len(a))[i] = a[i] /\ SubSeq(c, 1, Len(a))[i] = c[i]
    BY <1>1
  <2> QED
    BY <1>1, <2>1
<1>3. \A i \in 1 .. Len(b) : b[i] = c[i]
  <2> TAKE i \in 1 .. Len(b)
  <2>1. SubSeq(b, 1, Len(b))[i] = b[i] /\ SubSeq(c, 1, Len(b))[i] = c[i]
    BY <1>1
  <2> QED
    BY <1>1, <2>1
<1>4. \A i \in 1 .. Len(a) : a[i] = b[i]
  BY <1>1, <1>2, <1>3
<1>5. SubSeq(a, 1, Len(a)) = SubSeq(b, 1, Len(a))
  <2> DEFINE s == SubSeq(a, 1, Len(a))
             t == SubSeq(b, 1, Len(a))
  <2>1. s \in Seq(A) /\ t \in Seq(B) /\ Len(s) = Len(a) /\ Len(t) = Len(a)
    BY <1>1
  <2>2. \A i \in 1 .. Len(a) : s[i] = a[i] /\ t[i] = b[i]
    BY <1>1
  <2> HIDE DEF s, t
  <2> QED
    BY <1>1, <1>4, <2>1, <2>2
<1>6. Len(a) = Len(b) => a = b
  BY <1>1, <1>4
<1> QED
  BY <1>1, <1>5, <1>6 DEF IsPrefix

(* read_jacoco_reports: a report is the own one of its module, the         *)
(* innermost one around it.                                                *)
LEMMA ModuleIsOwner ==
    ASSUME text \in Texts, text.op = "coverage", NEW r \in text.reports, NEW m \in DOMAIN text.expected
    PROVE  ModuleOf(r) = m <=> r \in OwnReports(m)
<1> DEFINE M == DOMAIN text.expected
           e(n) == text.expected[n]
           around == {n \in M : IsPrefix(e(n), r.path)}
           longest == CHOOSE n \in around : \A o \in around : Len(e(n)) >= Len(e(o))
<1>1. /\ r.path \in Seq(ToSet(r.path))
      /\ \A n \in M : e(n) \in Seq(ToSet(e(n)))
      /\ \A n, o \in M : e(n) = e(o) => n = o
      /\ "." \in M => e(".") = <<>>
  BY CoverageAssumption
<1>2. ModuleOf(r) = IF around = {} THEN "." ELSE longest
  BY DEF ModuleOf
<1>3. r \in OwnReports(m) <=> /\ m \in around
                              /\ \A n \in M \ {m} : IsPrefix(e(m), e(n)) => n \notin around
  BY DEF OwnReports
<1>4. \A n \in around : /\ Len(e(n)) \in Nat /\ Len(e(n)) <= Len(r.path) /\ n \in M
                        /\ e(n) \in Seq(ToSet(e(n)))
  BY <1>1 DEF IsPrefix
<1>5. \A n, o \in around : Len(e(n)) <= Len(e(o)) => IsPrefix(e(n), e(o)) /\ (Len(e(n)) = Len(e(o)) => n = o)
  <2> TAKE n, o \in around
  <2> HAVE Len(e(n)) <= Len(e(o))
  <2>1. IsPrefix(e(n), r.path) /\ IsPrefix(e(o), r.path) /\ n \in M /\ o \in M
    OBVIOUS
  <2>2. e(n) \in Seq(ToSet(e(n))) /\ e(o) \in Seq(ToSet(e(o)))
    BY <1>4
  <2>3. IsPrefix(e(n), e(o)) /\ (Len(e(n)) = Len(e(o)) => e(n) = e(o))
    <3> HIDE DEF e
    <3> QED
      BY <1>1, <2>1, <2>2, PrefixesNest
  <2> QED
    BY <1>1, <2>1, <2>3
<1>6. around # {} => longest \in around /\ \A o \in around : Len(e(longest)) >= Len(e(o))
  <2> SUFFICES ASSUME around # {}
               PROVE  \E n \in around : \A o \in around : Len(e(n)) >= Len(e(o))
    OBVIOUS
  <2> DEFINE lengths == {Len(e(n)) : n \in around}
  <2>1. Len(r.path) \in Int /\ lengths \subseteq Int /\ lengths # {} /\ \A x \in lengths : x <= Len(r.path)
    <3>1. Len(r.path) \in Int
      BY <1>1
    <3>2. lengths # {}
      OBVIOUS
    <3>3. \A n \in around : Len(e(n)) \in Int /\ Len(e(n)) <= Len(r.path)
      BY <1>4
    <3> HIDE DEF around, e
    <3> QED
      BY <3>1, <3>2, <3>3
  <2>2. PICK x \in lengths : \A y \in lengths : y <= x
    <3> HIDE DEF lengths
    <3> QED
      BY <2>1, GreatestElement
  <2> QED
    BY <2>2
<1> HIDE DEF longest
<1>7. around = {} => m # "."
  <2> SUFFICES ASSUME m = "." PROVE m \in around
    OBVIOUS
  <2>1. e(m) = <<>>
    BY <1>1
  <2>2. Len(r.path) \in Nat
    BY <1>1
  <2>3. IsPrefix(<<>>, r.path)
    <3>1. Len(<<>>) = 0 /\ SubSeq(<<>>, 1, 0) = <<>> /\ SubSeq(r.path, 1, 0) = <<>>
      BY <1>1
    <3> QED
      BY <2>2, <3>1 DEF IsPrefix
  <2> QED
    BY <2>1, <2>3
<1> HIDE DEF around, e
<1>8. ASSUME ModuleOf(r) = m PROVE r \in OwnReports(m)
  <2>1. around # {} /\ m = longest
    BY <1>2, <1>7, <1>8
  <2>2. m \in around /\ \A o \in around : Len(e(m)) >= Len(e(o))
    BY <1>6, <2>1
  <2>3. ASSUME NEW n \in M \ {m}, IsPrefix(e(m), e(n)), n \in around PROVE FALSE
    <3>1. Len(e(m)) <= Len(e(n))
      BY <2>3 DEF IsPrefix
    <3>2. Len(e(m)) = Len(e(n))
      BY <1>4, <2>2, <2>3, <3>1
    <3>3. Len(e(m)) <= Len(e(n)) => m = n
      BY <1>5, <2>2, <2>3, <3>2
    <3> QED
      BY <2>3, <3>1, <3>3
  <2> QED
    BY <1>3, <2>2, <2>3
<1>9. ASSUME r \in OwnReports(m) PROVE ModuleOf(r) = m
  <2>1. m \in around /\ \A n \in M \ {m} : IsPrefix(e(m), e(n)) => n \notin around
    BY <1>3, <1>9
  <2>2. longest \in around /\ Len(e(longest)) >= Len(e(m)) /\ longest \in M
    BY <1>4, <1>6, <2>1
  <2>3. Len(e(m)) <= Len(e(longest))
    BY <1>4, <2>1, <2>2
  <2>4. IsPrefix(e(m), e(longest))
    BY <1>5, <2>1, <2>2, <2>3
  <2>5. longest = m
    BY <2>1, <2>2, <2>4
  <2> QED
    BY <1>2, <2>1, <2>5
<1> QED
  BY <1>8, <1>9

(* The answer of coverage_gaps. *)
LEMMA GapsRead ==
    ASSUME text \in Texts, text.op = "coverage", CoverageGaps
    PROVE  GapsAreWorst'
<1> DEFINE C == UNION {r.classes : r \in text.reports}
           D == [c \in C |-> {d \in C : Before(d, c)}]
           shown == {c \in C : Cardinality(D[c]) < text.limit}
           found == {ModuleOf(r) : r \in text.reports}
           invalid == \E r \in text.reports : ~r.parses
           own(m) == OwnReports(m)
           missing == DOMAIN text.expected \ found
           Worst(h, s) ==
             Total(h) > 0 =>
               /\ Total(s) > 0
               /\ h.covered * Total(s) * 10000 + Total(h) * Total(s) > s.covered * Total(h) * 10000
               /\ h.covered * Total(s) = s.covered * Total(h) => h.missed <= s.missed
<1>1. /\ text.limit \in Nat /\ IsFiniteSet(C) /\ \A c \in C : Counts(c)
      /\ \A c, d \in C : c.name = d.name => c = d
  BY CoverageAssumption DEF Counts
<1>2. text' = text
  BY DEF CoverageGaps
<1>3. /\ invalid => reading'.status = "invalid"
      /\ ~invalid => /\ reading'.gaps = shown /\ reading'.missing = missing
                     /\ reading'.incomplete = (Cardinality(C) > text.limit)
  <2>1. \A c \in C : {d \in C : Before(d, c)} = D[c]
    OBVIOUS
  <2>2. shown = {c \in C : Cardinality({d \in C : Before(d, c)}) < text.limit}
    BY <2>1
  <2>3. CASE invalid
    BY <2>3 DEF CoverageGaps
  <2>4. CASE ~invalid
    <3>1. \E status : reading' = [status |-> status,
                  gaps |-> {c \in C : Cardinality({d \in C : Before(d, c)}) < text.limit},
                  missing |-> missing,
                  incomplete |-> Cardinality(C) > text.limit]
      BY <2>4 DEF CoverageGaps
    <3> HIDE DEF C, D, shown, missing, invalid
    <3> QED
      BY <2>2, <2>4, <3>1
  <2> QED
    BY <2>3, <2>4
<1>4. /\ D \in [C -> SUBSET C]
      /\ \A c \in C : c \notin D[c]
      /\ \A c, d \in C : c \in D[d] => D[c] \subseteq D[d]
      /\ \A c, d \in C : c = d \/ c \in D[d] \/ d \in D[c]
  <2>1. \A a, b, c \in C : /\ ~Before(a, a)
                           /\ Before(a, b) /\ Before(b, c) => Before(a, c)
                           /\ a = b \/ Before(a, b) \/ Before(b, a)
    <3> HIDE DEF C
    <3> QED
      BY <1>1, BeforeOrders
  <2> HIDE DEF C
  <2> QED
    BY <2>1
<1>5. /\ Cardinality(C) > text.limit <=> C \ shown # {}
      /\ Cardinality(shown) <= text.limit
      /\ \A h \in C \ shown, s \in shown : s \in D[h]
  <2> DEFINE limit == text.limit
  <2>1. IsFiniteSet(C) /\ limit \in Nat /\ shown = {c \in C : Cardinality(D[c]) < limit}
    BY <1>1
  <2> SUFFICES /\ Cardinality(C) > limit <=> C \ shown # {}
               /\ Cardinality(shown) <= limit
               /\ \A h \in C \ shown, s \in shown : s \in D[h]
    OBVIOUS
  <2> HIDE DEF C, D, shown, limit
  <2> QED
    BY <1>4, <2>1, FirstOfOrder
<1>6. \A h \in C \ shown, s \in shown : Worst(h, s)
  <2>0. shown \subseteq C
    OBVIOUS
  <2>3. \A h \in C : \A s \in D[h] : Before(s, h)
    OBVIOUS
  <2> HIDE DEF C, D, shown, Worst
  <2> SUFFICES ASSUME NEW h \in C \ shown, NEW s \in shown PROVE Worst(h, s)
    OBVIOUS
  <2> USE DEF Worst
  <2>1. Before(s, h)
    BY <1>5, <2>3
  <2>2. Counts(s) /\ Counts(h)
    BY <1>1, <2>0
  <2> QED
    BY <2>1, <2>2, WorseFirst
<1>7. missing = {m \in DOMAIN text.expected : own(m) = {}}
  <2>1. \A m : own(m) \subseteq text.reports
    BY DEF OwnReports
  <2>2. \A m \in DOMAIN text.expected : m \in found <=> own(m) # {}
    BY <2>1, ModuleIsOwner
  <2> QED
    BY <2>2
<1>8. /\ UNION {r.classes : r \in text'.reports} = C /\ text'.limit = text.limit
      /\ {m \in DOMAIN text'.expected : OwnReports(m)' = {}} = {m \in DOMAIN text.expected : own(m) = {}}
  BY <1>2 DEF OwnReports
<1> HIDE DEF C, D, shown, missing, own, invalid
<1>9. CASE invalid
  BY <1>3, <1>9 DEF GapsAreWorst
<1>10. CASE ~invalid
  <2>1. reading'.gaps = shown /\ reading'.missing = missing
        /\ reading'.incomplete = (Cardinality(C) > text.limit)
    BY <1>3, <1>10
  <2>2. reading'.incomplete <=> C \ reading'.gaps # {}
    BY <1>5, <2>1
  <2>3. Cardinality(reading'.gaps) <= text'.limit
    BY <1>5, <1>8, <2>1
  <2>4. reading'.missing = {m \in DOMAIN text'.expected : OwnReports(m)' = {}}
    BY <1>7, <1>8, <2>1
  <2>5. \A h \in C \ reading'.gaps, s \in reading'.gaps : Worst(h, s)
    <3> HIDE DEF Worst
    <3> QED
      BY <1>6, <2>1
  <2> DEFINE W(h, s) == h.missed + h.covered > 0 =>
               /\ s.missed + s.covered > 0
               /\ h.covered * (s.missed + s.covered) * 10000
                     + (h.missed + h.covered) * (s.missed + s.covered)
                   > s.covered * (h.missed + h.covered) * 10000
               /\ h.covered * (s.missed + s.covered) = s.covered * (h.missed + h.covered)
                     => h.missed <= s.missed
             hidden == (UNION {r.classes : r \in text'.reports}) \ reading'.gaps
  <2>6. \A h \in C \ reading'.gaps, s \in reading'.gaps : W(h, s)
    <3> TAKE h \in C \ reading'.gaps, s \in reading'.gaps
    <3>1. Worst(h, s)
      BY <2>5
    <3>2. Total(h) = h.missed + h.covered /\ Total(s) = s.missed + s.covered
      BY DEF Total
    <3> QED
      BY <3>1, <3>2
  <2>7. hidden = C \ reading'.gaps
    BY <1>8
  <2> SUFFICES /\ reading'.incomplete <=> hidden # {}
               /\ Cardinality(reading'.gaps) <= text'.limit
               /\ \A h \in hidden, s \in reading'.gaps : W(h, s)
               /\ reading'.missing = {m \in DOMAIN text'.expected : OwnReports(m)' = {}}
    BY DEF GapsAreWorst
  <2> HIDE DEF hidden, W
  <2> QED
    BY <2>2, <2>3, <2>4, <2>6, <2>7
<1> QED
  BY <1>9, <1>10

(* coverage_gaps: for every set of reports, modules and limit, the classes   *)
(* that are shown are the worst ones, the answer says if some are left out,  *)
(* and a module is called missing exactly if no report is its own.           *)
THEOREM GapsAreWorstHolds == OutputSpec => []GapsAreWorst
<1> DEFINE CInv == text \in Texts /\ GapsAreWorst
<1>1. OutputInit => CInv
  BY DEF OutputInit, GapsAreWorst, Read
<1>2. CInv /\ [OutputNext]_outputVars => CInv'
  <2> SUFFICES ASSUME CInv, [OutputNext]_outputVars PROVE CInv'
    OBVIOUS
  <2>1. text' = text
    BY OutputStep
  <2>2. CASE text.op = "coverage" /\ CoverageGaps
    BY <2>1, <2>2, GapsRead
  <2>3. CASE reading' = reading
    BY <2>1, <2>3 DEF GapsAreWorst, Read, OwnReports
  <2>4. CASE text.op # "coverage"
    BY <2>1, <2>4 DEF GapsAreWorst, Read
  <2> QED
    BY <2>2, <2>3, <2>4, OutputStep DEF Reads
<1>3. CInv => GapsAreWorst
  OBVIOUS
<1> QED
  BY <1>1, <1>2, <1>3, PTL DEF OutputSpec

-----------------------------------------------------------------------------
(* The dependency tree. *)
TreeOK(nodes) ==
    /\ nodes \in Seq(ToSet(nodes))
    /\ \A i \in DOMAIN nodes : nodes[i].depth \in 1..(IF i = 1 THEN 1 ELSE nodes[i - 1].depth + 1)

LEMMA TreeDepths ==
    ASSUME NEW nodes, TreeOK(nodes)
    PROVE  /\ Len(nodes) \in Nat /\ DOMAIN nodes = 1 .. Len(nodes)
           /\ \A i \in 1 .. Len(nodes) : nodes[i].depth \in Nat /\ nodes[i].depth >= 1
           /\ \A i \in 2 .. Len(nodes) : nodes[i].depth <= nodes[i - 1].depth + 1
           /\ Len(nodes) >= 1 => nodes[1].depth = 1
<1>1. Len(nodes) \in Nat /\ DOMAIN nodes = 1 .. Len(nodes)
  BY DEF TreeOK
<1>2. \A n \in Nat : n >= 1 /\ n <= Len(nodes) => nodes[n].depth \in Nat /\ nodes[n].depth >= 1
  <2> DEFINE T == {n \in Nat : n >= 1 /\ n <= Len(nodes) => nodes[n].depth \in Nat /\ nodes[n].depth >= 1}
  <2>1. 0 \in T
    OBVIOUS
  <2>2. ASSUME NEW n \in Nat, n \in T PROVE n + 1 \in T
    <3> SUFFICES ASSUME n + 1 <= Len(nodes) PROVE nodes[n + 1].depth \in Nat /\ nodes[n + 1].depth >= 1
      OBVIOUS
    <3>1. n + 1 \in DOMAIN nodes
      BY <1>1
    <3>2. nodes[n + 1].depth \in 1..(IF n + 1 = 1 THEN 1 ELSE nodes[n + 1 - 1].depth + 1)
      BY <3>1 DEF TreeOK
    <3> QED
      BY <3>2
  <2>3. Nat \subseteq T
    <3> HIDE DEF T
    <3> QED BY <2>1, <2>2, SetInduction
  <2> QED
    BY <2>3
<1>3. \A i \in 1 .. Len(nodes) : nodes[i].depth \in 1..(IF i = 1 THEN 1 ELSE nodes[i - 1].depth + 1)
  BY <1>1 DEF TreeOK
<1>4. ASSUME NEW i \in 2 .. Len(nodes) PROVE nodes[i].depth <= nodes[i - 1].depth + 1
  <2>1. i \in 1 .. Len(nodes) /\ i # 1 /\ i - 1 \in Nat /\ i - 1 >= 1 /\ i - 1 <= Len(nodes)
    BY <1>1
  <2>2. nodes[i].depth \in 1 .. (nodes[i - 1].depth + 1) /\ nodes[i - 1].depth \in Nat
    BY <1>2, <1>3, <2>1
  <2> QED
    BY <2>2
<1>5. Len(nodes) >= 1 => nodes[1].depth = 1
  <2> SUFFICES ASSUME Len(nodes) >= 1 PROVE nodes[1].depth = 1
    OBVIOUS
  <2>1. nodes[1].depth \in 1 .. 1
    BY <1>1, <1>3
  <2> QED
    BY <2>1
<1> QED
  BY <1>1, <1>2, <1>4, <1>5

(* The path stack after i nodes of a tree: its module's artifact, then the *)
(* ancestors of the last node and that node.                               *)
StackAfter(module, nodes, i) == IF i = 0 THEN <<module>> ELSE TruePath(module, nodes, i)

(* A node's ancestors are those of the node before it, up to its parent.   *)
LEMMA NextPath ==
    ASSUME NEW module, NEW nodes, TreeOK(nodes), NEW i \in 1 .. Len(nodes)
    PROVE  LET stack == StackAfter(module, nodes, i - 1)
               depth == nodes[i].depth
           IN TruePath(module, nodes, i) =
                Append(SubSeq(stack, 1, ParentCount(depth, Len(stack))),
                       <<nodes[i].artifact, nodes[i].version>>)
<1> DEFINE stack == StackAfter(module, nodes, i - 1)
           depth == nodes[i].depth
           node(j) == <<nodes[j].artifact, nodes[j].version>>
           entry(k) == IF k = 1 THEN module ELSE node(CHOOSE j \in Above(nodes, i - 1, k - 1) : TRUE)
           path == TruePath(module, nodes, i)
<1>0. /\ Len(nodes) \in Nat /\ depth \in Nat /\ depth >= 1
      /\ i = 1 => depth = 1
      /\ i # 1 => /\ i - 1 \in 1 .. Len(nodes) /\ nodes[i - 1].depth \in Nat
                  /\ nodes[i - 1].depth >= 1 /\ depth <= nodes[i - 1].depth + 1
  <2>1. i = 1 => Len(nodes) >= 1
    OBVIOUS
  <2>2. i # 1 => i \in 2 .. Len(nodes) /\ i - 1 \in 1 .. Len(nodes)
    BY TreeDepths
  <2> QED
    BY <2>1, <2>2, TreeDepths
<1>1. /\ Len(stack) \in Nat /\ depth <= Len(stack)
      /\ stack = [k \in 1 .. Len(stack) |-> entry(k)]
  <2>1. CASE i = 1
    <3>1. stack = <<module>> /\ depth = 1
      BY <1>0, <2>1 DEF StackAfter
    <3>2. Len(stack) = 1 /\ stack[1] = module /\ stack = [k \in 1 .. 1 |-> stack[k]]
      BY <3>1
    <3>3. stack = [k \in 1 .. 1 |-> entry(k)]
      BY <3>2
    <3> HIDE DEF stack, entry, depth
    <3> QED
      BY <3>1, <3>2, <3>3
  <2>2. CASE i # 1
    <3>1. stack = TruePath(module, nodes, i - 1)
      BY <2>2 DEF StackAfter
    <3>2. stack = [k \in 1 .. (nodes[i - 1].depth + 1) |-> entry(k)]
      BY <3>1 DEF TruePath
    <3> HIDE DEF stack, entry
    <3>3. Len(stack) = nodes[i - 1].depth + 1
      BY <3>2, <1>0, <2>2
    <3> QED
      BY <1>0, <2>2, <3>2, <3>3
  <2> QED
    BY <2>1, <2>2
<1>2. Above(nodes, i, depth) = {i}
  <2>1. ASSUME NEW j \in Above(nodes, i, depth) PROVE j = i
    <3>1. j \in 1 .. i /\ \A k \in (j + 1) .. i : nodes[k].depth > depth
      BY DEF Above
    <3> QED
      BY <3>1, <1>0
  <2>2. i \in Above(nodes, i, depth)
    BY <1>0 DEF Above
  <2> QED
    BY <2>1, <2>2
<1>3. ASSUME NEW level \in 1 .. (depth - 1)
      PROVE  Above(nodes, i, level) = Above(nodes, i - 1, level)
  <2>0. level \in Nat /\ level < depth
    BY <1>0
  <2>1. ASSUME NEW j \in Above(nodes, i, level) PROVE j \in Above(nodes, i - 1, level)
    <3>1. j \in 1 .. i /\ nodes[j].depth = level /\ \A k \in (j + 1) .. i : nodes[k].depth > level
      BY DEF Above
    <3>2. j # i
      BY <3>1, <2>0, <1>0
    <3>3. j \in 1 .. (i - 1) /\ \A k \in (j + 1) .. (i - 1) : k \in (j + 1) .. i
      BY <3>1, <3>2, <1>0
    <3> QED
      BY <3>1, <3>3 DEF Above
  <2>2. ASSUME NEW j \in Above(nodes, i - 1, level) PROVE j \in Above(nodes, i, level)
    <3>1. j \in 1 .. (i - 1) /\ nodes[j].depth = level
          /\ \A k \in (j + 1) .. (i - 1) : nodes[k].depth > level
      BY DEF Above
    <3>2. j \in 1 .. i /\ \A k \in (j + 1) .. i : k = i \/ k \in (j + 1) .. (i - 1)
      BY <3>1, <1>0
    <3>3. nodes[i].depth > level
      BY <2>0, <1>0
    <3> QED
      BY <3>1, <3>2, <3>3 DEF Above
  <2> QED
    BY <2>1, <2>2
<1>4. path = [k \in 1 .. (depth + 1) |->
                IF k = 1 THEN module ELSE node(CHOOSE j \in Above(nodes, i, k - 1) : TRUE)]
  BY DEF TruePath
<1> DEFINE here(k) == IF k = 1 THEN module ELSE node(CHOOSE j \in Above(nodes, i, k - 1) : TRUE)
<1>8. \A k \in 1 .. (depth + 1) : path[k] = here(k)
  <2> HIDE DEF here
  <2>1. path = [k \in 1 .. (depth + 1) |-> here(k)]
    BY <1>4 DEF here
  <2> HIDE DEF path
  <2> QED
    BY <2>1
<1>5. path[depth + 1] = node(i)
  <2> SUFFICES ASSUME NEW m, m = depth + 1 PROVE path[m] = node(i)
    OBVIOUS
  <2>1. m # 1 /\ m - 1 = depth /\ m \in 1 .. (depth + 1)
    <3>1. m = depth + 1 /\ depth \in Nat /\ depth >= 1
      BY <1>0
    <3> HIDE DEF depth, path
    <3> QED
      BY <3>1
  <2>2. path[m] = here(m)
    BY <1>8, <2>1
  <2>3. here(m) = node(CHOOSE j \in Above(nodes, i, m - 1) : TRUE)
    BY <2>1, Zenon
  <2>4. Above(nodes, i, m - 1) = {i}
    BY <1>2, <2>1
  <2>5. (CHOOSE j \in Above(nodes, i, m - 1) : TRUE) = i
    <3> HIDE DEF depth
    <3> QED
      BY <2>4
  <2> QED
    BY <2>2, <2>3, <2>5, Zenon
<1>6. ASSUME NEW k \in 1 .. depth PROVE path[k] = entry(k)
  <2>1. k \in 1 .. (depth + 1) /\ (k # 1 => k - 1 \in 1 .. (depth - 1))
    BY <1>0
  <2>2. CASE k = 1
    BY <1>4, <2>1, <2>2
  <2>3. CASE k # 1
    <3>1. Above(nodes, i, k - 1) = Above(nodes, i - 1, k - 1)
      BY <1>3, <2>1, <2>3
    <3> QED
      BY <1>4, <2>1, <2>3, <3>1
  <2> QED
    BY <2>2, <2>3
<1>7. path = Append(SubSeq(stack, 1, ParentCount(depth, Len(stack))), node(i))
  <2> HIDE DEF stack, depth, node, entry, path
  <2>1. ParentCount(depth, Len(stack)) = depth
    <3> DEFINE size == Len(stack)
    <3>1. depth \in Nat /\ size \in Nat /\ depth <= size
      BY <1>0, <1>1
    <3> HIDE DEF size
    <3>2. ParentCount(depth, size) = depth
      BY <3>1 DEF ParentCount
    <3> QED
      BY <3>2 DEF size
  <2>2. path = [k \in 1 .. (depth + 1) |-> path[k]]
    BY <1>4
  <2>3. SubSeq(stack, 1, depth) = [k \in 1 .. depth |-> entry(k)]
    <3>1. SubSeq(stack, 1, depth) = [k \in 1 .. depth |-> stack[k]]
      BY <1>0, <1>1
    <3>2. \A k \in 1 .. depth : k \in 1 .. Len(stack)
      BY <1>0, <1>1
    <3>3. \A k \in 1 .. Len(stack) : stack[k] = entry(k)
      BY <1>1, Zenon
    <3> QED
      BY <3>1, <3>2, <3>3
  <2>4. SubSeq(stack, 1, depth) = [k \in 1 .. depth |-> path[k]]
    BY <2>3, <1>6
  <2>5. Append([k \in 1 .. depth |-> path[k]], path[depth + 1]) = [k \in 1 .. (depth + 1) |-> path[k]]
    BY <1>0
  <2> QED
    BY <2>1, <2>2, <2>4, <2>5, <1>5
<1> QED
  BY <1>7

(* The lines of a tree. *)
NodeLine(nodes, i) ==
    [kind |-> "dependency", artifact |-> nodes[i].artifact, version |-> nodes[i].version,
     requested |-> nodes[i].requested, managed |-> nodes[i].managed,
     status |-> nodes[i].status,
     indent |-> [level \in 1..(nodes[i].depth - 1) |->
                   IF HasLaterSibling(nodes, i, level) THEN "bar" ELSE "blank"]]

LEMMA ConcatIs ==
    ASSUME NEW S, NEW s1 \in Seq(S), NEW s2 \in Seq(S)
    PROVE  /\ Len(s1 \o s2) = Len(s1) + Len(s2) /\ s1 \o s2 \in Seq(S)
           /\ \A i \in 1 .. Len(s1) : (s1 \o s2)[i] = s1[i]
           /\ \A i \in 1 .. Len(s2) : (s1 \o s2)[Len(s1) + i] = s2[i]
OBVIOUS

LEMMA TreeLines ==
    ASSUME NEW module, NEW nodes, TreeOK(nodes)
    PROVE  LET printed == MavenPrints(module, nodes) IN
           /\ DOMAIN printed = 1 .. (Len(nodes) + 2)
           /\ printed[1] = [kind |-> "header", module |-> module]
           /\ printed[2] = [kind |-> "root", module |-> module]
           /\ \A i \in 1 .. Len(nodes) : printed[2 + i] = NodeLine(nodes, i)
<1> DEFINE header == [kind |-> "header", module |-> module]
           root == [kind |-> "root", module |-> module]
           rest == [i \in DOMAIN nodes |-> NodeLine(nodes, i)]
           front == <<header, root>>
           S == {header, root} \cup {NodeLine(nodes, i) : i \in DOMAIN nodes}
           printed == MavenPrints(module, nodes)
<1>1. Len(nodes) \in Nat /\ DOMAIN nodes = 1 .. Len(nodes)
  BY TreeDepths
<1>2. printed = front \o rest
  BY Zenon DEF MavenPrints, NodeLine
<1> HIDE DEF printed
<1>3. front \in Seq(S) /\ Len(front) = 2 /\ front[1] = header /\ front[2] = root
  <2>1. header \in S /\ root \in S
    OBVIOUS
  <2> HIDE DEF S, header, root
  <2> QED
    BY <2>1, SeqOfTwo
<1>4. rest \in Seq(S) /\ Len(rest) = Len(nodes) /\ \A i \in 1 .. Len(nodes) : rest[i] = NodeLine(nodes, i)
  <2>1. \A i \in 1 .. Len(nodes) : NodeLine(nodes, i) \in S
    BY <1>1
  <2>2. rest = [i \in 1 .. Len(nodes) |-> NodeLine(nodes, i)]
    BY <1>1, Zenon
  <2> HIDE DEF S, rest
  <2> QED
    BY <2>1, <2>2, <1>1
<1> HIDE DEF front, rest, S, header, root
<1>5. /\ printed \in Seq(S) /\ Len(printed) = 2 + Len(nodes)
      /\ printed[1] = header /\ printed[2] = root
      /\ \A i \in 1 .. Len(nodes) : printed[2 + i] = NodeLine(nodes, i)
  <2>1. /\ Len(front \o rest) = Len(front) + Len(rest) /\ front \o rest \in Seq(S)
        /\ \A i \in 1 .. Len(front) : (front \o rest)[i] = front[i]
        /\ \A i \in 1 .. Len(rest) : (front \o rest)[Len(front) + i] = rest[i]
    <3>1. front \in Seq(S) /\ rest \in Seq(S)
      BY <1>3, <1>4
    <3> QED
      BY <3>1, ConcatIs
  <2>2. 1 \in 1 .. Len(front) /\ 2 \in 1 .. Len(front)
    BY <1>3
  <2> QED
    BY <1>2, <1>3, <1>4, <2>1, <2>2
<1>6. DOMAIN printed = 1 .. (Len(nodes) + 2)
  BY <1>1, <1>5
<1> QED
  BY <1>5, <1>6 DEF printed, header, root

-----------------------------------------------------------------------------
(* A text that is complete and whose lines can all be read. *)
Readable(t) == ~t.truncated /\ \A k \in DOMAIN t.lines : t.lines[k].kind # "malformed"

TreeText(t) == t \in Texts /\ t.op = "tree"

(* Where a text has the line of node i of its tree m. *)
LineOf(t, m, i) == t.begins[m] + 2 + i

LEMMA TreeTextIs ==
    ASSUME NEW t, TreeText(t)
    PROVE  /\ t.truncated \in BOOLEAN
           /\ Len(t.lines) \in Nat /\ DOMAIN t.lines = 1 .. Len(t.lines)
           /\ \A m \in DOMAIN t.trees : TreeOK(t.trees[m].nodes)
BY TreeAssumption DEF TreeText, TreeOK

LEMMA ReadableText ==
    ASSUME NEW t, TreeText(t), Readable(t)
    PROVE  /\ \A m \in DOMAIN t.trees :
                LET tree == t.trees[m] IN
                /\ t.begins[m] \in Nat
                /\ \A i \in 0 .. Len(tree.nodes) : LineOf(t, m, i) \in 2 .. Len(t.lines)
                /\ t.lines[LineOf(t, m, 0)] = [kind |-> "root", module |-> tree.module]
                /\ \A i \in 1 .. Len(tree.nodes) : t.lines[LineOf(t, m, i)] = NodeLine(tree.nodes, i)
           /\ \A k \in 1 .. Len(t.lines) :
                \/ t.lines[k].kind \in {"other", "header", "root"}
                \/ \E m \in DOMAIN t.trees : \E i \in 1 .. Len(t.trees[m].nodes) : k = LineOf(t, m, i)
<1> DEFINE printed(m) == MavenPrints(t.trees[m].module, t.trees[m].nodes)
<1>1. /\ \A n \in DOMAIN t.trees : \A k \in DOMAIN printed(n) :
            /\ t.begins[n] \in Nat /\ t.begins[n] + k \in DOMAIN t.lines
            /\ t.lines[t.begins[n] + k] = printed(n)[k]
      /\ \A k \in DOMAIN t.lines :
            \/ t.lines[k].kind = "other"
            \/ \E n \in DOMAIN t.trees : k - t.begins[n] \in DOMAIN printed(n)
  BY TreeAssumption DEF TreeText, Readable
<1>2. Len(t.lines) \in Nat /\ DOMAIN t.lines = 1 .. Len(t.lines)
  BY TreeTextIs
<1>3. ASSUME NEW m \in DOMAIN t.trees
      PROVE  LET nodes == t.trees[m].nodes IN
             /\ Len(nodes) \in Nat
             /\ DOMAIN printed(m) = 1 .. (Len(nodes) + 2)
             /\ printed(m)[1] = [kind |-> "header", module |-> t.trees[m].module]
             /\ printed(m)[2] = [kind |-> "root", module |-> t.trees[m].module]
             /\ \A i \in 1 .. Len(nodes) : printed(m)[2 + i] = NodeLine(nodes, i)
  BY TreeTextIs, TreeLines, TreeDepths
<1> HIDE DEF printed
<1>4. ASSUME NEW m \in DOMAIN t.trees
      PROVE  LET tree == t.trees[m] IN
             /\ t.begins[m] \in Nat
             /\ \A i \in 0 .. Len(tree.nodes) : LineOf(t, m, i) \in 2 .. Len(t.lines)
             /\ t.lines[LineOf(t, m, 0)] = [kind |-> "root", module |-> tree.module]
             /\ \A i \in 1 .. Len(tree.nodes) : t.lines[LineOf(t, m, i)] = NodeLine(tree.nodes, i)
  <2> DEFINE nodes == t.trees[m].nodes
             begins == t.begins[m]
  <2>1. Len(nodes) \in Nat /\ DOMAIN printed(m) = 1 .. (Len(nodes) + 2)
    BY <1>3
  <2>2. \A k \in 1 .. (Len(nodes) + 2) :
           begins \in Nat /\ begins + k \in 1 .. Len(t.lines) /\ t.lines[begins + k] = printed(m)[k]
    BY <1>1, <1>2, <2>1
  <2>3. 1 \in 1 .. (Len(nodes) + 2) /\ 2 \in 1 .. (Len(nodes) + 2)
        /\ \A i \in 0 .. Len(nodes) : 2 + i \in 1 .. (Len(nodes) + 2)
    BY <2>1
  <2>4. begins \in Nat
    BY <2>2, <2>3
  <2>5. \A i \in 0 .. Len(nodes) : LineOf(t, m, i) = begins + (2 + i) /\ LineOf(t, m, i) >= 2
    <3>1. \A i \in 0 .. Len(nodes) : i \in Nat
      BY <2>1
    <3>2. \A i : LineOf(t, m, i) = begins + 2 + i
      BY DEF LineOf
    <3> HIDE DEF begins, nodes
    <3> QED
      BY <2>4, <3>1, <3>2
  <2>6. \A i \in 0 .. Len(nodes) :
           LineOf(t, m, i) \in 2 .. Len(t.lines) /\ t.lines[LineOf(t, m, i)] = printed(m)[2 + i]
    <3> HIDE DEF begins, nodes
    <3> SUFFICES ASSUME NEW i \in 0 .. Len(nodes)
                 PROVE  LineOf(t, m, i) \in 2 .. Len(t.lines) /\ t.lines[LineOf(t, m, i)] = printed(m)[2 + i]
      OBVIOUS
    <3>1. begins + (2 + i) \in 1 .. Len(t.lines) /\ t.lines[begins + (2 + i)] = printed(m)[2 + i]
      BY <2>2, <2>3
    <3> QED
      BY <3>1, <2>5, <1>2
  <2>7. 0 \in 0 .. Len(nodes) /\ 2 + 0 = 2 /\ \A i \in 1 .. Len(nodes) : i \in 0 .. Len(nodes)
    BY <2>1
  <2> QED
    BY <1>3, <2>4, <2>6, <2>7
<1>5. ASSUME NEW k \in 1 .. Len(t.lines), t.lines[k].kind \notin {"other", "header", "root"}
      PROVE  \E m \in DOMAIN t.trees : \E i \in 1 .. Len(t.trees[m].nodes) : k = LineOf(t, m, i)
  <2>1. PICK m \in DOMAIN t.trees : k - t.begins[m] \in DOMAIN printed(m)
    BY <1>1, <1>2, <1>5
  <2> DEFINE nodes == t.trees[m].nodes
             begins == t.begins[m]
             j == k - begins
  <2>2. Len(nodes) \in Nat /\ begins \in Nat /\ j \in 1 .. (Len(nodes) + 2)
    BY <1>3, <1>4, <2>1
  <2>3. t.lines[begins + j] = printed(m)[j] /\ begins + j = k
    BY <1>1, <2>1, <2>2
  <2>4. j # 1 /\ j # 2
    <3>1. printed(m)[1].kind = "header" /\ printed(m)[2].kind = "root"
      <4>1. printed(m)[1] = [kind |-> "header", module |-> t.trees[m].module]
            /\ printed(m)[2] = [kind |-> "root", module |-> t.trees[m].module]
        BY <1>3, Zenon
      <4> QED
        BY <4>1
    <3>2. t.lines[k] = printed(m)[j]
      BY <2>3, Zenon
    <3> HIDE DEF j
    <3> QED
      BY <1>5, <3>1, <3>2
  <2> HIDE DEF nodes, begins
  <2>5. j - 2 \in 1 .. Len(nodes) /\ k = begins + 2 + (j - 2)
    BY <2>2, <2>4
  <2> QED
    BY <2>5 DEF nodes, begins, LineOf
<1> QED
  BY <1>4, <1>5

-----------------------------------------------------------------------------
(* The path that the node i of a tree should get. *)
PathOf(tree, i) ==
    [module |-> tree.module, nodes |-> TruePath(tree.module, tree.nodes, i),
     depth |-> tree.nodes[i].depth,
     artifact |-> tree.nodes[i].artifact, version |-> tree.nodes[i].version,
     requested |-> tree.nodes[i].requested, managed |-> tree.nodes[i].managed,
     status |-> tree.nodes[i].status]

(* The paths of the nodes in the first n lines. *)
PathsUpto(t, n) ==
    UNION {{PathOf(t.trees[m], i) :
              i \in {j \in 1 .. Len(t.trees[m].nodes) : LineOf(t, m, j) <= n}} : m \in DOMAIN t.trees}

LEMMA PathUpto ==
    ASSUME NEW t, NEW n, NEW p
    PROVE  p \in PathsUpto(t, n) <=>
             \E m \in DOMAIN t.trees : \E i \in 1 .. Len(t.trees[m].nodes) :
                LineOf(t, m, i) <= n /\ p = PathOf(t.trees[m], i)
<1> DEFINE of(m) == {PathOf(t.trees[m], i) :
                        i \in {j \in 1 .. Len(t.trees[m].nodes) : LineOf(t, m, j) <= n}}
<1>1. \A m : p \in of(m) <=> \E i \in 1 .. Len(t.trees[m].nodes) :
                                 LineOf(t, m, i) <= n /\ p = PathOf(t.trees[m], i)
  OBVIOUS
<1>2. PathsUpto(t, n) = UNION {of(m) : m \in DOMAIN t.trees}
  BY Zenon DEF PathsUpto
<1> HIDE DEF of
<1> QED
  BY <1>1, <1>2

(* What is true of every loop over a tree. *)
TreeLoop(l, t) ==
    /\ l = [at |-> l.at, module |-> l.module, stack |-> l.stack, malformed |-> l.malformed,
            paths |-> l.paths]
    /\ l.at \in 1 .. (Len(t.lines) + 1)
    /\ l.malformed \in BOOLEAN
    /\ l.malformed <=> \E k \in 1 .. (l.at - 1) : t.lines[k].kind = "malformed"

(* What is true if the text is readable. *)
PathLoop(l, t) ==
    /\ l.paths \in Seq(PathsUpto(t, l.at - 1))
    /\ \A p \in PathsUpto(t, l.at - 1) : \E j \in 1 .. Len(l.paths) : l.paths[j] = p
    /\ \A m \in DOMAIN t.trees : \A i \in 0 .. Len(t.trees[m].nodes) :
          LineOf(t, m, i) = l.at - 1 =>
             /\ l.module = t.trees[m].module
             /\ l.stack = StackAfter(t.trees[m].module, t.trees[m].nodes, i)

LEMMA TreeLineRead ==
    ASSUME TreeText(text), TreeLoop(loop, text), ResolutionLine
    PROVE  LET line == text.lines[loop.at]
               depth == Len(line.indent) + 1
               nodes == Append(SubSeq(loop.stack, 1, ParentCount(depth, Len(loop.stack))),
                               <<line.artifact, line.version>>)
               path == [module |-> loop.module, nodes |-> nodes, depth |-> depth,
                        artifact |-> line.artifact, version |-> line.version,
                        requested |-> line.requested, managed |-> line.managed,
                        status |-> line.status]
           IN /\ loop.at \in 1 .. Len(text.lines) /\ Len(text.lines) \in Nat
              /\ text' = text /\ reading' = reading
              /\ loop' = [at |-> loop'.at, module |-> loop'.module, stack |-> loop'.stack,
                          malformed |-> loop'.malformed, paths |-> loop'.paths]
              /\ loop'.at = loop.at + 1
              /\ loop'.malformed = (loop.malformed \/ line.kind = "malformed")
              /\ line.kind \in {"header", "root", "malformed", "other"} => loop'.paths = loop.paths
              /\ line.kind = "root" => loop'.module = line.module /\ loop'.stack = <<line.module>>
              /\ line.kind \notin {"header", "root", "malformed", "other"} =>
                    /\ loop'.module = loop.module
                    /\ loop'.stack = nodes
                    /\ loop'.paths = Append(loop.paths, path)
<1> DEFINE line == text.lines[loop.at]
           depth == Len(line.indent) + 1
           nodes == Append(SubSeq(loop.stack, 1, ParentCount(depth, Len(loop.stack))),
                           <<line.artifact, line.version>>)
           path == [module |-> loop.module, nodes |-> nodes, depth |-> depth,
                    artifact |-> line.artifact, version |-> line.version,
                    requested |-> line.requested, managed |-> line.managed,
                    status |-> line.status]
           next == [loop EXCEPT !.at = @ + 1]
<1>1. loop.at \in 1 .. Len(text.lines) /\ Len(text.lines) \in Nat
  BY TreeTextIs DEF ResolutionLine, TreeLoop
<1>2. /\ loop = [at |-> loop.at, module |-> loop.module, stack |-> loop.stack,
                 malformed |-> loop.malformed, paths |-> loop.paths]
      /\ loop.malformed \in BOOLEAN
  BY DEF TreeLoop
<1>3. CASE line.kind = "header"
  <2>1. Continue([next EXCEPT !.module = line.module, !.stack = <<>>])
    BY <1>3, Zenon DEF ResolutionLine
  <2> QED
    BY <1>1, <1>2, <1>3, <2>1 DEF Continue
<1>4. CASE line.kind = "root"
  <2>1. Continue([next EXCEPT !.module = line.module, !.stack = <<line.module>>])
    BY <1>4 DEF ResolutionLine
  <2> QED
    BY <1>1, <1>2, <1>4, <2>1 DEF Continue
<1>5. CASE line.kind = "malformed"
  <2>1. Continue([next EXCEPT !.malformed = TRUE])
    BY <1>5 DEF ResolutionLine
  <2> QED
    BY <1>1, <1>2, <1>5, <2>1 DEF Continue
<1>6. CASE line.kind = "other"
  <2>1. Continue(next)
    BY <1>6 DEF ResolutionLine
  <2> QED
    BY <1>1, <1>2, <1>6, <2>1 DEF Continue
<1>7. CASE line.kind \notin {"header", "root", "malformed", "other"}
  <2>1. Continue([next EXCEPT !.stack = nodes, !.paths = Append(@, path)])
    BY <1>7 DEF ResolutionLine
  <2> HIDE DEF nodes, path
  <2>2. next = [at |-> loop.at + 1, module |-> loop.module, stack |-> loop.stack,
                malformed |-> loop.malformed, paths |-> loop.paths]
    BY <1>2
  <2> HIDE DEF next
  <2>3. loop' = [at |-> loop.at + 1, module |-> loop.module, stack |-> nodes,
                 malformed |-> loop.malformed, paths |-> Append(loop.paths, path)]
    BY <2>1, <2>2 DEF Continue
  <2>4. text' = text /\ reading' = reading
    BY <2>1 DEF Continue
  <2> HIDE DEF line
  <2>5. loop'.at = loop.at + 1 /\ loop'.module = loop.module /\ loop'.stack = nodes
        /\ loop'.malformed = loop.malformed /\ loop'.paths = Append(loop.paths, path)
        /\ loop' = [at |-> loop'.at, module |-> loop'.module, stack |-> loop'.stack,
                    malformed |-> loop'.malformed, paths |-> loop'.paths]
    BY <2>3
  <2>6. loop'.malformed = (loop.malformed \/ line.kind = "malformed")
    BY <1>2, <1>7, <2>5
  <2> QED
    BY <1>1, <1>7, <2>4, <2>5, <2>6 DEF line, nodes, path
<1> QED
  BY <1>3, <1>4, <1>5, <1>6, <1>7

LEMMA TreeLoopStep ==
    ASSUME TreeText(text), TreeLoop(loop, text), ResolutionLine
    PROVE  TreeLoop(loop', text)
<1> DEFINE line == text.lines[loop.at]
<1>1. /\ loop.at \in 1 .. Len(text.lines) /\ Len(text.lines) \in Nat
      /\ loop' = [at |-> loop'.at, module |-> loop'.module, stack |-> loop'.stack,
                  malformed |-> loop'.malformed, paths |-> loop'.paths]
      /\ loop'.at = loop.at + 1
      /\ loop'.malformed = (loop.malformed \/ line.kind = "malformed")
  BY TreeLineRead
<1>2. /\ loop.malformed \in BOOLEAN
      /\ loop.malformed <=> \E k \in 1 .. (loop.at - 1) : text.lines[k].kind = "malformed"
  BY DEF TreeLoop
<1>3. 1 .. (loop'.at - 1) = (1 .. (loop.at - 1)) \cup {loop.at}
  BY <1>1
<1>4. loop'.malformed <=> \E k \in 1 .. (loop'.at - 1) : text.lines[k].kind = "malformed"
  BY <1>1, <1>2, <1>3
<1>5. loop'.at \in 1 .. (Len(text.lines) + 1) /\ loop'.malformed \in BOOLEAN
  BY <1>1, <1>2
<1> QED
  BY <1>1, <1>4, <1>5 DEF TreeLoop

LEMMA MorePaths ==
    ASSUME NEW t, TreeText(t), Readable(t), NEW k \in 1 .. Len(t.lines), NEW p
    PROVE  p \in PathsUpto(t, k) <=>
             \/ p \in PathsUpto(t, k - 1)
             \/ \E m \in DOMAIN t.trees : \E i \in 1 .. Len(t.trees[m].nodes) :
                   LineOf(t, m, i) = k /\ p = PathOf(t.trees[m], i)
<1>1. k \in Nat
  BY TreeTextIs
<1>2. \A m \in DOMAIN t.trees : \A i \in 1 .. Len(t.trees[m].nodes) :
         LineOf(t, m, i) <= k <=> LineOf(t, m, i) <= k - 1 \/ LineOf(t, m, i) = k
  <2> SUFFICES ASSUME NEW m \in DOMAIN t.trees, NEW i \in 1 .. Len(t.trees[m].nodes)
               PROVE  LineOf(t, m, i) <= k <=> LineOf(t, m, i) <= k - 1 \/ LineOf(t, m, i) = k
    OBVIOUS
  <2>1. LineOf(t, m, i) \in Nat
    <3>1. t.begins[m] \in Nat
      BY ReadableText
    <3>2. Len(t.trees[m].nodes) \in Nat
      BY TreeTextIs, TreeDepths
    <3>3. i \in Nat
      BY <3>2
    <3> QED
      BY <3>1, <3>3 DEF LineOf
  <2> QED
    BY <1>1, <2>1
<1> QED
  BY <1>2, PathUpto

(* A line that is not a dependency adds no path. *)
LEMMA NoPath ==
    ASSUME TreeText(text), Readable(text), TreeLoop(loop, text), PathLoop(loop, text), ResolutionLine,
           text.lines[loop.at].kind \in {"header", "root", "malformed", "other"}
    PROVE  PathLoop(loop', text)
<1> DEFINE k == loop.at
           line == text.lines[k]
<1>1. /\ k \in 1 .. Len(text.lines) /\ Len(text.lines) \in Nat
      /\ loop'.at = k + 1
      /\ loop'.paths = loop.paths
      /\ line.kind = "root" => loop'.module = line.module /\ loop'.stack = <<line.module>>
  BY TreeLineRead
<1>2. ASSUME NEW m \in DOMAIN text.trees, NEW i \in 1 .. Len(text.trees[m].nodes)
      PROVE  LineOf(text, m, i) # k
  <2>1. text.lines[LineOf(text, m, i)] = NodeLine(text.trees[m].nodes, i)
    BY ReadableText
  <2>2. NodeLine(text.trees[m].nodes, i).kind = "dependency"
    BY DEF NodeLine
  <2> QED
    BY <2>1, <2>2
<1>3. \A p : p \in PathsUpto(text, k) <=> p \in PathsUpto(text, k - 1)
  BY <1>1, <1>2, MorePaths
<1>4. PathsUpto(text, loop'.at - 1) = PathsUpto(text, loop.at - 1)
  <2>1. loop'.at - 1 = k
    BY <1>1
  <2> QED
    BY <1>3, <2>1
<1>5. ASSUME NEW m \in DOMAIN text.trees, NEW i \in 0 .. Len(text.trees[m].nodes),
             LineOf(text, m, i) = loop'.at - 1
      PROVE  /\ loop'.module = text.trees[m].module
             /\ loop'.stack = StackAfter(text.trees[m].module, text.trees[m].nodes, i)
  <2>1. LineOf(text, m, i) = k
    BY <1>1, <1>5
  <2>2. i = 0
    <3>1. Len(text.trees[m].nodes) \in Nat
      BY TreeTextIs, TreeDepths
    <3> QED
      BY <1>2, <2>1, <3>1
  <2>3. line = [kind |-> "root", module |-> text.trees[m].module]
    BY <2>1, <2>2, ReadableText
  <2>4. loop'.module = text.trees[m].module /\ loop'.stack = <<text.trees[m].module>>
    <3>1. line.kind = "root" /\ line.module = text.trees[m].module
      BY <2>3
    <3> QED
      BY <1>1, <3>1
  <2> QED
    BY <2>2, <2>4 DEF StackAfter
<1> QED
  BY <1>1, <1>4, <1>5 DEF PathLoop

(* A dependency adds its path. *)
LEMMA OnePath ==
    ASSUME TreeText(text), Readable(text), TreeLoop(loop, text), PathLoop(loop, text), ResolutionLine,
           text.lines[loop.at].kind \notin {"header", "root", "malformed", "other"}
    PROVE  PathLoop(loop', text)
<1> DEFINE k == loop.at
           line == text.lines[k]
           depth == Len(line.indent) + 1
           nodes == Append(SubSeq(loop.stack, 1, ParentCount(depth, Len(loop.stack))),
                           <<line.artifact, line.version>>)
           path == [module |-> loop.module, nodes |-> nodes, depth |-> depth,
                    artifact |-> line.artifact, version |-> line.version,
                    requested |-> line.requested, managed |-> line.managed,
                    status |-> line.status]
<1>1. /\ k \in 1 .. Len(text.lines) /\ Len(text.lines) \in Nat
      /\ loop'.at = k + 1
      /\ loop'.module = loop.module
      /\ loop'.stack = nodes
      /\ loop'.paths = Append(loop.paths, path)
  BY TreeLineRead
<1>2. ASSUME NEW m \in DOMAIN text.trees, NEW i \in 0 .. Len(text.trees[m].nodes),
             LineOf(text, m, i) = k
      PROVE  /\ i \in 1 .. Len(text.trees[m].nodes)
             /\ loop.module = text.trees[m].module
             /\ nodes = TruePath(text.trees[m].module, text.trees[m].nodes, i)
             /\ path = PathOf(text.trees[m], i)
  <2> DEFINE tree == text.trees[m]
             stack == StackAfter(tree.module, tree.nodes, i - 1)
  <2>1. TreeOK(tree.nodes) /\ Len(tree.nodes) \in Nat /\ text.begins[m] \in Nat
    BY TreeTextIs, TreeDepths, ReadableText
  <2>2. i # 0
    <3>1. i = 0 => line = [kind |-> "root", module |-> tree.module]
      BY <1>2, ReadableText
    <3> HIDE DEF line
    <3> QED
      BY <3>1 DEF line
  <2>3. i \in 1 .. Len(tree.nodes) /\ i - 1 \in 0 .. Len(tree.nodes)
    BY <2>1, <2>2
  <2>4. LineOf(text, m, i - 1) = k - 1
    BY <1>2, <2>1, <2>3 DEF LineOf
  <2>5. loop.module = tree.module /\ loop.stack = stack
    <3> SUFFICES ASSUME NEW j, j = i - 1
                 PROVE  /\ loop.module = tree.module
                        /\ loop.stack = StackAfter(tree.module, tree.nodes, j)
      OBVIOUS
    <3>1. j \in 0 .. Len(tree.nodes) /\ LineOf(text, m, j) = loop.at - 1
      BY <2>3, <2>4
    <3>2. \A h \in 0 .. Len(tree.nodes) : LineOf(text, m, h) = loop.at - 1 =>
             loop.module = tree.module /\ loop.stack = StackAfter(tree.module, tree.nodes, h)
      BY DEF PathLoop
    <3> HIDE DEF tree
    <3> QED
      BY <3>1, <3>2
  <2>6. line = NodeLine(tree.nodes, i)
    <3>1. text.lines[LineOf(text, m, i)] = NodeLine(tree.nodes, i)
      BY <2>3, ReadableText
    <3> QED
      BY <1>2, <3>1, Zenon
  <2>7. /\ line.artifact = tree.nodes[i].artifact /\ line.version = tree.nodes[i].version
        /\ line.requested = tree.nodes[i].requested /\ line.managed = tree.nodes[i].managed
        /\ line.status = tree.nodes[i].status
        /\ line.indent = [level \in 1..(tree.nodes[i].depth - 1) |->
                            IF HasLaterSibling(tree.nodes, i, level) THEN "bar" ELSE "blank"]
    BY <2>6 DEF NodeLine
  <2>8. depth = tree.nodes[i].depth
    <3>1. tree.nodes[i].depth \in Nat /\ tree.nodes[i].depth >= 1
      BY <2>1, <2>3, TreeDepths
    <3> DEFINE d == tree.nodes[i].depth
               indent == line.indent
    <3>2. Len(indent) = d - 1
      <4>1. indent = [level \in 1..(d - 1) |-> IF HasLaterSibling(tree.nodes, i, level) THEN "bar" ELSE "blank"]
        BY <2>7
      <4>2. d - 1 \in Nat
        BY <3>1
      <4> HIDE DEF d, indent
      <4> QED
        BY <4>1, <4>2
    <3> QED
      BY <3>1, <3>2
  <2>9. TruePath(tree.module, tree.nodes, i) =
           Append(SubSeq(stack, 1, ParentCount(tree.nodes[i].depth, Len(stack))),
                  <<tree.nodes[i].artifact, tree.nodes[i].version>>)
    BY <2>1, <2>3, NextPath
  <2>10. nodes = TruePath(tree.module, tree.nodes, i)
    BY <2>5, <2>7, <2>8, <2>9
  <2> HIDE DEF nodes, depth, tree
  <2>11. path = PathOf(tree, i)
    BY <2>5, <2>7, <2>8, <2>10 DEF PathOf
  <2> QED
    BY <2>3, <2>5, <2>10, <2>11 DEF tree
<1>3. \E m \in DOMAIN text.trees : \E i \in 1 .. Len(text.trees[m].nodes) : k = LineOf(text, m, i)
  BY <1>1, ReadableText
<1>4. \A m \in DOMAIN text.trees : \A i \in 1 .. Len(text.trees[m].nodes) :
         LineOf(text, m, i) = k => PathOf(text.trees[m], i) = path
  <2>1. \A m \in DOMAIN text.trees : \A i \in 1 .. Len(text.trees[m].nodes) :
           i \in 0 .. Len(text.trees[m].nodes)
    OBVIOUS
  <2> HIDE DEF path, nodes, k
  <2> QED
    BY <1>2, <2>1
<1> HIDE DEF path, nodes, k
<1>5. \A p : p \in PathsUpto(text, k) <=> p \in PathsUpto(text, k - 1) \/ p = path
  BY <1>1, <1>3, <1>4, MorePaths
<1>6. k = loop.at /\ loop'.at - 1 = k
  BY <1>1 DEF k
<1>7. /\ loop'.paths \in Seq(PathsUpto(text, loop'.at - 1))
      /\ \A p \in PathsUpto(text, loop'.at - 1) : \E j \in 1 .. Len(loop'.paths) : loop'.paths[j] = p
  <2> DEFINE old == PathsUpto(text, k - 1)
             new == PathsUpto(text, k)
             seq == loop.paths
             more == loop'.paths
  <2>1. seq \in Seq(old) /\ \A p \in old : \E j \in 1 .. Len(seq) : seq[j] = p
    BY <1>6 DEF PathLoop
  <2>2. old \subseteq new /\ path \in new /\ \A p \in new : p \in old \/ p = path
    BY <1>5
  <2>3. more = Append(seq, path)
    BY <1>1
  <2> HIDE DEF old, new, seq, more
  <2>4. /\ more \in Seq(new) /\ Len(more) = Len(seq) + 1 /\ Len(seq) \in Nat
        /\ more[Len(seq) + 1] = path /\ \A j \in 1 .. Len(seq) : more[j] = seq[j]
    BY <2>1, <2>2, <2>3
  <2>5. \A p \in new : \E j \in 1 .. Len(more) : more[j] = p
    <3> SUFFICES ASSUME NEW p \in new PROVE \E j \in 1 .. Len(more) : more[j] = p
      OBVIOUS
    <3>1. CASE p = path
      <4>1. Len(seq) + 1 \in 1 .. Len(more)
        BY <2>4
      <4> QED
        BY <2>4, <3>1, <4>1
    <3>2. CASE p \in old
      <4>1. PICK j \in 1 .. Len(seq) : seq[j] = p
        BY <2>1, <3>2
      <4>2. j \in 1 .. Len(more) /\ more[j] = p
        BY <2>4, <4>1
      <4> QED
        BY <4>2
    <3> QED
      BY <2>2, <3>1, <3>2
  <2> QED
    BY <1>6, <2>4, <2>5 DEF new, more
<1>8. ASSUME NEW m \in DOMAIN text.trees, NEW i \in 0 .. Len(text.trees[m].nodes),
             LineOf(text, m, i) = loop'.at - 1
      PROVE  /\ loop'.module = text.trees[m].module
             /\ loop'.stack = StackAfter(text.trees[m].module, text.trees[m].nodes, i)
  <2>1. LineOf(text, m, i) = k
    BY <1>6, <1>8
  <2>2. /\ i \in 1 .. Len(text.trees[m].nodes)
        /\ loop.module = text.trees[m].module
        /\ nodes = TruePath(text.trees[m].module, text.trees[m].nodes, i)
    BY <1>2, <2>1
  <2>3. i # 0
    BY <2>2
  <2> QED
    BY <1>1, <2>2, <2>3 DEF StackAfter
<1> QED
  BY <1>7, <1>8 DEF PathLoop

-----------------------------------------------------------------------------
(* The explanation, once all lines are read. *)
KnownArtifacts(t) == UNION {{n.artifact : n \in ToSet(tree.nodes)} : tree \in ToSet(t.trees)}

LEMMA KnownArtifactIs ==
    ASSUME NEW t, TreeText(t), NEW a
    PROVE  a \in KnownArtifacts(t) <=>
             \E m \in DOMAIN t.trees : \E i \in 1 .. Len(t.trees[m].nodes) :
                a = t.trees[m].nodes[i].artifact
<1> DEFINE of(tree) == {n.artifact : n \in ToSet(tree.nodes)}
<1>1. \A m \in DOMAIN t.trees : DOMAIN t.trees[m].nodes = 1 .. Len(t.trees[m].nodes)
  BY TreeTextIs, TreeDepths
<1>2. \A m \in DOMAIN t.trees : a \in of(t.trees[m]) <=>
         \E i \in 1 .. Len(t.trees[m].nodes) : a = t.trees[m].nodes[i].artifact
  BY <1>1 DEF ToSet
<1>3. KnownArtifacts(t) = UNION {of(tree) : tree \in ToSet(t.trees)}
  BY Zenon DEF KnownArtifacts
<1> HIDE DEF of
<1>4. a \in KnownArtifacts(t) <=> \E m \in DOMAIN t.trees : a \in of(t.trees[m])
  BY <1>3 DEF ToSet
<1> QED
  BY <1>2, <1>4

LEMMA AllPathsRead ==
    ASSUME NEW t, TreeText(t), Readable(t), NEW l, PathLoop(l, t), l.at = Len(t.lines) + 1, NEW p
    PROVE  p \in ToSet(l.paths) <=>
             \E m \in DOMAIN t.trees : \E i \in 1 .. Len(t.trees[m].nodes) : p = PathOf(t.trees[m], i)
<1>1. Len(t.lines) \in Nat /\ l.at - 1 = Len(t.lines)
  BY TreeTextIs
<1> DEFINE read == PathsUpto(t, Len(t.lines))
<1>2. l.paths \in Seq(read) /\ \A q \in read : \E j \in 1 .. Len(l.paths) : l.paths[j] = q
  <2>1. PathsUpto(t, l.at - 1) = read
    BY <1>1
  <2> HIDE DEF read
  <2> QED
    BY <2>1 DEF PathLoop
<1>3. p \in ToSet(l.paths) <=> p \in read
  <2> HIDE DEF read
  <2>1. DOMAIN l.paths = 1 .. Len(l.paths) /\ \A j \in 1 .. Len(l.paths) : l.paths[j] \in read
    BY <1>2
  <2> QED
    BY <1>2, <2>1 DEF ToSet
<1>4. \A m \in DOMAIN t.trees : \A i \in 1 .. Len(t.trees[m].nodes) : LineOf(t, m, i) <= Len(t.lines)
  <2> SUFFICES ASSUME NEW m \in DOMAIN t.trees, NEW i \in 1 .. Len(t.trees[m].nodes)
               PROVE  LineOf(t, m, i) <= Len(t.lines)
    OBVIOUS
  <2>1. i \in 0 .. Len(t.trees[m].nodes)
    BY TreeTextIs, TreeDepths
  <2>2. LineOf(t, m, i) \in 2 .. Len(t.lines)
    BY <2>1, ReadableText
  <2> QED
    BY <1>1, <2>2
<1> QED
  BY <1>3, <1>4, PathUpto

(* The paths and the version of one explanation. *)
LEMMA ExplanationTrue ==
    ASSUME TreeText(text), Readable(text), PathLoop(loop, text), loop.at = Len(text.lines) + 1, NEW a
    PROVE  LET e == Explanation(a, loop.paths) IN
           /\ e.artifact = a
           /\ {p.nodes : p \in e.paths} = TruePaths(a)
           /\ e.selected # NoText =>
                \E t \in ToSet(text.trees) : \E n \in ToSet(t.nodes) :
                   n.artifact = a /\ n.status = "selected" /\ n.version = e.selected
<1> DEFINE paths == {p \in ToSet(loop.paths) : p.artifact = a}
           chosen == {i \in DOMAIN loop.paths :
                        loop.paths[i] \in paths /\ loop.paths[i].status = "selected"}
           e == Explanation(a, loop.paths)
           selected == IF chosen = {} THEN NoText ELSE loop.paths[Max(chosen)].version
<1>1. e.artifact = a /\ e.paths = paths /\ e.selected = selected
  BY DEF Explanation
<1>2. \A p : p \in paths <=>
         \E m \in DOMAIN text.trees : \E i \in 1 .. Len(text.trees[m].nodes) :
            p = PathOf(text.trees[m], i) /\ text.trees[m].nodes[i].artifact = a
  <2>1. \A m, i : PathOf(text.trees[m], i).artifact = text.trees[m].nodes[i].artifact
    BY DEF PathOf
  <2>2. \A p : p \in ToSet(loop.paths) <=>
           \E m \in DOMAIN text.trees : \E i \in 1 .. Len(text.trees[m].nodes) :
              p = PathOf(text.trees[m], i)
    BY AllPathsRead
  <2> QED
    BY <2>1, <2>2
<1>3. \A m \in DOMAIN text.trees : DOMAIN text.trees[m].nodes = 1 .. Len(text.trees[m].nodes)
  BY TreeTextIs, TreeDepths
<1>4. {p.nodes : p \in paths} = TruePaths(a)
  <2> DEFINE of(m) == {TruePath(text.trees[m].module, text.trees[m].nodes, i) :
                         i \in {j \in DOMAIN text.trees[m].nodes : text.trees[m].nodes[j].artifact = a}}
  <2>1. TruePaths(a) = UNION {of(m) : m \in DOMAIN text.trees}
    BY Zenon DEF TruePaths
  <2>2. \A m \in DOMAIN text.trees : \A x : x \in of(m) <=>
           \E i \in 1 .. Len(text.trees[m].nodes) :
              /\ x = TruePath(text.trees[m].module, text.trees[m].nodes, i)
              /\ text.trees[m].nodes[i].artifact = a
    BY <1>3
  <2> HIDE DEF of, paths
  <2>3. \A m, i : PathOf(text.trees[m], i).nodes = TruePath(text.trees[m].module, text.trees[m].nodes, i)
    BY DEF PathOf
  <2>4. \A x : x \in {p.nodes : p \in paths} <=>
           \E m \in DOMAIN text.trees : \E i \in 1 .. Len(text.trees[m].nodes) :
              /\ x = TruePath(text.trees[m].module, text.trees[m].nodes, i)
              /\ text.trees[m].nodes[i].artifact = a
    <3> SUFFICES ASSUME NEW x
                 PROVE  (\E p \in paths : x = p.nodes) <=>
                        \E m \in DOMAIN text.trees : \E i \in 1 .. Len(text.trees[m].nodes) :
                           /\ x = TruePath(text.trees[m].module, text.trees[m].nodes, i)
                           /\ text.trees[m].nodes[i].artifact = a
      OBVIOUS
    <3>1. ASSUME NEW p \in paths, x = p.nodes
          PROVE  \E m \in DOMAIN text.trees : \E i \in 1 .. Len(text.trees[m].nodes) :
                    /\ x = TruePath(text.trees[m].module, text.trees[m].nodes, i)
                    /\ text.trees[m].nodes[i].artifact = a
      <4>1. PICK m \in DOMAIN text.trees : \E i \in 1 .. Len(text.trees[m].nodes) :
               p = PathOf(text.trees[m], i) /\ text.trees[m].nodes[i].artifact = a
        BY <1>2
      <4> QED
        BY <2>3, <3>1, <4>1
    <3>2. ASSUME NEW m \in DOMAIN text.trees, NEW i \in 1 .. Len(text.trees[m].nodes),
                 x = TruePath(text.trees[m].module, text.trees[m].nodes, i),
                 text.trees[m].nodes[i].artifact = a
          PROVE  \E p \in paths : x = p.nodes
      <4>1. PathOf(text.trees[m], i) \in paths
        BY <1>2, <3>2
      <4> QED
        BY <2>3, <3>2, <4>1
    <3> QED
      BY <3>1, <3>2
  <2>5. \A x : x \in TruePaths(a) <=> \E m \in DOMAIN text.trees : x \in of(m)
    BY <2>1
  <2>6. \A x : x \in TruePaths(a) <=>
           \E m \in DOMAIN text.trees : \E i \in 1 .. Len(text.trees[m].nodes) :
              /\ x = TruePath(text.trees[m].module, text.trees[m].nodes, i)
              /\ text.trees[m].nodes[i].artifact = a
    BY <2>2, <2>5
  <2> QED
    BY <2>4, <2>6
<1>5. ASSUME chosen # {}
      PROVE  \E t \in ToSet(text.trees) : \E n \in ToSet(t.nodes) :
                n.artifact = a /\ n.status = "selected" /\ n.version = loop.paths[Max(chosen)].version
  <2>1. DOMAIN loop.paths = 1 .. Len(loop.paths) /\ Len(loop.paths) \in Nat
    BY DEF PathLoop
  <2>2. Max(chosen) \in chosen
    <3>1. chosen \subseteq Int /\ \A x \in chosen : x <= Len(loop.paths)
      BY <2>1
    <3>2. Len(loop.paths) \in Int
      BY <2>1
    <3> HIDE DEF chosen
    <3> QED
      BY <1>5, <3>1, <3>2, MaxIs
  <2> DEFINE p == loop.paths[Max(chosen)]
  <2>3. p \in paths /\ p.status = "selected"
    BY <2>2
  <2> HIDE DEF p, paths, chosen
  <2>4. PICK m \in DOMAIN text.trees : \E i \in 1 .. Len(text.trees[m].nodes) :
           p = PathOf(text.trees[m], i) /\ text.trees[m].nodes[i].artifact = a
    BY <1>2, <2>3
  <2>5. PICK i \in 1 .. Len(text.trees[m].nodes) :
           p = PathOf(text.trees[m], i) /\ text.trees[m].nodes[i].artifact = a
    BY <2>4
  <2> DEFINE t == text.trees[m]
             n == t.nodes[i]
  <2>6. t \in ToSet(text.trees) /\ n \in ToSet(t.nodes)
    BY <1>3 DEF ToSet
  <2>7. n.artifact = a /\ n.status = "selected" /\ n.version = p.version
    BY <2>3, <2>5 DEF PathOf
  <2> HIDE DEF t, n
  <2> QED
    BY <2>6, <2>7 DEF p
<1> HIDE DEF paths, chosen, e
<1> QED
  BY <1>1, <1>4, <1>5 DEF e

LEMMA FinitelyMany ==
    ASSUME NEW S, NEW s \in Seq(S)
    PROVE  IsFiniteSet({p.artifact : p \in ToSet(s)})
<1> DEFINE T == {p.artifact : p \in ToSet(s)}
           I == 1 .. Len(s)
           f == [i \in I |-> s[i].artifact]
<1>1. IsFiniteSet(I)
  BY FS_Interval
<1>2. DOMAIN s = I
  OBVIOUS
<1>3. T = {s[i].artifact : i \in I}
  BY <1>2 DEF ToSet
<1>4. f \in Surjection(I, T)
  <2> HIDE DEF I, T
  <2> QED
    BY <1>3 DEF Surjection
<1> HIDE DEF T, f, I
<1>5. IsFiniteSet(T)
  BY <1>1, <1>4, FS_Surjection
<1> QED
  BY <1>5 DEF T

LEMMA Explained ==
    ASSUME TreeText(text), TreeLoop(loop, text), Readable(text) => PathLoop(loop, text),
           ExplainResolution
    PROVE  PathsAreTrue'
<1> DEFINE artifacts == {p.artifact : p \in ToSet(loop.paths)} \cap text.filter
           upto(a) == {b \in artifacts : b <= a}
           shown == {a \in artifacts : Cardinality(upto(a)) <= MaxExplained}
           incomplete == text.truncated \/ shown # artifacts
           known == KnownArtifacts(text) \cap text.filter
           whole == reading'.status \in {"available", "empty"}
           explanations == {Explanation(a, loop.paths) : a \in shown}
           malformed == \E k \in DOMAIN text.lines : text.lines[k].kind = "malformed"
<1>1. /\ reading' = [explanations |-> explanations,
                     incomplete |-> incomplete \/ loop.malformed,
                     status |-> CASE loop.malformed -> "invalid"
                                  [] ~loop.malformed /\ incomplete -> "incomplete"
                                  [] ~loop.malformed /\ ~incomplete /\ shown = {} -> "empty"
                                  [] OTHER -> "available"]
      /\ text' = text /\ loop.at > Len(text.lines)
  BY DEF ExplainResolution
<1>2. /\ loop.malformed \in BOOLEAN /\ text.truncated \in BOOLEAN
      /\ loop.at = Len(text.lines) + 1
      /\ loop.malformed <=> malformed
  <2>1. /\ loop.at \in 1 .. (Len(text.lines) + 1) /\ loop.malformed \in BOOLEAN
        /\ loop.malformed <=> \E k \in 1 .. (loop.at - 1) : text.lines[k].kind = "malformed"
    BY DEF TreeLoop
  <2>2. Len(text.lines) \in Nat /\ DOMAIN text.lines = 1 .. Len(text.lines) /\ text.truncated \in BOOLEAN
    BY TreeTextIs
  <2>3. loop.at = Len(text.lines) + 1 /\ loop.at - 1 = Len(text.lines)
    BY <1>1, <2>1, <2>2
  <2> QED
    BY <2>1, <2>2, <2>3
<1> HIDE DEF explanations, malformed, incomplete
<1>3. /\ whole <=> ~loop.malformed /\ ~incomplete
      /\ reading'.incomplete = (incomplete \/ loop.malformed)
      /\ reading'.explanations = explanations
  <2> HIDE DEF shown
  <2>1. incomplete \in BOOLEAN
    BY DEF incomplete
  <2> QED
    BY <1>1, <1>2, <2>1
<1>4. ASSUME Readable(text)
      PROVE  artifacts = known
  <2>1. \A p : p \in ToSet(loop.paths) <=>
           \E m \in DOMAIN text.trees : \E i \in 1 .. Len(text.trees[m].nodes) :
              p = PathOf(text.trees[m], i)
    <3>1. PathLoop(loop, text)
      BY <1>4
    <3>2. loop.at = Len(text.lines) + 1
      BY <1>2
    <3> HIDE DEF artifacts, known, shown
    <3> QED
      BY <1>4, <3>1, <3>2, AllPathsRead, Zenon
  <2>2. \A m, i : PathOf(text.trees[m], i).artifact = text.trees[m].nodes[i].artifact
    BY DEF PathOf
  <2>3. \A a : a \in {p.artifact : p \in ToSet(loop.paths)} <=> a \in KnownArtifacts(text)
    <3> SUFFICES ASSUME NEW a
                 PROVE  (\E p \in ToSet(loop.paths) : a = p.artifact) <=> a \in KnownArtifacts(text)
      OBVIOUS
    <3>1. a \in KnownArtifacts(text) <=>
             \E m \in DOMAIN text.trees : \E i \in 1 .. Len(text.trees[m].nodes) :
                a = text.trees[m].nodes[i].artifact
      BY KnownArtifactIs
    <3>2. ASSUME NEW p \in ToSet(loop.paths), a = p.artifact
          PROVE  a \in KnownArtifacts(text)
      BY <2>1, <2>2, <3>1, <3>2
    <3>3. ASSUME NEW m \in DOMAIN text.trees, NEW i \in 1 .. Len(text.trees[m].nodes),
                 a = text.trees[m].nodes[i].artifact
          PROVE  \E p \in ToSet(loop.paths) : a = p.artifact
      <4>1. PathOf(text.trees[m], i) \in ToSet(loop.paths)
        BY <2>1
      <4> QED
        BY <2>2, <3>3, <4>1
    <3> QED
      BY <3>1, <3>2, <3>3
  <2> QED
    BY <2>3
<1>5. Readable(text) <=> ~text.truncated /\ ~loop.malformed
  BY <1>2 DEF Readable, malformed
<1>6. whole => Readable(text) /\ shown = known
  <2> SUFFICES ASSUME whole PROVE Readable(text) /\ shown = known
    OBVIOUS
  <2>1. ~loop.malformed /\ ~incomplete
    BY <1>3
  <2>2. ~text.truncated /\ shown = artifacts
    BY <2>1 DEF incomplete
  <2> HIDE DEF shown, known, artifacts
  <2> QED
    BY <1>4, <1>5, <2>1, <2>2
<1>7. \A a : Explanation(a, loop.paths).artifact = a
  BY DEF Explanation
<1>8. whole => {e.artifact : e \in explanations} = known
  <2>1. {e.artifact : e \in explanations} = shown
    <3> HIDE DEF shown
    <3> QED
      BY <1>7 DEF explanations
  <2> QED
    BY <1>6, <2>1
<1>9. ~whole => \/ text.truncated
                \/ \E l \in ToSet(text.lines) : l.kind = "malformed"
                \/ Cardinality(known) > MaxExplained
  <2> SUFFICES ASSUME ~whole, ~text.truncated, ~malformed
               PROVE  Cardinality(known) > MaxExplained
    BY DEF malformed, ToSet
  <2>1. Readable(text) /\ shown # artifacts
    BY <1>2, <1>3, <1>5 DEF incomplete
  <2>2. PICK a \in artifacts : ~(Cardinality(upto(a)) <= MaxExplained)
    BY <2>1
  <2>3. artifacts = known
    BY <1>4, <2>1
  <2>4. IsFiniteSet(artifacts)
    <3>1. loop.paths \in Seq(PathsUpto(text, loop.at - 1))
      BY <2>1 DEF PathLoop
    <3>2. IsFiniteSet({p.artifact : p \in ToSet(loop.paths)})
      BY <3>1, FinitelyMany
    <3> QED
      BY <3>2, FS_Subset
  <2>5. upto(a) \subseteq artifacts
    OBVIOUS
  <2> HIDE DEF upto, artifacts, known
  <2>6. /\ Cardinality(upto(a)) \in Nat /\ Cardinality(artifacts) \in Nat
        /\ Cardinality(upto(a)) <= Cardinality(artifacts)
    BY <2>4, <2>5, FS_Subset, FS_CardinalityType
  <2>7. MaxExplained \in Nat
    BY TreeAssumption
  <2> QED
    BY <2>2, <2>3, <2>6, <2>7
<1>10. whole => \A e \in explanations :
          /\ {p.nodes : p \in e.paths} = TruePaths(e.artifact)
          /\ e.selected # NoText =>
               \E t \in ToSet(text.trees) : \E n \in ToSet(t.nodes) :
                  n.artifact = e.artifact /\ n.status = "selected" /\ n.version = e.selected
  <2> SUFFICES ASSUME whole, NEW a \in shown
               PROVE  LET e == Explanation(a, loop.paths) IN
                      /\ {p.nodes : p \in e.paths} = TruePaths(e.artifact)
                      /\ e.selected # NoText =>
                           \E t \in ToSet(text.trees) : \E n \in ToSet(t.nodes) :
                              n.artifact = e.artifact /\ n.status = "selected" /\ n.version = e.selected
    BY DEF explanations
  <2>1. Readable(text) /\ PathLoop(loop, text)
    BY <1>6
  <2> DEFINE e == Explanation(a, loop.paths)
  <2>2. /\ e.artifact = a
        /\ {p.nodes : p \in e.paths} = TruePaths(a)
        /\ e.selected # NoText =>
             \E t \in ToSet(text.trees) : \E n \in ToSet(t.nodes) :
                n.artifact = a /\ n.status = "selected" /\ n.version = e.selected
    BY <1>2, <2>1, ExplanationTrue
  <2> HIDE DEF e
  <2>3. /\ {p.nodes : p \in e.paths} = TruePaths(e.artifact)
        /\ e.selected # NoText =>
             \E t \in ToSet(text.trees) : \E n \in ToSet(t.nodes) :
                n.artifact = e.artifact /\ n.status = "selected" /\ n.version = e.selected
    BY <2>2
  <2> QED
    BY <2>3 DEF e
<1>11. whole <=> ~reading'.incomplete
  BY <1>3
<1>12. \A a : TruePaths(a)' = TruePaths(a)
  BY <1>1 DEF TruePaths
<1> HIDE DEF artifacts, shown, known, whole
<1>13. /\ whole <=> ~reading'.incomplete
       /\ whole => {e.artifact : e \in reading'.explanations} = known
       /\ ~whole => \/ text.truncated
                    \/ \E l \in ToSet(text.lines) : l.kind = "malformed"
                    \/ Cardinality(known) > MaxExplained
       /\ whole => \A e \in reading'.explanations :
            /\ {p.nodes : p \in e.paths} = TruePaths(e.artifact)
            /\ e.selected # NoText =>
                 \E t \in ToSet(text.trees) : \E n \in ToSet(t.nodes) :
                    n.artifact = e.artifact /\ n.status = "selected" /\ n.version = e.selected
  BY <1>3, <1>8, <1>9, <1>10, <1>11
<1>14. text' = text
  BY <1>1
<1> QED
  BY <1>12, <1>13, <1>14, Zenon DEF PathsAreTrue, whole, known, KnownArtifacts

LEMMA TreeStep ==
    ASSUME [OutputNext]_outputVars, text.op = "tree"
    PROVE  /\ text' = text
           /\ ResolutionLine \/ ExplainResolution \/ (loop' = loop /\ reading' = reading)
<1>1. CASE ResolutionLine
  BY <1>1 DEF ResolutionLine, Continue
<1>2. CASE ExplainResolution
  BY <1>2 DEF ExplainResolution
<1>3. CASE UNCHANGED outputVars
  BY <1>3 DEF outputVars
<1>4. ~Given("depths") /\ ~Given("pattern") /\ ~Given("classpath") /\ ~Given("coverage")
      /\ ~Given("modules") /\ ~Given("identity") /\ ~Given("tests")
  BY DEF Given
<1>5. ~DependencyTree /\ ~WildcardStep /\ ~WildcardEnd /\ ~BuildClasspath /\ ~CoverageGaps
  BY <1>4, Zenon DEF DependencyTree, WildcardStep, WildcardEnd, BuildClasspath, CoverageGaps
<1>6. ~DiscoverModule /\ ~DiscoverProject /\ ~ScopedIdentity /\ ~ParentPom /\ ~ReactorIdentity
      /\ ~FocusedTest
  BY <1>4, Zenon DEF DiscoverModule, DiscoverProject, ScopedIdentity, ParentPom, ReactorIdentity,
     FocusedTest
<1> QED
  BY <1>1, <1>2, <1>3, <1>5, <1>6 DEF OutputNext


TreeInv ==
    TreeText(text) => TreeLoop(loop, text) /\ (Readable(text) => PathLoop(loop, text))

LEMMA InitTreeInv == OutputInit => TreeInv
<1> SUFFICES ASSUME OutputInit, TreeText(text)
             PROVE  TreeLoop(loop, text) /\ (Readable(text) => PathLoop(loop, text))
  BY DEF TreeInv
<1>1. loop = [at |-> 1, module |-> ".", stack |-> <<>>, malformed |-> FALSE, paths |-> <<>>]
  BY DEF OutputInit, TreeText
<1>2. Len(text.lines) \in Nat
  BY TreeTextIs
<1>3. TreeLoop(loop, text)
  BY <1>1, <1>2 DEF TreeLoop
<1>4. ASSUME Readable(text) PROVE PathLoop(loop, text)
  <2>1. \A m \in DOMAIN text.trees : \A i \in 0 .. Len(text.trees[m].nodes) :
           LineOf(text, m, i) \in 2 .. Len(text.lines)
    BY <1>4, ReadableText
  <2>2. \A m \in DOMAIN text.trees : \A i \in 0 .. Len(text.trees[m].nodes) :
           LineOf(text, m, i) # 0 /\ ~(LineOf(text, m, i) <= 0)
    BY <1>2, <2>1
  <2>3. \A m \in DOMAIN text.trees : \A i \in 1 .. Len(text.trees[m].nodes) :
           i \in 0 .. Len(text.trees[m].nodes)
    BY TreeTextIs, TreeDepths
  <2>4. \A p : p \notin PathsUpto(text, 0)
    BY <2>2, <2>3, PathUpto
  <2>5. loop.at - 1 = 0 /\ loop.paths = <<>>
    BY <1>1
  <2>6. loop.paths \in Seq(PathsUpto(text, 0))
    BY <2>5
  <2> QED
    BY <2>2, <2>4, <2>5, <2>6 DEF PathLoop
<1> QED
  BY <1>3, <1>4

LEMMA NextTreeInv == TreeInv /\ [OutputNext]_outputVars => TreeInv'
<1> SUFFICES ASSUME TreeInv, [OutputNext]_outputVars, TreeText(text)'
             PROVE  TreeLoop(loop', text') /\ (Readable(text') => PathLoop(loop', text'))
  BY DEF TreeInv
<1>1. text' = text /\ TreeText(text) /\ text.op = "tree"
  BY OutputStep DEF TreeText
<1>2. TreeLoop(loop, text) /\ (Readable(text) => PathLoop(loop, text))
  BY <1>1 DEF TreeInv
<1>3. CASE ResolutionLine
  <2>1. TreeLoop(loop', text)
    BY <1>1, <1>2, <1>3, TreeLoopStep
  <2>2. Readable(text) => PathLoop(loop', text)
    BY <1>1, <1>2, <1>3, NoPath, OnePath
  <2> QED
    BY <1>1, <2>1, <2>2
<1>4. CASE ExplainResolution
  <2>1. loop' = loop
    BY <1>4 DEF ExplainResolution
  <2> QED
    BY <1>1, <1>2, <2>1
<1>5. CASE loop' = loop
  BY <1>1, <1>2, <1>5
<1> QED
  BY <1>1, <1>3, <1>4, <1>5, TreeStep

(* explain_dependency_resolution: for the trees of any modules and whatever  *)
(* is kept of their print, an answer that calls itself whole has exactly the *)
(* paths that lead to an artifact, and any other answer has a reason.        *)
THEOREM PathsAreTrueHolds == OutputSpec => []PathsAreTrue
<1> DEFINE TInv == text \in Texts /\ TreeInv /\ PathsAreTrue
<1>1. OutputInit => TInv
  BY InitTreeInv DEF OutputInit, PathsAreTrue, Read
<1>2. TInv /\ [OutputNext]_outputVars => TInv'
  <2> SUFFICES ASSUME TInv, [OutputNext]_outputVars PROVE TInv'
    OBVIOUS
  <2>1. text' = text /\ TreeInv'
    BY NextTreeInv, OutputStep
  <2>2. CASE text.op # "tree"
    BY <2>1, <2>2 DEF PathsAreTrue, Read
  <2>3. CASE text.op = "tree"
    <3>1. TreeText(text) /\ TreeLoop(loop, text) /\ (Readable(text) => PathLoop(loop, text))
      BY <2>3 DEF TreeText, TreeInv
    <3>2. CASE ResolutionLine
      <4>1. reading = NoText /\ reading' = reading
        BY <3>2 DEF ResolutionLine, Given, Continue
      <4> QED
        BY <2>1, <4>1 DEF PathsAreTrue, Read
    <3>3. CASE ExplainResolution
      BY <2>1, <3>1, <3>3, Explained
    <3>4. CASE loop' = loop /\ reading' = reading
      <4>1. \A a : TruePaths(a)' = TruePaths(a)
        BY <2>1 DEF TruePaths
      <4> QED
        BY <2>1, <3>4, <4>1, Zenon DEF PathsAreTrue, Read
    <3> QED
      BY <2>3, <3>2, <3>3, <3>4, TreeStep
  <2> QED
    BY <2>2, <2>3
<1>3. TInv => PathsAreTrue
  OBVIOUS
<1> QED
  BY <1>1, <1>2, <1>3, PTL DEF OutputSpec

-----------------------------------------------------------------------------
(* The walk over the POMs finds everything that Maven may read.  The set   *)
(* of visited POMs is closed under what Maven's model building may follow, *)
(* but for the POMs that are still pending.  Every visited POM is pending  *)
(* or was handled; when nothing is pending, the visited POMs are one of    *)
(* the closed sets of which MavenReads is the intersection.                *)

(* What the walk knows of a POM that it has visited. *)
Handled(p) ==
    pom[p] # Missing =>
        /\ RelativeParent(p, p \in Local) \subseteq visited
        /\ \A ref \in References(p) :
              /\ ref.artifact # Unknown
              /\ PomsOf(ref) \subseteq visited
              /\ StampedFor(ref) \in inputs
        /\ pom[p].literal \cup pom[p].encoded \subseteq references

IsPending(p) == <<p, TRUE>> \in pending \/ <<p, FALSE>> \in pending

PendingOK ==
    /\ \A e \in pending : \E p \in Poms : e = <<p, TRUE>> \/ e = <<p, FALSE>>
    /\ \A p \in Poms : /\ <<p, TRUE>> \in pending => p \in Local /\ p \in visited
                       /\ <<p, FALSE>> \in pending => p \notin Local /\ p \in visited

WInv ==
    /\ pom \in Worlds /\ config \in ConfigTexts
    /\ Reactor \cup Selected \subseteq visited /\ visited \subseteq Poms
    /\ PendingOK
    /\ \A p \in visited : Stamped(p)
    /\ \A p \in visited : IsPending(p) \/ Handled(p)
    /\ outcome = "done" => pending = {}

-----------------------------------------------------------------------------
LEMMA InitWInv == Init => WInv
<1> SUFFICES ASSUME Init PROVE WInv
  OBVIOUS
<1>1. PendingOK
  <2>1. \A q \in Reactor : q \in Poms /\ q \in Local
    BY PomAssumption DEF Poms
  <2>2. \A q \in Selected : q \in Poms /\ q \notin Local
    BY PomAssumption DEF Poms
  <2>3. \A q : <<q, TRUE>> \in pending => q \in Reactor
    BY DEF Init
  <2>4. \A q : <<q, FALSE>> \in pending => q \in Selected
    BY DEF Init
  <2>5. \A e \in pending : \E q \in Poms : e = <<q, TRUE>> \/ e = <<q, FALSE>>
    BY <2>1, <2>2 DEF Init
  <2>6. QED
    BY <2>1, <2>2, <2>3, <2>4, <2>5 DEF Init, PendingOK
<1>2. \A p \in visited : Stamped(p) /\ IsPending(p)
  BY DEF Init, Stamped, IsPending
<1>3. QED
  BY <1>1, <1>2, PomAssumption DEF Init, WInv, Poms

(* A reference that can be followed names POMs of the repository, and what *)
(* is stamped for it stamps them.                                          *)
LEMMA ReferenceTargets ==
    ASSUME WInv, NEW p \in Poms, pom[p] # Missing, NEW ref \in References(p),
           Followable(ref), NEW q \in PomsOf(ref), StampedFor(ref) \in inputs'
    PROVE  q \in Repository /\ Stamped(q)'
<1>1. ref.artifact \in Artifacts /\ ref.version \in Versions \cup {Open}
  BY WorldsAssumption DEF WInv, References, Followable
<1>2. q[1] = ref.artifact /\ q \in Repository
  <2>1. CASE ref.version = Open
    <3>1. PICK v \in VersionsOf(ref.artifact) : q = <<ref.artifact, v>>
      BY <2>1 DEF PomsOf
    <3>2. v \in Versions
      BY DEF VersionsOf
    <3>3. QED
      BY <1>1, <3>1, <3>2 DEF Repository
  <2>2. CASE ref.version # Open
    <3>1. q = <<ref.artifact, ref.version>> /\ ref.version \in Versions
      BY <1>1, <2>2 DEF PomsOf
    <3>2. QED
      BY <1>1, <3>1 DEF Repository
  <2>3. QED
    BY <2>1, <2>2
<1>3. CASE ref.version = Open
  BY <1>2, <1>3 DEF StampedFor, Stamped
<1>4. CASE ref.version # Open
  BY <1>2, <1>4 DEF StampedFor, Stamped, PomsOf
<1>5. QED
  BY <1>2, <1>3, <1>4

(* A step that keeps what is known leaves a handled POM handled. *)
LEMMA HandledKept ==
    ASSUME NEW p, Handled(p), pom' = pom, visited \subseteq visited',
           inputs \subseteq inputs', references \subseteq references'
    PROVE  Handled(p)'
<1>1. RelativeParent(p, p \in Local)' = RelativeParent(p, p \in Local)
  BY DEF RelativeParent
<1>2. \A ref : PomsOf(ref)' = PomsOf(ref)
  BY DEF PomsOf, VersionsOf
<1>3. References(p)' = References(p)
  BY DEF References
<1>4. QED
  BY <1>1, <1>2, <1>3 DEF Handled, StampedFor

LEMMA StampedKept ==
    ASSUME NEW p, Stamped(p), inputs \subseteq inputs' PROVE Stamped(p)'
  BY DEF Stamped

LEMMA SkipWInv ==
    ASSUME WInv, NEW p, NEW in_reactor, Skip(p, in_reactor) PROVE WInv'
<1>1. \A q \in visited' : Stamped(q)'
  BY StampedKept DEF WInv, Skip
<1>2. PendingOK'
  BY DEF WInv, PendingOK, Skip
<1>3. \A q \in visited : Handled(q) => Handled(q)'
  BY HandledKept DEF Skip
<1>4. Handled(p)'
  BY DEF Handled, Skip
<1>5. \A q \in visited' : IsPending(q)' \/ Handled(q)'
  BY <1>3, <1>4 DEF WInv, Skip, IsPending
<1>6. QED
  BY <1>1, <1>2, <1>5 DEF WInv, Skip

LEMMA VisitWInv ==
    ASSUME WInv, NEW p, NEW in_reactor, Visit(p, in_reactor) PROVE WInv'
<1> DEFINE local == RelativeParent(p, in_reactor)
<1> DEFINE others == UNION {PomsOf(ref) : ref \in Coordinates(p)}
<1>1. p \in Poms /\ p \in visited /\ pom[p] # Missing /\ in_reactor \in BOOLEAN
  BY DEF WInv, PendingOK, Visit
<1>2. /\ in_reactor => p \in Local
      /\ ~in_reactor => p \notin Local
  BY <1>1 DEF WInv, PendingOK, Visit
<1>3. local = RelativeParent(p, p \in Local)
  BY <1>2 DEF RelativeParent
<1>4. local \subseteq Local
  BY <1>1, WorldsAssumption DEF WInv, RelativeParent
<1>5. \A ref \in References(p) : Followable(ref) /\ StampedFor(ref) \in inputs'
  BY DEF Visit, Unfollowable, Coordinates
<1>6. \A q \in others : q \in Repository /\ Stamped(q)'
  BY <1>1, <1>5, ReferenceTargets DEF Coordinates
<1>7. \A q \in local : Stamped(q)'
  BY DEF Visit, Stamped
<1>8. inputs \subseteq inputs' /\ references \subseteq references' /\ pom' = pom
  BY DEF Visit
<1>9. visited' = visited \cup local \cup others
  BY DEF Visit
<1>10. \A q \in visited' : Stamped(q)'
  BY <1>6, <1>7, <1>8, <1>9, StampedKept DEF WInv
<1>11. pending' = (pending \ {<<p, in_reactor>>})
                     \cup {<<t, TRUE>> : t \in local \ visited}
                     \cup {<<t, FALSE>> : t \in others \ visited}
  BY DEF Visit, Enqueue
<1>12. PendingOK'
  <2>1. \A q \in others : q \in Poms /\ q \notin Local
    BY <1>6, PomAssumption DEF Poms
  <2>2. local \subseteq Poms
    BY <1>4 DEF Poms
  <2>3. \A e \in pending' : \E q \in Poms : e = <<q, TRUE>> \/ e = <<q, FALSE>>
    BY <1>11, <2>1, <2>2 DEF WInv, PendingOK
  <2>4. \A q \in Poms : <<q, TRUE>> \in pending' => q \in Local /\ q \in visited'
    BY <1>4, <1>9, <1>11 DEF WInv, PendingOK
  <2>5. \A q \in Poms : <<q, FALSE>> \in pending' => q \notin Local /\ q \in visited'
    BY <1>9, <1>11, <2>1 DEF WInv, PendingOK
  <2>6. QED
    BY <2>3, <2>4, <2>5 DEF PendingOK
<1>13. Handled(p)'
  <2>1. (RelativeParent(p, p \in Local) \subseteq visited)'
    BY <1>3, <1>8, <1>9 DEF RelativeParent
  <2>2. References(p)' = References(p)
    BY <1>8 DEF References
  <2>3. \A ref \in References(p) : PomsOf(ref)' = PomsOf(ref)
    BY <1>8 DEF PomsOf, VersionsOf
  <2>4. \A ref \in References(p) :
           ref.artifact # Unknown /\ PomsOf(ref) \subseteq visited' /\ StampedFor(ref) \in inputs'
    BY <1>5, <1>9 DEF Followable, Coordinates
  <2>5. pom[p].literal \cup pom[p].encoded \subseteq references'
    BY DEF Visit, Unfollowable, EnvReferences
  <2>6. QED
    BY <1>8, <2>1, <2>2, <2>3, <2>4, <2>5 DEF Handled, StampedFor
<1>14. \A q \in visited' : IsPending(q)' \/ Handled(q)'
  <2> SUFFICES ASSUME NEW q \in visited', q # p PROVE IsPending(q)' \/ Handled(q)'
    BY <1>13
  <2>1. CASE q \in visited /\ IsPending(q)
    BY <1>11, <2>1 DEF IsPending
  <2>2. CASE q \in visited /\ Handled(q)
    BY <1>8, <1>9, <2>2, HandledKept
  <2>3. CASE q \notin visited
    BY <1>9, <1>11, <2>3 DEF IsPending
  <2>4. QED
    BY <2>1, <2>2, <2>3 DEF WInv
<1>15. visited' \subseteq Poms
  BY <1>4, <1>6, <1>9 DEF WInv, Poms
<1>16. QED
  BY <1>8, <1>9, <1>10, <1>12, <1>14, <1>15 DEF WInv, Visit

LEMMA NextWInv == WInv /\ [Next]_vars => WInv'
<1> SUFFICES ASSUME WInv, [Next]_vars PROVE WInv'
  OBVIOUS
<1>1. ASSUME NEW p, NEW b, Skip(p, b) PROVE WInv'
  BY <1>1, SkipWInv
<1>2. ASSUME NEW p, NEW b, Visit(p, b) PROVE WInv'
  BY <1>2, VisitWInv
<1>3. ASSUME UNCHANGED <<pom, config, pending, visited, inputs, references>>,
             outcome' = "done" => pending = {}
      PROVE  WInv'
  <2>1. \A p \in visited : Stamped(p)' /\ (Handled(p) => Handled(p)')
    BY <1>3, StampedKept, HandledKept DEF WInv
  <2>2. PendingOK' /\ \A p : IsPending(p)' <=> IsPending(p)
    BY <1>3 DEF WInv, PendingOK, IsPending
  <2>3. QED
    BY <1>3, <2>1, <2>2 DEF WInv
<1>4. ASSUME NEW p, NEW b, GiveUp(p, b) PROVE WInv'
  BY <1>3, <1>4 DEF GiveUp, Decline
<1>5. CASE Finish
  BY <1>3, <1>5 DEF Finish
<1>6. CASE UNCHANGED vars
  BY <1>3, <1>6 DEF vars, WInv
<1>7. QED
  BY <1>1, <1>2, <1>4, <1>5, <1>6 DEF Next

(* The invariant of the walk. *)
THEOREM WalkInvariant == Spec => []WInv
  BY InitWInv, NextWInv, PTL DEF Spec

(* When nothing is pending, the visited POMs are closed under what Maven's *)
(* model building may follow, so they contain what it reads.               *)
LEMMA VisitedIsClosed ==
    ASSUME WInv, pending = {} PROVE MavenReads \subseteq visited
<1>1. \A p \in visited : Handled(p)
  BY DEF WInv, IsPending
<1>2. ClosedUnderModelBuilding(visited)
  BY <1>1 DEF WInv, ClosedUnderModelBuilding, Handled
<1>3. QED
  BY <1>2 DEF MavenReads, WInv

(* resolution_inputs, model_inputs::walk: a stored classpath is stamped    *)
(* with every POM that Maven may have read and every variable that one of  *)
(* them references, for every repository and every circle of references.   *)
THEOREM InputsAlwaysComplete == Spec => []InputsComplete
<1>1. WInv => InputsComplete
  <2> SUFFICES ASSUME WInv, outcome = "done", NEW p \in MavenReads
               PROVE  /\ Stamped(p)
                      /\ pom[p] # Missing =>
                           /\ pom[p].literal \cup pom[p].encoded \subseteq references
                           /\ \A ref \in References(p) :
                                 ref.artifact # Unknown /\ StampedFor(ref) \in inputs
    BY DEF InputsComplete
  <2>1. p \in visited /\ pending = {}
    BY VisitedIsClosed DEF WInv
  <2>2. Handled(p)
    BY <2>1 DEF WInv, IsPending
  <2>3. QED
    BY <2>1, <2>2 DEF WInv, Handled
<1>2. QED
  BY <1>1, WalkInvariant, PTL

-----------------------------------------------------------------------------
(* Digests that agree cover the same names, with the same values. *)
LEMMA SameDigest ==
    ASSUME NEW e1, NEW e2, NEW S1, NEW S2, Digest(e1, S1) = Digest(e2, S2)
    PROVE  S1 = S2 /\ \A n \in S1 : e1[n] = e2[n]
<1>1. DOMAIN Digest(e1, S1) = S1 /\ DOMAIN Digest(e2, S2) = S2
  BY DEF Digest
<1>2. \A n \in S1 : Digest(e1, S1)[n] = e1[n]
  BY DEF Digest
<1>3. \A n \in S2 : Digest(e2, S2)[n] = e2[n]
  BY DEF Digest
<1> QED
  BY <1>1, <1>2, <1>3

(* A variable that takes part by name has one value in two environments    *)
(* with the same digest, also when one of them does not set it.            *)
LEMMA SameEnvironment ==
    ASSUME NEW e1, NEW e2, EnvironmentDigest(e1) = EnvironmentDigest(e2),
           NEW n \in Names, TakesPart(n, ReferencedNames)
    PROVE  e1[n] = e2[n]
<1> DEFINE S(e) == {m \in Names : e[m] # None /\ TakesPart(m, ReferencedNames)}
<1>1. S(e1) = S(e2) /\ \A m \in S(e1) : e1[m] = e2[m]
  <2>1. Digest(e1, S(e1)) = Digest(e2, S(e2))
    BY DEF EnvironmentDigest
  <2> HIDE DEF S
  <2> QED
    BY <2>1, SameDigest
<1> QED
  BY <1>1

LEMMA SameReferenced ==
    ASSUME NEW e1, NEW e2, ReferencedDigest(e1, references) = ReferencedDigest(e2, references),
           NEW n \in Names, n \in references \ ServerOnly
    PROVE  e1[n] = e2[n]
<1> DEFINE S(e) == {m \in Names : e[m] # None /\ m \in references \ ServerOnly}
<1>1. S(e1) = S(e2) /\ \A m \in S(e1) : e1[m] = e2[m]
  <2>1. Digest(e1, S(e1)) = Digest(e2, S(e2))
    BY DEF ReferencedDigest
  <2> HIDE DEF S
  <2> QED
    BY <2>1, SameDigest
<1> QED
  BY <1>1

(* What Maven may see takes part by name or is recorded by the walk. *)
LEMMA SeenIsCovered ==
    ASSUME WInv, InputsComplete, outcome = "done", NEW n \in MavenSees
    PROVE  /\ n \in Names
           /\ TakesPart(n, ReferencedNames) \/ n \in references \ ServerOnly
<1>1. n \notin ServerOnly
  BY DEF MavenSees
<1>2. CASE n \in Launcher
  BY <1>1, <1>2, NamesAssumption DEF TakesPart
<1>3. CASE n \in IF config = Unreadable THEN Names ELSE config
  <2>1. n \in Names
    BY <1>3, NamesAssumption DEF WInv
  <2>2. ReferencedNames = Unreadable \/ n \in ReferencedNames
    BY <1>3 DEF ReferencedNames
  <2> QED
    BY <1>1, <2>1, <2>2 DEF TakesPart
<1>4. CASE \E p \in MavenReads : pom[p] # Missing /\ n \in pom[p].literal \cup pom[p].encoded
  <2>1. PICK p \in MavenReads : pom[p] # Missing /\ n \in pom[p].literal \cup pom[p].encoded
    BY <1>4
  <2>2. p \in Poms /\ n \in references
    BY <2>1 DEF InputsComplete, MavenReads
  <2> QED
    BY <1>1, <2>1, <2>2, NamesAssumption DEF WInv
<1> QED
  BY <1>2, <1>3, <1>4 DEF MavenSees

(* index_cache.rs, maven_environment.rs: two processes with the same       *)
(* classpath context and recorded variables give Maven the same value for  *)
(* every variable that its launcher, its configuration or a POM it may     *)
(* read refers to, whatever the variables, the configuration and the POMs. *)
THEOREM SameKeySameVariablesHolds == Spec => []SameKeySameVariables
<1>1. WInv /\ InputsComplete => SameKeySameVariables
  BY SeenIsCovered, SameEnvironment, SameReferenced DEF SameKeySameVariables
<1> QED
  BY <1>1, WalkInvariant, InputsAlwaysComplete, PTL
=============================================================================
