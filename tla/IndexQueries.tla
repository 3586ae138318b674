---------------------------- MODULE IndexQueries ----------------------------
(***************************************************************************)
(* The questions that an index answers (src/index.rs).  An index does not  *)
(* change once it is built, so each behaviour takes an index and a         *)
(* question and ends with its answer.  The search of the type hierarchy is *)
(* a loop over a graph that may have cycles and is modelled step by step;  *)
(* the other questions are answered in one step.                           *)
(*                                                                         *)
(* A question is a record whose field op names it; its other fields are    *)
(* what the question reads of the index and of the archives.               *)
(***************************************************************************)
EXTENDS Integers, FiniteSets, SequencesExt

CONSTANTS
    Questions,
    Lower,           \* lower-case form of each class name
    MaxResults,      \* MAX_RESULTS
    MaxSourceBytes,  \* MAX_SOURCE_BYTES
    NoAnswer

(* An archive of an index is asked once. *)
ASSUME JarsAssumption ==
    \A q \in Questions : q.op = "declaration" =>
        \A j, k \in q.jars : j.jar = k.jar => j = k

(* A match ends where its entry does at the latest. *)
ASSUME SearchAssumption ==
    /\ MaxResults \in Nat \ {0} /\ MaxSourceBytes \in Nat \ {0}
    /\ \A q \in Questions : q.op \in {"content", "source"} =>
          /\ q.limit \in Nat
          /\ q.entries \in Seq([size : Nat, utf8 : BOOLEAN, wide : BOOLEAN, hits : Seq(Nat)])
          /\ \A i \in DOMAIN q.entries : \A k \in DOMAIN q.entries[i].hits :
                q.entries[i].hits[k] <= q.entries[i].size

VARIABLES
    question,
    search,     \* local variables of a hierarchy search
    answer      \* NoAnswer until the question is answered

queryVars == <<question, search, answer>>

NoSearch == [path |-> <<>>, todo |-> {}, queue |-> <<>>, visited |-> {}, matches |-> <<>>]

(* limit: what was requested (0 stands for nothing), within 1..MaxResults. *)
Limit(requested) ==
    CASE requested = 0 -> MaxResults
      [] requested > MaxResults -> MaxResults
      [] OTHER -> requested

Asked(op) == question # NoAnswer /\ question.op = op /\ answer = NoAnswer

-----------------------------------------------------------------------------
(* search_type_hierarchy.  edges has the parent facts of all archives, and *)
(* selected the archives that the selector matches.                        *)

ChildrenOf(parent) == {e \in question.edges : Lower[e.parent] = Lower[parent]}

EdgeKey(e) == <<Lower[e.child], Lower[e.parent], e.jar>>

QueryInit ==
    /\ question \in Questions
    /\ search = IF question.op = "hierarchy"
                THEN [NoSearch EXCEPT !.path = <<question.root>>,
                                      !.todo = ChildrenOf(question.root)]
                ELSE NoSearch
    /\ answer = NoAnswer

(* Mutant: a child that was seen before is not reported for its next parent. *)
FreshChild(e) ==
    /\ \A key \in search.visited : key[1] # Lower[e.child]
    /\ \A i \in DOMAIN search.path : search.path[i] # e.child

(* An edge is followed once, and not into a class on the way to it. *)
Fresh(e) ==
    /\ EdgeKey(e) \notin search.visited
    /\ \A i \in DOMAIN search.path : search.path[i] # e.child

(* The children of a parent are examined in the order of their names; no   *)
(* property depends on it, and it is left open.                            *)
ExamineEdge(e) ==
    /\ Asked("hierarchy") /\ e \in search.todo
    /\ LET path == Append(search.path, e.child)
           report == Fresh(e) /\ e.jar \in question.selected
           matches == IF report
                      THEN Append(search.matches, [edge |-> e, path |-> path])
                      ELSE search.matches
       IN /\ search' = [search EXCEPT
                !.todo = @ \ {e},
                !.visited = @ \cup {EdgeKey(e)},
                !.matches = matches,
                !.queue = IF Fresh(e) /\ question.transitive THEN Append(@, path) ELSE @]
          /\ answer' = IF report /\ Len(matches) = Limit(question.limit)
                       THEN [matches |-> matches] ELSE NoAnswer
    /\ UNCHANGED question

(* Mutant: the parent stays in the queue. *)
NextParentAgain ==
    /\ Asked("hierarchy") /\ search.todo = {} /\ search.queue # <<>>
    /\ search' = [search EXCEPT !.path = Head(search.queue),
                                !.todo = ChildrenOf(Last(Head(search.queue)))]
    /\ UNCHANGED <<question, answer>>

NextParent ==
    /\ Asked("hierarchy") /\ search.todo = {} /\ search.queue # <<>>
    /\ search' = [search EXCEPT !.path = Head(search.queue),
                                !.queue = Tail(search.queue),
                                !.todo = ChildrenOf(Last(Head(search.queue)))]
    /\ UNCHANGED <<question, answer>>

EndOfHierarchy ==
    /\ Asked("hierarchy") /\ search.todo = {} /\ search.queue = <<>>
    /\ answer' = [matches |-> search.matches]
    /\ UNCHANGED <<question, search>>

-----------------------------------------------------------------------------
(* search_jar_content and search_source.  An entry has a size, whether it  *)
(* is UTF-8, and where in it the query matches: the positions, in order,   *)
(* at which the matching lines end.                                        *)

Budget == MaxSourceBytes * MaxResults

NoResults == [results |-> <<>>, scanned |-> 0, incomplete |-> FALSE, stop |-> FALSE]

(* What was read is searched; the result that reaches the limit ends it.   *)
Report(found, limit, hits) ==
    LET room == limit - Len(found.results)
        kept == IF Len(hits) > room THEN SubSeq(hits, 1, room) ELSE hits
        full == Len(kept) = room
    IN [found EXCEPT !.results = @ \o kept,
                     !.incomplete = @ \/ full, !.stop = full]

(* Mutant: an entry that is too large is skipped without a word. *)
ScanContentSilently(found, entry, at, limit) ==
    LET read == [found EXCEPT !.scanned = @ + entry.size] IN
    CASE found.stop -> found
      [] ~found.stop /\ entry.size > MaxSourceBytes -> found
      [] ~found.stop /\ entry.size <= MaxSourceBytes /\ read.scanned > Budget ->
            [found EXCEPT !.incomplete = TRUE, !.stop = TRUE]
      [] OTHER -> IF entry.utf8 /\ entry.hits # <<>>
                  THEN Report(read, limit, <<<<at, Head(entry.hits)>>>>) ELSE read

(* One text resource: it is read whole or not at all, and its first match  *)
(* is reported.                                                            *)
ScanContent(found, entry, at, limit) ==
    LET read == [found EXCEPT !.scanned = @ + entry.size] IN
    CASE found.stop -> found
      [] ~found.stop /\ read.scanned > Budget ->
            [found EXCEPT !.incomplete = TRUE, !.stop = TRUE]
      [] ~found.stop /\ read.scanned <= Budget /\ entry.size > MaxSourceBytes ->
            [found EXCEPT !.incomplete = TRUE]
      [] OTHER -> IF entry.utf8 /\ entry.hits # <<>>
                  THEN Report(read, limit, <<<<at, Head(entry.hits)>>>>) ELSE read

(* The bytes of a source that are searched; wide tells that a character    *)
(* straddles the limit and is cut off whole.                               *)
ReadBytes(entry) ==
    IF entry.size <= MaxSourceBytes THEN entry.size
    ELSE IF entry.wide THEN MaxSourceBytes - 1 ELSE MaxSourceBytes

LastRead(entry) ==
    Max({0} \cup {i \in DOMAIN entry.hits : entry.hits[i] <= ReadBytes(entry)})

(* One source: its beginning is read, and every matching line reported.    *)
ScanSource(found, entry, at, limit) ==
    LET truncated == entry.size > MaxSourceBytes
        hits == SubSeq(entry.hits, 1, LastRead(entry))
        read == [found EXCEPT !.scanned = @ + ReadBytes(entry),
                              !.incomplete = @ \/ truncated]
    IN CASE found.stop -> found
         [] ~found.stop /\ found.scanned + entry.size > Budget ->
               [found EXCEPT !.incomplete = TRUE, !.stop = TRUE]
         [] OTHER -> IF hits = <<>> THEN read
                     ELSE Report(read, limit, [i \in DOMAIN hits |-> <<at, hits[i]>>])

(* The entries of the selected archives, one after the other. *)
SearchContent(q) ==
    LET scan[i \in 0..Len(q.entries)] ==
          IF i = 0 THEN NoResults
          ELSE IF q.op = "content"
          THEN ScanContent(scan[i - 1], q.entries[i], i, Limit(q.limit))
          ELSE ScanSource(scan[i - 1], q.entries[i], i, Limit(q.limit))
    IN scan[Len(q.entries)]

AnswerSearch ==
    /\ Asked("content") \/ Asked("source")
    /\ answer' = SearchContent(question)
    /\ UNCHANGED <<question, search>>

-----------------------------------------------------------------------------
(* Sources.  The archives of one artifact in one directory differ in their *)
(* classifiers, which are sequences of words: test-sources is              *)
(* <<"test", "sources">> and no classifier is <<>>.                        *)

IsSources(c) == c # <<>> /\ Last(c) = "sources"

(* documented_classifier: whose sources an archive has. *)
DocumentedClassifier(c) ==
    IF c = <<"test", "sources">> THEN <<"tests">> ELSE Front(c)

(* source_jar_candidates, in preference order. *)
SourceJarCandidates(c) ==
    CASE IsSources(c) -> <<>>
      [] c = <<>> -> << <<"sources">> >>
      [] c = <<"tests">> -> << <<"test", "sources">> >>
      [] OTHER -> << Append(c, "sources"), <<"sources">> >>

(* The archives of the classpath are there, and sources among them have a  *)
(* name that source_jar_candidates knows (those of tests are test-sources). *)
ASSUME SourcesAssumption ==
    \A q \in Questions : q.op = "sources" =>
        /\ q.classpath \subseteq q.there
        /\ \A c \in q.classpath : c \in Seq(ToSet(c))
        /\ \A c, d \in q.classpath : IsSources(d) /\ DocumentedClassifier(d) = c =>
              d \in ToSet(SourceJarCandidates(c))

(* Mutant: only the sources of the classifier itself are stamped. *)
StampedFirst(c) == IF SourceJarCandidates(c) = <<>> THEN {} ELSE {Head(SourceJarCandidates(c))}

(* source_jar_stamp_paths *)
SourceJarStampPaths(c) == ToSet(SourceJarCandidates(c))

(* The first of the candidates that is there: a set of at most one archive. *)
FirstThere(c, there) ==
    LET candidates == SourceJarCandidates(c) IN
    {candidates[i] : i \in {j \in DOMAIN candidates :
        /\ candidates[j] \in there
        /\ \A k \in 1 .. (j - 1) : candidates[k] \notin there}}

(* build_scoped: a selected archive comes with the first of its candidates *)
(* that is there; what is no archive is not indexed.                       *)
IndexedJars(classpath, there, broken) ==
    (classpath \cup UNION {FirstThere(c, there) : c \in classpath}) \ broken

(* source_jar_of: a set of at most one archive. *)
SourceJarOf(c, indexed) ==
    LET documenting(d) == {s \in indexed : IsSources(s) /\ DocumentedClassifier(s) = d}
    IN IF c \in {<<>>, <<"tests">>} \/ documenting(c) # {}
       THEN documenting(c) ELSE documenting(<<>>)

Pairing(classpath, there, broken) ==
    [c \in classpath |-> SourceJarOf(c, IndexedJars(classpath, there, broken))]

AnswerSources ==
    /\ Asked("sources")
    /\ answer' = [pairing |-> Pairing(question.classpath, question.there, question.broken)]
    /\ UNCHANGED <<question, search>>

(* SourceEntryNames: the entry that the classfile names comes first, then  *)
(* the class's own name with .java and .kt; each also below a directory if *)
(* the class has a package.                                                *)
Rank(e) == 2 * e.name + IF e.prefixed THEN 1 ELSE 0
Ranked(e, packaged) == e.name # 0 /\ (e.prefixed => packaged)

(* Mutant: what cannot be read counts as missing. *)
ReadSourceLeniently(entries, packaged) ==
    LET ranked == {e \in entries : e.readable /\ Ranked(e, packaged)}
        best == {e \in ranked : \A o \in ranked : Rank(e) <= Rank(o)}
    IN IF ranked = {} THEN [outcome |-> "missing"]
       ELSE [outcome |-> "found",
             entry |-> CHOOSE e \in best : \A o \in best : e.order <= o.order]

(* read_source: an entry that cannot be read may have been the one that    *)
(* was asked for.                                                          *)
ReadSource(entries, packaged) ==
    LET ranked == {e \in entries : e.readable /\ Ranked(e, packaged)}
        best == {e \in ranked : \A o \in ranked : Rank(e) <= Rank(o)}
    IN CASE ranked # {} -> [outcome |-> "found",
                entry |-> CHOOSE e \in best : \A o \in best : e.order <= o.order]
         [] ranked = {} /\ \E e \in entries : ~e.readable -> [outcome |-> "error"]
         [] OTHER -> [outcome |-> "missing"]

(* get_declaration_source.  jars are the archives with the class.  One has *)
(* the descriptors of the member's declarations in its classfile, the ones *)
(* among them that the outline of the source locates, and the entries of   *)
(* the sources archive it is paired with.                                  *)
Declared(j) == IF question.member THEN j.declared ELSE {"class"}
Matching(j) ==
    {d \in Declared(j) : question.descriptor \in {NoAnswer, d}}
Ambiguous(j) ==
    question.member /\ question.descriptor = NoAnswer /\ Cardinality(Matching(j)) > 1

Looked == {j \in question.jars : j.selected /\ j.paired}
ReadError(j) ==
    \/ question.member /\ ~j.classReadable
    \/ ~Ambiguous(j) /\ ReadSource(j.entries, j.packaged).outcome = "error"

Unresolved(j) ==
    IF ReadSource(j.entries, j.packaged).outcome = "missing"
    THEN {<<j.jar, d, "source_entry_missing">> : d \in Matching(j)}
    ELSE {<<j.jar, d, "not_located">> : d \in Matching(j) \ j.located}

AnswerDeclaration ==
    /\ Asked("declaration")
    /\ answer' =
         IF \E j \in Looked : ReadError(j) THEN [outcome |-> "error"]
         ELSE LET clear == {j \in Looked : ~Ambiguous(j)} IN
              [outcome |-> "answered",
               ambiguous |-> UNION {Matching(j) : j \in Looked \ clear},
               unresolved |-> UNION {Unresolved(j) : j \in clear},
               results |-> UNION {{<<j.jar, d>> : d \in Matching(j)} \
                                    {<<u[1], u[2]>> : u \in Unresolved(j)} : j \in clear}]
    /\ UNCHANGED <<question, search>>

-----------------------------------------------------------------------------
(* compare_artifact_api.  A classfile has the class it declares, the       *)
(* version directory it is in (0 for none; canonical tells whether its name *)
(* is a decimal number as the JVM writes it, in 32 bits), and its          *)
(* declaration.                                                            *)

MinMultiRelease == 9

Competes(jar, e) ==
    e.version # 0 =>
        jar.multiRelease /\ e.canonical /\ e.version >= MinMultiRelease

(* An archive has one entry of a name. *)
ASSUME EntriesAssumption ==
    \A q \in Questions : q.op = "api" => \A jar \in {q.previous, q.current} :
        /\ jar.entries \in Seq(ToSet(jar.entries))
        /\ \A i, k \in DOMAIN jar.entries :
              LET e == jar.entries[i]
                  o == jar.entries[k]
              IN /\ e.version \in Nat
                 /\ Competes(jar, e) /\ Competes(jar, o)
                    /\ e.class = o.class /\ e.version = o.version => i = k

(* Mutant: the entry that comes last wins. *)
LastEntry(selected, e) == TRUE

Supersedes(selected, e) == e.version > selected.version

(* What the entries, in their order, select for a class. *)
SelectedEntry(jar, c) ==
    LET select[i \in 0..Len(jar.entries)] ==
          IF i = 0 THEN <<>>
          ELSE LET e == jar.entries[i]
                   selected == select[i - 1] IN
               IF e.class = c /\ Competes(jar, e)
                  /\ (selected = <<>> \/ Supersedes(selected[1], e))
               THEN <<e>> ELSE selected
    IN select[Len(jar.entries)]

(* effective_class_entries: one per class. *)
EffectiveClassEntries(jar) ==
    {SelectedEntry(jar, jar.entries[i].class) : i \in DOMAIN jar.entries}

(* public_class_api, api_members: the public classes with their public and *)
(* protected members.                                                      *)
PublicClassApi(jar) ==
    LET public == {s[1] : s \in {t \in EffectiveClassEntries(jar) :
                                    t # <<>> /\ t[1].visibility = "public"}}
    IN [c \in {e.class : e \in public} |->
          LET e == CHOOSE x \in public : x.class = c IN
          [super |-> e.super, interfaces |-> e.interfaces,
           members |-> {m.name : m \in {n \in e.members :
                                    n.visibility \in {"public", "protected"}}}]]

ClassApiChange(old, new) ==
    [added |-> new.members \ old.members, removed |-> old.members \ new.members,
     previousSuper |-> old.super, currentSuper |-> new.super,
     addedInterfaces |-> new.interfaces \ old.interfaces,
     removedInterfaces |-> old.interfaces \ new.interfaces]

ApiChanged(old, new) ==
    old.members # new.members \/ old.interfaces # new.interfaces \/ old.super # new.super

AnswerApi ==
    /\ Asked("api")
    /\ LET old == PublicClassApi(question.previous)
           new == PublicClassApi(question.current)
           common == {c \in DOMAIN old \cap DOMAIN new : ApiChanged(old[c], new[c])}
       IN answer' = [addedClasses |-> DOMAIN new \ DOMAIN old,
                     removedClasses |-> DOMAIN old \ DOMAIN new,
                     changed |-> [c \in common |-> ClassApiChange(old[c], new[c])]]
    /\ UNCHANGED <<question, search>>

-----------------------------------------------------------------------------
QueryNext ==
    \/ \E e \in search.todo : ExamineEdge(e)
    \/ NextParent \/ EndOfHierarchy
    \/ AnswerSearch \/ AnswerSources \/ AnswerDeclaration \/ AnswerApi

QuerySpec == QueryInit /\ [][QueryNext]_queryVars

-----------------------------------------------------------------------------
(* Properties *)

Answered(op) == question # NoAnswer /\ question.op = op /\ answer # NoAnswer

(* Classes by their lower-case names, as the search identifies them.       *)
Reaches(S) ==
    /\ Lower[question.root] \in S
    /\ \A e \in question.edges : Lower[e.parent] \in S => Lower[e.child] \in S
Descendants ==
    {c \in {Lower[e.child] : e \in question.edges} :
        \A S \in SUBSET ({Lower[e.child] : e \in question.edges} \cup {Lower[question.root]}) :
            Reaches(S) => c \in S}
ReachedEdges ==
    {e \in question.edges :
        \/ Lower[e.parent] = Lower[question.root]
        \/ question.transitive /\ Lower[e.parent] \in Descendants}
IsCyclic ==
    \E C \in (SUBSET {Lower[e.child] : e \in ReachedEdges}) \ {{}} :
        \A c \in C : \E e \in ReachedEdges : Lower[e.parent] = c /\ Lower[e.child] \in C

IsChain(path) ==
    /\ path[1] = question.root
    /\ \A i \in 2..Len(path) : \E e \in question.edges :
          path[i] = e.child /\ Lower[e.parent] = Lower[path[i - 1]]

(* search_type_hierarchy answers with real chains, each edge at most once. *)
(* Unless the limit cut it short, it reports a class once for every parent *)
(* it is reached through; where the classes form cycles (a classpath with  *)
(* different versions of a library) it still reports every class.          *)
HierarchyComplete ==
    Answered("hierarchy") =>
        LET reported == {EdgeKey(answer.matches[i].edge) : i \in DOMAIN answer.matches}
            wanted == {e \in ReachedEdges : e.jar \in question.selected}
        IN /\ \A i \in DOMAIN answer.matches : IsChain(answer.matches[i].path)
           /\ Cardinality(reported) = Len(answer.matches)
           /\ reported \subseteq {EdgeKey(e) : e \in wanted}
           /\ Len(answer.matches) < Limit(question.limit) =>
                /\ ~IsCyclic => reported = {EdgeKey(e) : e \in wanted}
                /\ question.selected = {e.jar : e \in question.edges} =>
                     \A e \in ReachedEdges :
                        \/ \E key \in reported : key[1] = Lower[e.child]
                        \/ Lower[e.child] = Lower[question.root]

(* What a search over contents has to search, and what there is to find.   *)
Searched(e) == question.op = "source" \/ e.utf8
HitsOf(e) == IF question.op = "source" THEN ToSet(e.hits)
             ELSE IF e.hits = <<>> THEN {} ELSE {Head(e.hits)}
AllHits ==
    UNION {{<<i, h>> : h \in HitsOf(question.entries[i])} :
             i \in {j \in DOMAIN question.entries : Searched(question.entries[j])}}

(* search_jar_content and search_source: every result is real and no more  *)
(* is read than the budget allows.  Without incomplete nothing was missed; *)
(* with it, the limit was reached or an entry was not read to its end.     *)
SearchesHonest ==
    Answered("content") \/ Answered("source") =>
        LET total == SumFunction([i \in DOMAIN question.entries |-> question.entries[i].size]) IN
        /\ ToSet(answer.results) \subseteq AllHits
        /\ Len(answer.results) <= Limit(question.limit)
        /\ answer.scanned <= Budget
        /\ ~answer.incomplete => ToSet(answer.results) = AllHits
        /\ answer.incomplete =>
             \/ Len(answer.results) = Limit(question.limit)
             \/ answer.scanned < total

(* The sources that an archive is paired with are the ones its maker       *)
(* published for it, or else those of the whole artifact; and they change  *)
(* only together with a stamp of the index.  The classifier test is left   *)
(* out: its sources have the name of those of tests.                       *)
SourcesPaired ==
    Answered("sources") =>
        LET pairs == answer.pairing
            published(c) == FirstThere(c, question.there) \ question.broken
        IN /\ \A c \in question.classpath \ {<<"test">>} :
                IF published(c) = {} THEN pairs[c] \subseteq {<<"sources">>}
                ELSE pairs[c] = published(c)
           /\ \A c \in question.classpath, s \in question.there \cup {<<"sources">>} :
                /\ IsSources(s)
                /\ \A d \in question.classpath : s \notin SourceJarStampPaths(d)
                => pairs[c] = Pairing(question.classpath, question.there \ {s},
                                      question.broken)[c]

(* get_declaration_source accounts for every declaration that was asked    *)
(* for in exactly one of its lists, and calls a source missing only if it  *)
(* could read everything that might have been it.                          *)
DeclarationsAccounted ==
    Answered("declaration") /\ answer.outcome = "answered" =>
        \A j \in Looked : \A d \in Matching(j) :
            LET found == <<j.jar, d>> \in answer.results
                missing == <<j.jar, d, "source_entry_missing">> \in answer.unresolved
                unlocated == <<j.jar, d, "not_located">> \in answer.unresolved
            IN /\ Ambiguous(j) => d \in answer.ambiguous /\ ~found /\ ~missing /\ ~unlocated
               /\ ~Ambiguous(j) => Cardinality({x \in {1, 2, 3} :
                                      <<found, missing, unlocated>>[x]}) = 1
               /\ found => d \in j.located
               /\ missing => \A e \in j.entries : e.readable /\ ~Ranked(e, j.packaged)

(* external: what a JVM loads for a class when it targets no particular    *)
(* version, and what a program sees of the class if it is public.          *)
Loaded(jar, c) ==
    LET found == {e \in ToSet(jar.entries) : e.class = c /\
                    (e.version = 0 \/ (jar.multiRelease /\ e.canonical /\ e.version >= 9))}
    IN {e \in found : \A o \in found : o.version <= e.version}
SeenOf(jar, c) ==
    UNION {{<<"super", e.super>>}
             \cup {<<"interface", i>> : i \in e.interfaces}
             \cup {<<"member", m.name>> :
                     m \in {n \in e.members : n.visibility \in {"public", "protected"}}} :
           e \in {x \in Loaded(jar, c) : x.visibility = "public"}}

(* What a change of a class's API says, applied to what was seen before. *)
AppliedTo(seen, change) ==
    (seen \ ({<<"super", change.previousSuper>>}
               \cup {<<"interface", i>> : i \in change.removedInterfaces}
               \cup {<<"member", m>> : m \in change.removed}))
        \cup {<<"super", change.currentSuper>>}
        \cup {<<"interface", i>> : i \in change.addedInterfaces}
        \cup {<<"member", m>> : m \in change.added}

(* compare_artifact_api: the difference leads from what programs saw of    *)
(* the previous version to what they see of the current one, in the class  *)
(* variants that the JVM would load, and a class that it does not mention  *)
(* is unchanged.                                                           *)
ApiDiffExact ==
    Answered("api") =>
        \A c \in {e.class : e \in ToSet(question.previous.entries \o question.current.entries)} :
            LET before == SeenOf(question.previous, c)
                after == SeenOf(question.current, c)
            IN /\ c \in answer.addedClasses <=> before = {} /\ after # {}
               /\ c \in answer.removedClasses <=> before # {} /\ after = {}
               /\ before # {} /\ after # {} =>
                    IF c \in DOMAIN answer.changed
                    THEN before # after /\ after = AppliedTo(before, answer.changed[c])
                    ELSE before = after
=============================================================================
