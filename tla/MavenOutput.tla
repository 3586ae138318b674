----------------------------- MODULE MavenOutput -----------------------------
(***************************************************************************)
(* What the server reads from a Maven project and from what Maven prints   *)
(* and leaves behind (src/project.rs, and src/index.rs for the identity of *)
(* a module's output): the modules, the dependency tree and its            *)
(* explanation, the classpath, the coverage and the test reports.          *)
(*                                                                         *)
(* Each behaviour takes one text or directory and ends with what is read   *)
(* from it.  The loops that carry a state from one round to the next, over *)
(* the lines of a tree, a pattern, and the modules, are modelled step by   *)
(* step.  What Maven prints for a tree is defined with the properties; the *)
(* readers see lines only.                                                 *)
(***************************************************************************)
EXTENDS Integers, FiniteSets, SequencesExt

CONSTANTS
    Texts,          \* what there is to read: records with a field op
    MaxExplained,   \* MAX_RESULTS
    MaxDepth,       \* MAX_XML_DEPTH
    MaxParents,     \* MAX_REACTOR_PARENT_DEPTH
    MaxNesting,     \* MAX_INTERPOLATION_DEPTH
    NoText

(* A project is finite, a name in a list of modules leads somewhere, and   *)
(* what lies outside the project lists no modules.                         *)
ASSUME DiscoveryAssumption ==
    /\ MaxDepth \in Nat
    /\ \A t \in Texts : t.op = "modules" =>
         /\ IsFiniteSet({t.entered[x] : x \in DOMAIN t.entered})
         /\ "outside" \notin DOMAIN t.modules /\ "up" \notin DOMAIN t.modules
         /\ \A d \in DOMAIN t.modules :
              /\ t.modules[d] \in Seq(STRING)
              /\ \A m \in ToSet(t.modules[d]) : <<d, m>> \in DOMAIN t.entered

(* A coordinate, which is what a pattern is compared with, has no star. *)
ASSUME PatternAssumption ==
    \A t \in Texts : t.op = "pattern" =>
        t.pattern \in Seq(ToSet(t.pattern)) /\ t.value \in Seq(ToSet(t.value) \ {"*"})

(* external: dependency:build-classpath prints a marker before each        *)
(* classpath and nothing between the two.                                  *)
ASSUME ClasspathAssumption ==
    \A t \in Texts : t.op = "classpath" =>
        /\ t.printed \in Seq(ToSet(t.printed))
        /\ \A i \in DOMAIN t.printed :
             /\ t.printed[i].marker \in BOOLEAN
             /\ t.printed[i].classpath <=> i > 1 /\ t.printed[i - 1].marker
             /\ t.printed[i].marker => ~t.printed[i].classpath /\ i < Len(t.printed)

(* Each module has a directory of its own, and a class is named by its     *)
(* module and its name, here by a number.                                  *)
ASSUME CoverageAssumption ==
    \A t \in Texts : t.op = "coverage" =>
        LET classes == UNION {r.classes : r \in t.reports} IN
        /\ t.limit \in Nat
        /\ IsFiniteSet(classes)
        /\ \A c \in classes : c.missed \in Nat /\ c.covered \in Nat /\ c.name \in Nat
        /\ \A c, d \in classes : c.name = d.name => c = d
        /\ \A r \in t.reports : r.path \in Seq(ToSet(r.path))
        /\ \A m \in DOMAIN t.expected : t.expected[m] \in Seq(ToSet(t.expected[m]))
        /\ \A m, n \in DOMAIN t.expected : t.expected[m] = t.expected[n] => m = n
        /\ "." \in DOMAIN t.expected => t.expected["."] = <<>>

(* external: what Surefire writes.  A report has the time at which it was  *)
(* written, counts the tests of its suite and their failures; the          *)
(* reactor's summary names modules.  earlier are the reports that lie      *)
(* there when the run begins, written those that the run writes, removed   *)
(* the files that it deletes.  The walk over the directories may fail      *)
(* before the run (snapshot) and after it (discovery), and the metadata of *)
(* some files cannot be read before or after it (unreadable).  No relation *)
(* between the times is assumed.                                           *)
ASSUME TestAssumption ==
    \A t \in Texts : t.op = "tests" =>
        /\ t.discovery \in {"works", "fails"} /\ t.snapshot \in {"works", "fails"}
        /\ IsFiniteSet(t.earlier) /\ IsFiniteSet(t.written)
        /\ \A r \in t.earlier \cup t.written :
             /\ r.modified \in Nat
             /\ r.tests \in Nat /\ r.failures \in Nat /\ r.errors \in Nat /\ r.skipped \in Nat
             /\ r.failures + r.errors + r.skipped <= r.tests
             /\ (\E c \in r.cases : c.kind # "passed") => r.failures + r.errors > 0
        /\ t.lines \in Seq(ToSet(t.lines))
        /\ \A i \in DOMAIN t.lines, j \in DOMAIN t.lines :
             /\ t.lines[j].kind = "summary" /\ j < i /\ t.lines[i].kind = "module"
             /\ \A k \in j..i : t.lines[k].kind # "build"
             => t.lines[i].module \in t.modules

VARIABLES
    text,
    loop,      \* local variables of the loops
    reading    \* what was read; NoText until then

outputVars == <<text, loop, reading>>

Given(op) == text # NoText /\ text.op = op /\ reading = NoText

(* One round of a loop. *)
Continue(next) == loop' = next /\ UNCHANGED <<text, reading>>

OutputInit ==
    /\ text \in Texts
    /\ loop = CASE text.op = "tree" ->
                     [at |-> 1, module |-> ".", stack |-> <<>>, malformed |-> FALSE, paths |-> <<>>]
                [] text.op = "pattern" -> [p |-> 1, v |-> 1, star |-> 0, starV |-> 1]
                [] text.op = "modules" ->
                     [stack |-> <<[directory |-> text.root, selector |-> <<>>, depth |-> 0]>>,
                      found |-> <<>>, visited |-> {}]
                [] OTHER -> NoText
    /\ reading = NoText

-----------------------------------------------------------------------------
(* The dependency tree.  A line is a plugin header, the coordinate of a    *)
(* module's own artifact, a dependency, a dependency that cannot be        *)
(* parsed, or something else.  A dependency is indented by chunks that are *)
(* "bar" or "blank".                                                       *)

(* Mutant: the stack is cut as if it had no module at its bottom. *)
ParentsAbove(depth, size) == IF depth - 1 < size THEN depth - 1 ELSE size

(* The number of entries of the path stack above a dependency. *)
ParentCount(depth, size) == IF depth < size THEN depth ELSE size

(* parse_dependency_resolution: one line of the loop. *)
ResolutionLine ==
    /\ Given("tree") /\ loop.at <= Len(text.lines)
    /\ LET line == text.lines[loop.at]
           next == [loop EXCEPT !.at = @ + 1]
       IN CASE line.kind = "header" -> Continue([next EXCEPT !.module = line.module, !.stack = <<>>])
            [] line.kind = "root" ->
                 Continue([next EXCEPT !.module = line.module, !.stack = <<line.module>>])
            [] line.kind = "malformed" -> Continue([next EXCEPT !.malformed = TRUE])
            [] line.kind = "other" -> Continue(next)
            [] OTHER ->     \* a dependency
                 LET depth == Len(line.indent) + 1
                     nodes == Append(SubSeq(loop.stack, 1, ParentCount(depth, Len(loop.stack))),
                                     <<line.artifact, line.version>>)
                     path == [module |-> loop.module, nodes |-> nodes, depth |-> depth,
                              artifact |-> line.artifact, version |-> line.version,
                              requested |-> line.requested, managed |-> line.managed,
                              status |-> line.status]
                 IN Continue([next EXCEPT !.stack = nodes, !.paths = Append(@, path)])

(* The explanation of one artifact, with the reasons of its selection. *)
Explanation(artifact, allPaths) ==
    LET paths == {p \in ToSet(allPaths) : p.artifact = artifact}
        chosen == {i \in DOMAIN allPaths : allPaths[i] \in paths /\ allPaths[i].status = "selected"}
        requested == {p.requested : p \in paths}
        direct == \E i \in chosen : allPaths[i].depth = 1
        conflict == \E p \in paths : p.status = "conflict"
    IN [artifact |-> artifact, paths |-> paths, requested |-> requested,
        selected |-> IF chosen = {} THEN NoText ELSE allPaths[Max(chosen)].version,
        reasons |->
            (IF direct THEN {"direct_declaration"} ELSE {})
            \cup (IF \E p \in paths : p.managed
                  THEN {"dependency_management"} ELSE {})
            \cup (IF conflict /\ ~direct THEN {"nearest_definition"} ELSE {})
            \cup (IF ~conflict /\ Cardinality(requested) = 1 THEN {"only_candidate"} ELSE {})]

(* explain_dependency_resolution, once Maven has ended well.  Artifacts    *)
(* are explained in the order of their names, here numbers.                *)
ExplainResolution ==
    /\ Given("tree") /\ loop.at > Len(text.lines)
    /\ LET artifacts == {p.artifact : p \in ToSet(loop.paths)} \cap text.filter
           shown == {a \in artifacts : Cardinality({b \in artifacts : b <= a}) <= MaxExplained}
           incomplete == text.truncated \/ shown # artifacts
       IN reading' = [
            explanations |-> {Explanation(a, loop.paths) : a \in shown},
            incomplete |-> incomplete \/ loop.malformed,
            status |-> CASE loop.malformed -> "invalid"
                         [] ~loop.malformed /\ incomplete -> "incomplete"
                         [] ~loop.malformed /\ ~incomplete /\ shown = {} -> "empty"
                         [] OTHER -> "available"]
    /\ UNCHANGED <<text, loop>>

(* parse_dependency_tree trims a line before it looks at its indentation. *)
Trimmed(indent) ==
    LET bars == {i \in DOMAIN indent : indent[i] = "bar"} IN
    IF bars = {} THEN <<>>
    ELSE SubSeq(indent, CHOOSE i \in bars : \A j \in bars : i <= j, Len(indent))

DependencyTree ==
    /\ Given("depths")
    /\ LET nodes == SelectSeq(text.lines, LAMBDA l : l.kind = "dependency")
       IN reading' = [nodes |-> [i \in DOMAIN nodes |->
                                   [artifact |-> nodes[i].artifact,
                                    depth |-> Len(Trimmed(nodes[i].indent)) + 1]],
                      incomplete |-> text.truncated]
    /\ UNCHANGED <<text, loop>>

-----------------------------------------------------------------------------
(* wildcard_matches: p and v are the positions in pattern and value, star  *)
(* the last star (0 for none) and starV where the value after it began.    *)

Matched(outcome) == reading' = [matches |-> outcome] /\ UNCHANGED <<text, loop>>

AtStar == loop.p <= Len(text.pattern) /\ text.pattern[loop.p] = "*"
SameCharacter ==
    loop.p <= Len(text.pattern) /\ text.pattern[loop.p] = text.value[loop.v]

(* Mutant: after a mismatch the value goes on where it was. *)
RetryWithoutRewind == [loop EXCEPT !.p = loop.star + 1, !.starV = @ + 1, !.v = @ + 1]

(* The last star takes one character more. *)
Retry == [loop EXCEPT !.p = loop.star + 1, !.starV = @ + 1, !.v = loop.starV + 1]

WildcardStep ==
    /\ Given("pattern")
    /\ loop.v <= Len(text.value)
    /\ CASE SameCharacter -> Continue([loop EXCEPT !.p = @ + 1, !.v = @ + 1])
         [] ~SameCharacter /\ AtStar ->
              Continue([loop EXCEPT !.star = loop.p, !.p = @ + 1, !.starV = loop.v])
         [] ~SameCharacter /\ ~AtStar /\ loop.star # 0 -> Continue(Retry)
         [] OTHER -> Matched(FALSE)

WildcardEnd ==
    /\ Given("pattern")
    /\ loop.v > Len(text.value)
    /\ Matched(\A i \in loop.p..Len(text.pattern) : text.pattern[i] = "*")

-----------------------------------------------------------------------------
(* The classpath.  A line is the marker before a classpath, or something   *)
(* with the items that its text splits into: archives, each with its path  *)
(* (absolute or not) and its coordinate (NoText if the path shows none).   *)

(* classpath_lines: one line; expected tells that it follows a marker and  *)
(* is taken for a classpath, whatever it is.                               *)
ClasspathLine(state, line) ==
    CASE state.expected -> [state EXCEPT !.expected = FALSE, !.items = @ \cup line.items]
      [] ~state.expected /\ line.marker -> [state EXCEPT !.expected = TRUE, !.found = TRUE]
      [] OTHER -> state

(* parse_classpath, parse_classpath_paths *)
ParseClasspath(lines) ==
    LET parse[i \in 0..Len(lines)] ==
          IF i = 0 THEN [expected |-> FALSE, found |-> FALSE, items |-> {}]
          ELSE ClasspathLine(parse[i - 1], lines[i])
        read == parse[Len(lines)]
        cut == read.expected \/ ~read.found
        archives == {i \in read.items : i.coordinate # NoText}
        absolute == {i \in read.items : i.absolute}
    IN [artifacts |-> {i.coordinate : i \in archives},
        artifactsIncomplete |-> cut \/ archives # read.items,
        paths |-> {i.path : i \in absolute},
        pathsIncomplete |-> cut \/ absolute # read.items]

(* Mutant: what was cut off is not taken into account. *)
BuildClasspathOfTheRest ==
    /\ Given("classpath")
    /\ LET parsed == ParseClasspath(text.kept)
       IN reading' = [paths |-> parsed.paths, artifacts |-> parsed.artifacts,
                      pathsIncomplete |-> parsed.pathsIncomplete,
                      incomplete |-> parsed.artifactsIncomplete \/ parsed.pathsIncomplete]
    /\ UNCHANGED <<text, loop>>

(* build_classpath_paths, once Maven has ended; printed is all that it     *)
(* wrote and kept what read_bounded kept of it.                            *)
BuildClasspath ==
    /\ Given("classpath")
    /\ LET parsed == ParseClasspath(text.kept)
           truncated == text.kept # text.printed
       IN reading' = [paths |-> parsed.paths, artifacts |-> parsed.artifacts,
                      pathsIncomplete |-> truncated \/ parsed.pathsIncomplete,
                      incomplete |-> truncated \/ parsed.artifactsIncomplete
                                               \/ parsed.pathsIncomplete]
    /\ UNCHANGED <<text, loop>>

-----------------------------------------------------------------------------
(* Coverage.  expected is the root directory of each module that is not a  *)
(* POM, a path from the project's root; a report has its path, the time it *)
(* was written and its classes; compiled is the time at which the newest   *)
(* class of a directory was compiled.                                      *)

Unscored == 10001    \* u64::MAX: a class without lines is last

(* coverage_basis_points *)
Score(class) ==
    IF class.missed + class.covered = 0 THEN Unscored
    ELSE (class.covered * 10000) \div (class.missed + class.covered)

(* Mutant: a report belongs to the outermost module around it. *)
OutermostModule(report) ==
    LET around == {m \in DOMAIN text.expected : IsPrefix(text.expected[m], report.path)} IN
    IF around = {} THEN "."
    ELSE CHOOSE m \in around : \A o \in around : Len(text.expected[m]) <= Len(text.expected[o])

(* read_jacoco_reports: the module of a report. *)
ModuleOf(report) ==
    LET around == {m \in DOMAIN text.expected : IsPrefix(text.expected[m], report.path)} IN
    IF around = {} THEN "."
    ELSE CHOOSE m \in around : \A o \in around : Len(text.expected[m]) >= Len(text.expected[o])

(* report_is_stale *)
Stale(report) ==
    LET root == IF ModuleOf(report) \in DOMAIN text.expected
                THEN text.expected[ModuleOf(report)] ELSE <<>>
    IN root \in DOMAIN text.compiled /\ text.compiled[root] > report.modified

(* coverage_gaps: the order of the classes, here named by numbers. *)
Before(a, b) ==
    \/ Score(a) < Score(b)
    \/ Score(a) = Score(b) /\ a.missed > b.missed
    \/ Score(a) = Score(b) /\ a.missed = b.missed /\ a.name < b.name

CoverageGaps ==
    /\ Given("coverage")
    /\ LET classes == UNION {r.classes : r \in text.reports}
           shown == {c \in classes :
                       Cardinality({d \in classes : Before(d, c)}) < text.limit}
           found == {ModuleOf(r) : r \in text.reports}
       IN reading' =
            IF \E r \in text.reports : ~r.parses THEN [status |-> "invalid"]
            ELSE [status |-> CASE text.reports = {} -> "missing"
                               [] \E r \in text.reports : Stale(r) -> "stale"
                               [] OTHER -> "available",
                  gaps |-> shown,
                  missing |-> DOMAIN text.expected \ found,
                  incomplete |-> Cardinality(classes) > text.limit]
    /\ UNCHANGED <<text, loop>>

-----------------------------------------------------------------------------
(* discover_module.  A directory lists modules; entered says where a name  *)
(* leads from a directory: to a directory (by a symbolic link perhaps),    *)
(* "outside" the project or, for a name with .., "up".  The recursion is   *)
(* the stack of calls that are still to be made.                           *)

DiscoverFails == reading' = [outcome |-> "error"] /\ UNCHANGED <<text, loop>>

Call == Head(loop.stack)

Refused ==
    \/ Call.depth > MaxDepth
    \/ Call.directory = "outside"
    \/ /\ Call.directory \notin loop.visited
       /\ \/ Call.directory \notin DOMAIN text.modules
          \/ \E m \in ToSet(text.modules[Call.directory]) : text.entered[<<Call.directory, m>>] = "up"

(* Mutant: a directory is remembered by the selector that led to it. *)
VisitedSelector == \E i \in DOMAIN loop.found : loop.found[i].selector = Call.selector

VisitedDirectory == Call.directory \in loop.visited

DiscoverModule ==
    /\ Given("modules") /\ loop.stack # <<>>
    /\ IF Refused THEN DiscoverFails
       ELSE IF VisitedDirectory
       THEN Continue([loop EXCEPT !.stack = Tail(@)])
       ELSE LET names == text.modules[Call.directory]
                calls == [i \in DOMAIN names |->
                            [directory |-> text.entered[<<Call.directory, names[i]>>],
                             selector |-> Append(Call.selector, names[i]),
                             depth |-> Call.depth + 1]]
            IN Continue([stack |-> calls \o Tail(loop.stack),
                         visited |-> loop.visited \cup {Call.directory},
                         found |-> Append(loop.found, [selector |-> Call.selector,
                                                       directory |-> Call.directory])])

DiscoverProject ==
    /\ Given("modules") /\ loop.stack = <<>>
    /\ reading' = [outcome |-> "discovered", found |-> loop.found]
    /\ UNCHANGED <<text, loop>>

-----------------------------------------------------------------------------
(* The identity of a classpath entry.  A directory is the sequence of the  *)
(* names that lead to it from the project's root.  A POM has its own       *)
(* coordinates and its parent's, NoText where it has none, and leads to    *)
(* the directory of its parent's POM, or to NoText if that is not a POM of *)
(* the project.  A name is a sequence of words; a value is a sequence of   *)
(* names and of references to names.  A reference without an end is one    *)
(* that nobody defines.                                                    *)

Unindexed(reason) == reading' = [unindexed |-> reason] /\ UNCHANGED <<text, loop>>

(* ReactorLayout::output_module: the innermost module with the entry below *)
(* its target directory.                                                   *)
OutputModules == {m \in DOMAIN text.poms : IsPrefix(Append(m, "target"), text.path)}
OutputModule == CHOOSE m \in OutputModules : \A o \in OutputModules : Len(o) <= Len(m)

(* scoped_identity: an entry below the repository is identified by its     *)
(* place there, any other by the POM of its module.                        *)
ScopedIdentity ==
    /\ Given("identity") /\ loop = NoText
    /\ CASE text.repository = "artifact" ->
              reading' = [identity |-> "repository"] /\ UNCHANGED <<text, loop>>
         [] text.repository = "other" -> Unindexed("NotMavenRepositoryLayout")
         [] text.repository = "outside" /\ OutputModules = {} ->
              Unindexed("OutsideRepositoryAndReactor")
         [] OTHER -> Continue([current |-> OutputModule,
                               parent |-> text.poms[OutputModule].parent, chain |-> <<>>])

(* inherited_properties: one round of the walk to the parents, which may   *)
(* lead in circles.                                                        *)
HasParentPom ==
    /\ loop.parent # NoText /\ Len(loop.chain) < MaxParents
    /\ loop.parent.leads # NoText /\ loop.parent.leads # loop.current
ParentPom ==
    /\ Given("identity") /\ loop # NoText /\ HasParentPom
    /\ LET pom == text.poms[loop.parent.leads]
       IN Continue([current |-> loop.parent.leads, parent |-> pom.parent,
                    chain |-> Append(loop.chain, pom.properties)])

(* Mutant: the outermost parent wins. *)
OutermostProperties(own, chain) == FoldLeft(LAMBDA all, p : p @@ all, own, chain)

InheritedProperties(own, chain) == FoldLeft(LAMBDA all, p : all @@ p, own, chain)

Or(value, other) == IF value = NoText THEN other ELSE value

(* The names that a POM gives its coordinates and its parent's. *)
CoordinateNames(prefix, coordinates) ==
    LET names == {n \in {"groupId", "artifactId", "version"} : coordinates[n] # NoText}
    IN [x \in {<<prefix, n>> : n \in names} |-> coordinates[x[2]]]

(* interpolate: the set of the value that results, or the empty set if a   *)
(* reference leads to nothing or too deep.                                 *)
Interpolate(value, lookup) ==
    LET resolve[depth \in 0..MaxNesting, v \in {value} \cup Range(lookup)] ==
          LET replace(part) ==
                IF ~part.reference THEN {part.name}
                ELSE IF depth = 0 \/ part.name \notin DOMAIN lookup THEN {}
                ELSE resolve[depth - 1, lookup[part.name]]
          IN FoldLeft(LAMBDA done, part : {d \o r : d \in done, r \in replace(part)}, {<<>>}, v)
    IN IF value = NoText THEN {} ELSE resolve[MaxNesting, value] \ {<<>>}

(* The raw coordinates of a module, some of them its parent's. *)
RawCoordinates(pom) ==
    LET parent == Or(pom.parent, [groupId |-> NoText, version |-> NoText])
    IN [groupId |-> Or(pom.groupId, parent.groupId), artifactId |-> pom.artifactId,
        version |-> Or(pom.version, parent.version)]

(* reactor_module_coordinate, maven_config_properties: what the user gives *)
(* comes before the names of the coordinates, and those before properties. *)
(* The set of the coordinate, or the empty set.                            *)
ModuleCoordinate(pom, chain) ==
    LET raw == RawCoordinates(pom)
        parents == IF pom.parent = NoText THEN <<>> ELSE CoordinateNames("parent", pom.parent)
        lookup == text.user @@ parents @@ CoordinateNames("project", raw)
                    @@ InheritedProperties(pom.properties, chain)
    IN UNION {{[groupId |-> g, artifactId |-> a, version |-> v] :
                 g \in Interpolate(raw.groupId, l), a \in Interpolate(raw.artifactId, l),
                 v \in Interpolate(raw.version, l)} : l \in {lookup}}

OutputSuffixes == <<<<"test", "sources">>, <<"sources">>, <<"tests">>>>

(* The classifier of an output; <<>> for none. *)
OutputClassifier(coordinate) ==
    LET conventional == coordinate.artifactId \o coordinate.version
        ends == {i \in DOMAIN OutputSuffixes : IsSuffix(OutputSuffixes[i], text.stem)}
    IN CASE text.kind = "directory" ->
              IF text.stem = <<"test", "classes">> THEN <<"tests">> ELSE <<>>
         [] text.kind = "archive" /\ IsPrefix(conventional, text.stem) ->
              SubSeq(text.stem, Len(conventional) + 1, Len(text.stem))
         [] text.kind = "archive" /\ ~IsPrefix(conventional, text.stem) ->
              IF ends = {} THEN <<>> ELSE OutputSuffixes[CHOOSE i \in ends : \A j \in ends : i <= j]

(* reactor_identity *)
ReactorIdentity ==
    /\ Given("identity") /\ loop # NoText /\ ~HasParentPom
    /\ \E coordinates \in {ModuleCoordinate(text.poms[OutputModule], loop.chain)} :
         IF text.kind = "other" \/ coordinates = {} THEN Unindexed("UnresolvedReactorCoordinate")
         ELSE \E c \in coordinates :
                /\ reading' = [identity |-> "reactor", coordinate |-> c,
                               classifier |-> OutputClassifier(c)]
                /\ UNCHANGED <<text, loop>>

-----------------------------------------------------------------------------
(* A focused test.  before is what report_snapshot saw, the time of each   *)
(* report; reports is what there is once Maven has ended; said is what     *)
(* Maven's output says; lines are those of the reactor's summary.          *)

(* MavenBuildResult::from_run *)
BuildOutcome(status, said) ==
    CASE status # "BuildFailure" -> status
      [] status = "BuildFailure" /\ "compilation" \in said -> "CompilationError"
      [] status = "BuildFailure" /\ "compilation" \notin said /\ "failures" \in said -> "TestFailure"
      [] OTHER -> "BuildFailure"

(* offline_resolution_policy_notice *)
PolicyNotice(status, said) == status = "BuildFailure" /\ "offline" \in said

(* parse_reactor_summary: the lines between the marker and BUILD. *)
ReactorSummary(lines) ==
    LET begun(i) == \E j \in 1..(i - 1) : lines[j].kind = "summary"
        ended(i) == \E j \in 1..i : lines[j].kind = "build" /\ begun(j)
    IN {lines[i].module : i \in {k \in DOMAIN lines :
                                   lines[k].kind = "module" /\ begun(k) /\ ~ended(k)}}

(* external: the reports that lie in the project when the run is over. *)
ReportsAfter ==
    LET gone == text.removed \cup {w.file : w \in text.written}
    IN {r \in text.earlier : r.file \notin gone} \cup text.written

(* report_snapshot: the reports whose times are known before the run; none *)
(* if the walk fails.                                                      *)
ReportSnapshot ==
    {r \in text.earlier : text.snapshot = "works" /\ r.file \notin text.unreadable.before}

(* Mutant: every report counts. *)
AllReports == ReportsAfter

(* updated_reports: a report counts unless the snapshot has its file and   *)
(* it is not later than there.                                             *)
UpdatedReports ==
    {r \in ReportsAfter :
        \A s \in ReportSnapshot : s.file = r.file =>
            r.file \notin text.unreadable.after /\ r.modified > s.modified}

(* parse_test_reports: a suite counts its tests; what is left passed. *)
ParseTestReports(reports) ==
    LET left(r) == r.tests - (r.failures + r.errors + r.skipped)
    IN [report |-> "Available",
        summary |-> [failed |-> SumFunction([r \in reports |-> r.failures]),
                     errors |-> SumFunction([r \in reports |-> r.errors]),
                     skipped |-> SumFunction([r \in reports |-> r.skipped]),
                     passed |-> SumFunction([r \in reports |-> IF left(r) > 0 THEN left(r) ELSE 0])],
        failures |-> UNION {{c \in r.cases : c.kind # "passed"} : r \in reports}]

(* run_focused_test, once Maven has ended. *)
FocusedTest ==
    /\ Given("tests")
    /\ LET updated == UpdatedReports
           none(report) == [report |-> report, summary |-> NoText, failures |-> {}]
           parsed == CASE text.discovery = "fails" -> none("Invalid")
                       [] text.discovery = "works" /\ updated = {} -> none("Missing")
                       [] text.discovery = "works" /\ \E r \in updated : ~r.parses -> none("Invalid")
                       [] OTHER -> ParseTestReports(updated)
           failed == parsed.report = "Available" /\ parsed.summary.failed + parsed.summary.errors > 0
       IN reading' =
            [report |-> parsed.report, summary |-> parsed.summary, failures |-> parsed.failures,
             outcome |-> IF failed THEN "TestFailure" ELSE BuildOutcome(text.status, text.said),
             notice |-> PolicyNotice(text.status, text.said),
             reactor |-> ReactorSummary(text.lines)]
    /\ UNCHANGED <<text, loop>>

-----------------------------------------------------------------------------
OutputNext ==
    \/ ResolutionLine \/ ExplainResolution \/ DependencyTree
    \/ WildcardStep \/ WildcardEnd
    \/ BuildClasspath \/ CoverageGaps
    \/ DiscoverModule \/ DiscoverProject
    \/ ScopedIdentity \/ ParentPom \/ ReactorIdentity
    \/ FocusedTest

OutputSpec == OutputInit /\ [][OutputNext]_outputVars

-----------------------------------------------------------------------------
(* Properties *)

Read(op) == text # NoText /\ text.op = op /\ reading # NoText

(* external: what Maven prints for a module's dependencies, which are the  *)
(* nodes of a tree in preorder, each with its depth.  The chunk of a level *)
(* is a bar as long as the ancestor on that level has a sibling below.     *)
HasLaterSibling(nodes, i, level) ==
    \E j \in (i + 1)..Len(nodes) :
        nodes[j].depth = level /\ \A k \in (i + 1)..j : nodes[k].depth >= level
MavenPrints(module, nodes) ==
    << [kind |-> "header", module |-> module], [kind |-> "root", module |-> module] >>
    \o [i \in DOMAIN nodes |->
          [kind |-> "dependency", artifact |-> nodes[i].artifact, version |-> nodes[i].version,
           requested |-> nodes[i].requested, managed |-> nodes[i].managed,
           status |-> nodes[i].status,
           indent |-> [level \in 1..(nodes[i].depth - 1) |->
                         IF HasLaterSibling(nodes, i, level) THEN "bar" ELSE "blank"]]]

(* external: the tree of every module is printed, begins[n] lines after    *)
(* the first, in a text that is complete and of which each line can be     *)
(* read; what is not part of a tree looks like no line of one.             *)
ASSUME TreeAssumption ==
    /\ MaxExplained \in Nat
    /\ \A t \in Texts : t.op = "tree" =>
         LET printed(n) == MavenPrints(t.trees[n].module, t.trees[n].nodes) IN
         /\ t.truncated \in BOOLEAN
         /\ t.lines \in Seq(ToSet(t.lines)) /\ t.trees \in Seq(ToSet(t.trees))
         /\ \A n \in DOMAIN t.trees :
              LET nodes == t.trees[n].nodes IN
              /\ nodes \in Seq(ToSet(nodes))
              /\ \A i \in DOMAIN nodes :
                   nodes[i].depth \in 1..(IF i = 1 THEN 1 ELSE nodes[i - 1].depth + 1)
         /\ ~t.truncated /\ (\A k \in DOMAIN t.lines : t.lines[k].kind # "malformed") =>
              /\ \A n \in DOMAIN t.trees : \A k \in DOMAIN printed(n) :
                   /\ t.begins[n] \in Nat /\ t.begins[n] + k \in DOMAIN t.lines
                   /\ t.lines[t.begins[n] + k] = printed(n)[k]
              /\ \A k \in DOMAIN t.lines :
                   \/ t.lines[k].kind = "other"
                   \/ \E n \in DOMAIN t.trees : k - t.begins[n] \in DOMAIN printed(n)

(* The ancestor of a node on a level, as a set of one position. *)
Above(nodes, i, level) ==
    {j \in 1..i : nodes[j].depth = level /\ \A k \in (j + 1)..i : nodes[k].depth > level}
TruePath(module, nodes, i) ==
    LET node(j) == <<nodes[j].artifact, nodes[j].version>> IN
    [k \in 1..(nodes[i].depth + 1) |->
        IF k = 1 THEN module ELSE node(CHOOSE j \in Above(nodes, i, k - 1) : TRUE)]

TruePaths(artifact) ==
    UNION {{TruePath(text.trees[t].module, text.trees[t].nodes, i) :
              i \in {j \in DOMAIN text.trees[t].nodes :
                       text.trees[t].nodes[j].artifact = artifact}} : t \in DOMAIN text.trees}

(* explain_dependency_resolution: an answer that does not call itself      *)
(* incomplete or invalid explains every artifact that the filter selects,  *)
(* with exactly its paths in the trees of all modules, and its selected    *)
(* version is one that Maven selected; otherwise there is a reason.        *)
PathsAreTrue ==
    Read("tree") =>
        LET whole == reading.status \in {"available", "empty"}
            known == UNION {{n.artifact : n \in ToSet(t.nodes)} : t \in ToSet(text.trees)}
            explained == {e.artifact : e \in reading.explanations}
        IN /\ whole <=> ~reading.incomplete
           /\ whole => explained = known \cap text.filter
           /\ ~whole => \/ text.truncated
                        \/ \E l \in ToSet(text.lines) : l.kind = "malformed"
                        \/ Cardinality(known \cap text.filter) > MaxExplained
           /\ whole => \A e \in reading.explanations :
                /\ {p.nodes : p \in e.paths} = TruePaths(e.artifact)
                /\ e.selected # NoText =>
                     \E t \in ToSet(text.trees) : \E n \in ToSet(t.nodes) :
                        n.artifact = e.artifact /\ n.status = "selected" /\ n.version = e.selected

(* The depth that maven_dependency_tree reports for a dependency is its    *)
(* depth in the tree.                                                      *)
DepthsAreTrue ==
    Read("depths") /\ ~reading.incomplete =>
        LET nodes == FoldLeft(LAMBDA all, t : all \o t.nodes, <<>>, text.trees) IN
        \A i \in DOMAIN reading.nodes : reading.nodes[i].depth = nodes[i].depth

(* wildcard_matches decides whether the value is an instance of the        *)
(* pattern, in which a star stands for any characters.                     *)
IsInstance(value, pattern) ==
    LET end == Len(value) + 1
        fits[n \in 0..Len(pattern)] ==    \* where the last n characters match what is left
          IF n = 0 THEN {end}
          ELSE LET c == pattern[Len(pattern) + 1 - n] IN
               {j \in 1..end : IF c = "*" THEN \E k \in j..end : k \in fits[n - 1]
                               ELSE j < end /\ value[j] = c /\ j + 1 \in fits[n - 1]}
    IN 1 \in fits[Len(pattern)]
WildcardIsGlob ==
    Read("pattern") => (reading.matches <=> IsInstance(text.value, text.pattern))

(* build_classpath_paths: a classpath that does not call itself incomplete *)
(* has what Maven printed, nothing more and nothing less, and a whole      *)
(* print with absolute paths of known archives is complete.                *)
ClasspathTrue ==
    Read("classpath") =>
        LET items == UNION {l.items : l \in {x \in ToSet(text.printed) : x.classpath}}
            whole == text.kept = text.printed /\ \E l \in ToSet(text.printed) : l.marker
        IN /\ ~reading.pathsIncomplete => reading.paths = {i.path : i \in items}
           /\ ~reading.incomplete => reading.artifacts = {i.coordinate : i \in items}
           /\ whole /\ (\A i \in items : i.absolute /\ i.coordinate # NoText)
                => ~reading.incomplete /\ ~reading.pathsIncomplete

(* coverage_gaps shows the worst classes: none that is left out is covered *)
(* less by a basis point or more than one that is shown, or as much with   *)
(* more lines missed.  It says when something is left out, and calls a     *)
(* module missing exactly if no report lies in its directory outside those *)
(* of the modules nested in it.                                            *)
OwnReports(m) ==
    {r \in text.reports :
        /\ IsPrefix(text.expected[m], r.path)
        /\ \A n \in DOMAIN text.expected \ {m} :
              IsPrefix(text.expected[m], text.expected[n]) => ~IsPrefix(text.expected[n], r.path)}
GapsAreWorst ==
    Read("coverage") /\ reading.status # "invalid" =>
        LET hidden == (UNION {r.classes : r \in text.reports}) \ reading.gaps
            total(c) == c.missed + c.covered
        IN /\ reading.incomplete <=> hidden # {}
           /\ Cardinality(reading.gaps) <= text.limit
           /\ \A h \in hidden, s \in reading.gaps : total(h) > 0 =>
                /\ total(s) > 0
                /\ h.covered * total(s) * 10000 + total(h) * total(s)
                     > s.covered * total(h) * 10000
                /\ h.covered * total(s) = s.covered * total(h) => h.missed <= s.missed
           /\ reading.missing = {m \in DOMAIN text.expected : OwnReports(m) = {}}

(* discover_project finds each directory that the modules lead to exactly  *)
(* once, however the directories are linked, and fails only if one of them *)
(* cannot be used or the modules are nested too deeply.                    *)
LeadsOnlyTo(S) ==
    /\ text.root \in S
    /\ \A d \in S \cap DOMAIN text.modules :
          \A m \in ToSet(text.modules[d]) : text.entered[<<d, m>>] \in S
Targets == {text.root} \cup {text.entered[x] : x \in DOMAIN text.entered}
Reachable == {d \in Targets : \A S \in SUBSET Targets : LeadsOnlyTo(S) => d \in S}
ModulesOnce ==
    Read("modules") =>
        IF reading.outcome = "error"
        THEN Reachable \ DOMAIN text.modules # {} \/ Cardinality(Reachable) > MaxDepth
        ELSE /\ {f.directory : f \in ToSet(reading.found)} = Reachable
             /\ Len(reading.found) = Cardinality(Reachable)

(* The properties that Maven sees in a module: what the user gives, what   *)
(* the POM says of itself and its parent, and what the nearest of the POM  *)
(* and its parents defines.                                                *)
Ancestor(m) ==
    LET a[k \in 0..MaxParents] ==
          IF k = 0 THEN m
          ELSE IF a[k - 1] = NoText \/ text.poms[a[k - 1]].parent = NoText THEN NoText
          ELSE text.poms[a[k - 1]].parent.leads
    IN a
Defines(m, k, name) ==
    Ancestor(m)[k] # NoText /\ name \in DOMAIN text.poms[Ancestor(m)[k]].properties
OfItself(m) ==
    LET pom == text.poms[m] IN
    (IF pom.parent = NoText THEN <<>> ELSE CoordinateNames("parent", pom.parent))
      @@ CoordinateNames("project", RawCoordinates(pom))
Definition(m, name) ==
    IF name \in DOMAIN text.user THEN text.user[name]
    ELSE IF name \in DOMAIN OfItself(m) THEN OfItself(m)[name]
    ELSE IF \E k \in 0..MaxParents : Defines(m, k, name)
    THEN LET nearest == CHOOSE k \in 0..MaxParents :
                           Defines(m, k, name) /\ \A j \in 0..(k - 1) : ~Defines(m, j, name)
         IN text.poms[Ancestor(m)[nearest]].properties[name]
    ELSE NoText
ReferredTo(value) == {value[i].name : i \in {j \in DOMAIN value : value[j].reference}}
(* The references met n levels below a value. *)
Met(m, value) ==
    LET met[n \in 0..MaxNesting] ==
          IF n = 0 THEN ReferredTo(value)
          ELSE UNION {ReferredTo(Or(Definition(m, name), <<>>)) : name \in met[n - 1]}
    IN met
Expands(m, value) ==
    /\ Met(m, value)[MaxNesting] = {}
    /\ \A n \in 0..MaxNesting : \A name \in Met(m, value)[n] : Definition(m, name) # NoText
(* One round of replacing every reference by its definition. *)
Expand(m, value) ==
    FlattenSeq([i \in DOMAIN value |->
                  IF value[i].reference THEN Definition(m, value[i].name) ELSE <<value[i]>>])
Expansion(m, value) ==
    LET round[n \in 0..MaxNesting] ==
          IF n = 0 THEN value ELSE Expand(m, round[n - 1])
    IN FlattenSeq([i \in DOMAIN round[MaxNesting] |-> round[MaxNesting][i].name])

(* scoped_identity: an output of a module has the coordinates that Maven   *)
(* gives the module, with circles among parents and among properties, or   *)
(* none if they cannot be told.  Outputs that Maven attaches to a module   *)
(* with different classifiers stay apart: a conventional name shows every  *)
(* classifier, any other the three that are known.                         *)
IdentityTrue ==
    Read("identity") /\ text.repository = "outside" /\ OutputModules # {} =>
        LET m == OutputModule
            raw == RawCoordinates(text.poms[m])
            known == \A n \in DOMAIN raw :
                        raw[n] # NoText /\ Expands(m, raw[n]) /\ Expansion(m, raw[n]) # <<>>
            truly == [n \in DOMAIN raw |-> Expansion(m, raw[n])]
        IN IF ~known \/ text.kind = "other"
           THEN reading = [unindexed |-> "UnresolvedReactorCoordinate"]
           ELSE /\ reading.identity = "reactor" /\ reading.coordinate = truly
                /\ \/ text.kind = "archive" /\ text.final = truly.artifactId \o truly.version
                   \/ text.attached \in ToSet(OutputSuffixes) \cup {<<>>}
                   => reading.classifier = text.attached

(* run_focused_test: what it answers is about its own run.  The failed     *)
(* tests that it lists are those of reports that Maven has written if the  *)
(* time of every earlier report was known before (AllStamped), and all of  *)
(* those if Maven's are later than what they replace (WrittenLater); if    *)
(* both hold, it accounts for every test that a suite counts and nothing   *)
(* else.  It calls itself successful only if Maven was and it lists no     *)
(* failed test, and does not call reports missing that Maven has written.  *)
AllStamped ==
    text.snapshot = "works" /\ \A e \in text.earlier : e.file \notin text.unreadable.before
WrittenLater ==
    \A w \in text.written, e \in text.earlier : w.file = e.file =>
        w.modified > e.modified /\ w.file \notin text.unreadable.after
FailedIn(reports) == UNION {{c \in r.cases : c.kind # "passed"} : r \in reports}
FocusedTestTrue ==
    Read("tests") =>
        LET available == reading.report = "Available"
            counted == reading.summary.failed + reading.summary.errors
                         + reading.summary.skipped + reading.summary.passed
        IN /\ available /\ AllStamped => reading.failures \subseteq FailedIn(text.written)
           /\ available /\ WrittenLater => FailedIn(text.written) \subseteq reading.failures
           /\ available /\ AllStamped /\ WrittenLater =>
                /\ text.written # {} /\ \A r \in text.written : r.parses
                /\ counted = SumFunction([r \in text.written |-> r.tests])
           /\ reading.report = "Missing" /\ WrittenLater => text.written = {}
           /\ reading.outcome = "Success" =>
                text.status = "Success" /\ (available => reading.failures = {})
           /\ available /\ reading.failures # {} => reading.outcome = "TestFailure"
           /\ reading.reactor \subseteq text.modules

=============================================================================
