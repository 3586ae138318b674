---------------------------- MODULE MCMavenOutput ----------------------------
(* Texts and directories for TLC to read with MavenOutput.                 *)
EXTENDS MavenOutput, TLC

Node(depth, d) == [depth |-> depth, artifact |-> d[1], version |-> d[2],
                   requested |-> d[3], managed |-> d[2] # d[3], status |-> d[4]]
Dependencies ==
    {<<1, "1", "1", "selected">>, <<2, "1", "2", "selected">>,
     <<1, "2", "2", "conflict">>, <<3, "1", "1", "selected">>}

(* The shapes of the trees with n nodes, as the depths in preorder. *)
Shapes(n) ==
    {depth \in [1..n -> 1..n] :
        /\ n > 0 => depth[1] = 1
        /\ \A i \in 2..n : depth[i] <= depth[i - 1] + 1}
Trees(n, dependencies) ==
    {[i \in 1..n |-> Node(depth[i], chosen[i])] :
        depth \in Shapes(n), chosen \in [1..n -> dependencies]}
SmallTrees == Trees(1, Dependencies) \cup Trees(2, {<<1, "1", "1", "selected">>,
                                                    <<2, "1", "2", "selected">>})
TreeLists ==
    {<<[module |-> ".", nodes |-> nodes]>> :
        nodes \in Trees(3, Dependencies) \cup Trees(4, {<<1, "1", "1", "selected">>,
                                                        <<3, "1", "1", "selected">>})}
    \cup {<<[module |-> ".", nodes |-> <<>>], [module |-> "m", nodes |-> first],
            [module |-> "n", nodes |-> second]>> : first \in SmallTrees, second \in SmallTrees}

Printed(trees) == FoldLeft(LAMBDA all, t : all \o MavenPrints(t.module, t.nodes), <<>>, trees)
TreeText(op, trees, lines, filter, truncated) ==
    [op |-> op, trees |-> trees, lines |-> lines, filter |-> filter, truncated |-> truncated,
     begins |-> [n \in DOMAIN trees |-> 1 + Len(Printed(SubSeq(trees, 1, n - 1)))]]
Noise == [kind |-> "other"]
Malformed == [kind |-> "malformed"]
TreeTexts ==
    {TreeText("tree", trees, <<Noise>> \o Printed(trees), filter, FALSE) :
        trees \in TreeLists, filter \in {1..3, {1}}}
    \cup {TreeText("tree", trees, SubSeq(Printed(trees), from, to), 1..3, TRUE) :
            trees \in {t \in TreeLists : Len(t) = 3}, from \in {1, 4}, to \in {5, 6}}
    \cup {TreeText("tree", trees, Append(Printed(trees), Malformed), 1..3, FALSE) :
            trees \in {t \in TreeLists : Len(t) = 3}}
DepthTexts ==
    {TreeText("depths", trees, Printed(trees), {}, FALSE) :
        trees \in {t \in TreeLists : Len(t) = 3}}

PatternTexts ==
    {[op |-> "pattern", pattern |-> pattern, value |-> value] :
        pattern \in SeqOf({"a", "b", "*"}, 4), value \in SeqOf({"a", "b"}, 4)}

(* Items 1 and 2 are archives of the repository, 3 is a directory of       *)
(* classes, and 4 stands for the words of any other line.                  *)
Item(path) == [path |-> path, absolute |-> path # 4,
               coordinate |-> IF path \in {1, 2} THEN path ELSE NoText]
Line(marker, classpath, paths) ==
    [marker |-> marker, classpath |-> classpath, items |-> {Item(p) : p \in paths}]
Blocks ==
    {<<Line(FALSE, FALSE, {4})>>}
    \cup {<<Line(TRUE, FALSE, {4}), Line(FALSE, TRUE, paths)>> :
            paths \in {{}, {1}, {1, 2}, {3}, {1, 4}}}
ClasspathTexts ==
    {[op |-> "classpath", printed |-> printed, kept |-> kept] :
        <<printed, kept>> \in
            UNION {LET all == FlattenSeq(blocks) IN
                   {<<all, SubSeq(all, from, to)>> : from \in 1..2, to \in 0..Len(all)} :
                     blocks \in SeqOf(Blocks, 3)}}

Class(name, missed, covered) == [name |-> name, missed |-> missed, covered |-> covered]
ClassSets ==
    {{}, {Class(1, 0, 0), Class(2, 1, 2)}, {Class(3, 2, 4), Class(4, 0, 3)},
     {Class(5, 3, 0), Class(6, 1, 199), Class(7, 0, 1)}}
JacocoReport(path, modified, parses, classes) ==
    [path |-> path, modified |-> modified, parses |-> parses, classes |-> classes]
RootReport == <<"target", "jacoco.xml">>
InnerReport == <<"m", "n", "target", "jacoco.xml">>
CoverageTexts ==
    {[op |-> "coverage", expected |-> expected, compiled |-> [d \in {<<"m", "n">>} |-> 2],
      reports |-> {r \in {JacocoReport(RootReport, 1, TRUE, first),
                          JacocoReport(InnerReport, modified, second # {}, second)} :
                     r.classes # {} \/ ~r.parses},
      limit |-> limit] :
        expected \in {("." :> <<>> @@ "m" :> <<"m">> @@ "m/n" :> <<"m", "n">>),
                      ("m" :> <<"m">> @@ "m/n" :> <<"m", "n">>),
                      ("m" :> <<"m">>)},
        modified \in {1, 2}, limit \in {0, 1, 3},
        <<first, second>> \in {c \in ClassSets \X ClassSets : c[1] \cap c[2] = {}}}

(* Up to three directories with up to two modules each; what is entered    *)
(* where nothing is listed is of no interest.                              *)
Directories == {"root", "one", "two"}
ModuleText(modules, entered) ==
    [op |-> "modules", root |-> "root", modules |-> modules, entered |-> entered]
ListedIn(modules) ==
    {e \in (DOMAIN modules) \X {"x", "y"} : e[2] \in ToSet(modules[e[1]])}
ModuleTexts ==
    {ModuleText(modules, [e \in Directories \X {"x", "y"} |->
                            IF e \in DOMAIN leads THEN leads[e] ELSE "root"]) :
        <<modules, leads>> \in
            UNION {{modules} \X [ListedIn(modules) \ {<<"two", "y">>} -> Directories] :
                     modules \in UNION {[{"root"} \cup present -> {<<>>, <<"x">>, <<"x", "y">>}] :
                                          present \in SUBSET {"one", "two"}}}}
    \cup {ModuleText([d \in Directories |-> <<"x">>],
                     [e \in Directories \X {"x", "y"} |->
                        CASE e[1] = "root" -> "one" [] e[1] = "one" -> "two" [] OTHER -> target]) :
            target \in {"outside", "up"}}

(* The POMs of a root, of a module m and of a module n nested in it.  Two  *)
(* properties, r and s, and the version of the root may refer to others.   *)
Word(w) == [reference |-> FALSE, name |-> <<w>>]
Reference(name) == [reference |-> TRUE, name |-> name]
R == <<"r">>
S == <<"s">>
One == <<Word("1")>>
PropertySets ==
    {<<>>, R :> One, R :> <<Reference(S)>>, S :> <<Word("2"), Word("x")>>,
     R :> <<Reference(S), Word("y")>> @@ S :> <<Reference(R)>>}
VersionValues == {NoText, One, <<Word("0"), Reference(R)>>, <<Reference(<<"project", "version">>)>>,
              <<Reference(<<"parent", "version">>), Reference(R)>>}
ParentAt(leads) ==
    [leads |-> leads, groupId |-> <<Word("g")>>, artifactId |-> <<Word("root")>>, version |-> One]
Pom(artifact, version, parent, properties) ==
    [groupId |-> NoText, artifactId |-> artifact, version |-> version, parent |-> parent,
     properties |-> properties]
M == <<"m">>
N == <<"m", "n">>
Artifact == <<Word("integration"), Word("app")>>
Outputs ==
    {[kind |-> "directory", stem |-> <<"classes">>, final |-> <<>>, attached |-> <<>>],
     [kind |-> "directory", stem |-> <<"test", "classes">>, final |-> <<>>, attached |-> <<"tests">>],
     [kind |-> "other", stem |-> <<"app">>, final |-> <<>>, attached |-> <<>>]}
    \cup {[kind |-> "archive", stem |-> final \o attached, final |-> final, attached |-> attached] :
            final \in {<<"integration", "app", "1">>, <<"integration", "app">>, <<"custom">>},
            attached \in {<<>>, <<"tests">>, <<"sources">>, <<"test", "sources">>, <<"shaded">>}}
IdentityText(place, poms, user, output) ==
    [op |-> "identity", repository |-> place[1], path |-> place[2], poms |-> poms, user |-> user,
     kind |-> output.kind, stem |-> output.stem, final |-> output.final,
     attached |-> output.attached]
ReactorPomSets ==
    {(<<>> :> Pom(<<Word("root")>>, One, rootParent, rootProperties)
        @@ M :> Pom(<<Word("m")>>, NoText, ParentAt(<<>>), moduleProperties)
        @@ N :> Pom(Artifact, version, nestedParent, nestedProperties)) :
        rootParent \in {ParentAt(NoText), ParentAt(N)},
        rootProperties \in PropertySets, moduleProperties \in {<<>>, R :> <<Word("3")>>},
        version \in VersionValues, nestedParent \in {NoText, ParentAt(M), ParentAt(N)},
        nestedProperties \in PropertySets \ {R :> One, S :> <<Word("2"), Word("x")>>}}
Below(m) == <<"outside", m \o <<"target", "entry">>>>
IdentityTexts ==
    {IdentityText(Below(N), poms, user, output) :
        poms \in ReactorPomSets, user \in {<<>>, R :> One},
        output \in {o \in Outputs : o.kind = "directory" /\ o.attached = <<>>}}
    \cup {IdentityText(place, poms, <<>>, output) :
            place \in {Below(<<>>), Below(M), Below(N), <<"artifact", <<>>>>, <<"other", <<>>>>,
                       <<"outside", <<"m", "lib">>>>},
            poms \in {p \in ReactorPomSets :
                        /\ p[N].version \in {One, NoText} /\ p[N].parent # NoText
                        /\ p[N].properties = <<>> /\ p[M].properties = <<>>
                        /\ p[<<>>].properties = <<>> /\ p[<<>>].parent.leads = NoText},
            output \in Outputs}

(* Reports of the classes A and B; that of A may be there before the test, *)
(* be rewritten in the same tick or later, and be stamped or not.          *)
Case(name, kind) == [name |-> name, kind |-> kind]
TestReport(file, modified, parses, cases) ==
    LET count(kind) == Cardinality({c \in cases : c.kind = kind}) IN
    [file |-> file, modified |-> modified, parses |-> parses, cases |-> cases,
     tests |-> Cardinality(cases) + 1, failures |-> count("failure"), errors |-> count("error"),
     skipped |-> 1]
CaseSets ==
    {{Case("a", "passed")}, {Case("a", "failure"), Case("b", "passed")}, {Case("a", "error")}}
SummaryLine(kind, module) == [kind |-> kind, module |-> module]
SummaryTexts ==
    {<<>>,
     <<SummaryLine("module", "noise"), SummaryLine("summary", ""), SummaryLine("module", "m"),
       SummaryLine("other", ""), SummaryLine("module", "n"), SummaryLine("build", ""),
       SummaryLine("module", "noise")>>,
     <<SummaryLine("module", "m"), SummaryLine("build", "")>>}
TestText(discovery, status, said, lines, earlier, written) ==
    [op |-> "tests", discovery |-> discovery, status |-> status, said |-> said, lines |-> lines,
     snapshot |-> "works", unreadable |-> [before |-> {}, after |-> {}],
     earlier |-> earlier, removed |-> {}, written |-> written, modules |-> {"m", "n"}]
OldReports ==
    {{}} \cup {{TestReport("A", 1, parses, cases)} : parses \in BOOLEAN, cases \in CaseSets}
NewReports ==
    {{}, {TestReport("B", 2, TRUE, {Case("b", "passed")})}}
    \cup {{TestReport("A", modified, parses, cases)} :
            modified \in {1, 2}, parses \in BOOLEAN, cases \in CaseSets}
    \cup {{TestReport("A", modified, TRUE, cases), TestReport("B", 2, TRUE, more)} :
            modified \in {1, 2}, cases \in CaseSets,
            more \in {{Case("b", "passed")}, {Case("b", "failure")}}}
TestTexts ==
    {TestText(discovery, status, said, lines, {TestReport("A", 1, TRUE, {Case("a", "error")})},
              written) :
        discovery \in {"works", "fails"},
        status \in {"Success", "BuildFailure", "Timeout", "RunnerError"},
        said \in SUBSET {"compilation", "failures", "offline"}, lines \in SummaryTexts,
        written \in {{}, {TestReport("A", 2, TRUE, {Case("a", "failure")})}}}
    \cup {[TestText("works", "Success", {}, <<>>, earlier, written) EXCEPT
             !.snapshot = snapshot, !.unreadable = [before |-> before, after |-> after],
             !.removed = removed] :
            earlier \in OldReports, written \in NewReports, snapshot \in {"works", "fails"},
            before \in {{}, {"A"}}, after \in {{}, {"A"}}, removed \in {{}, {"A"}}}

MCTexts == IdentityTexts \cup TestTexts \cup TreeTexts \cup DepthTexts \cup PatternTexts \cup ClasspathTexts
             \cup CoverageTexts \cup ModuleTexts
=============================================================================
