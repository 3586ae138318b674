--------------------------- MODULE MCIndexQueries ---------------------------
(* Instances of IndexQueries for TLC: small indexes and the questions      *)
(* about them.                                                             *)
EXTENDS IndexQueries

(* Classes R, A, B, C and b, which differs from B in its case only. *)
ClassNames == {"R", "A", "B", "C", "b"}
MCLower == [c \in ClassNames |-> IF c = "b" THEN "B" ELSE c]

Edge(child, parent, jar) == [child |-> child, parent |-> parent, jar |-> jar]
EdgePool ==
    {Edge("A", "R", 1), Edge("B", "R", 1), Edge("B", "A", 1), Edge("C", "B", 1),
     Edge("C", "A", 2), Edge("A", "B", 2), Edge("R", "C", 2), Edge("b", "A", 1)}

HierarchyQuestions ==
    {[op |-> "hierarchy", edges |-> edges, root |-> "R", transitive |-> transitive,
      selected |-> selected, limit |-> limit] :
        edges \in SUBSET EdgePool, transitive \in BOOLEAN,
        selected \in {{1, 2}, {2}}, limit \in {0, 2}}

Entry(size, utf8, wide, hits) == [size |-> size, utf8 |-> utf8, wide |-> wide, hits |-> hits]
EntryPool ==
    {Entry(0, TRUE, FALSE, <<>>), Entry(2, FALSE, TRUE, <<1>>), Entry(2, TRUE, FALSE, <<1, 2>>),
     Entry(3, TRUE, FALSE, <<3>>), Entry(4, TRUE, TRUE, <<1, 3>>), Entry(4, TRUE, FALSE, <<>>)}
SearchQuestions ==
    {[op |-> op, entries |-> entries, limit |-> limit] :
        op \in {"content", "source"}, limit \in {0, 1, 2, 9},
        entries \in SeqOf(EntryPool, 3)}

Binaries == {<<>>, <<"tests">>, <<"test">>, <<"jdk8">>}
SourceArchives ==
    {<<"sources">>, <<"test", "sources">>, <<"jdk8", "sources">>}
SourceQuestions ==
    {[op |-> "sources", classpath |-> classpath, there |-> classpath \cup sources,
      broken |-> broken] :
        classpath \in SUBSET Binaries, sources \in SUBSET SourceArchives,
        broken \in {{}} \cup {{s} : s \in SourceArchives}}

SourceEntry(name, prefixed, order, readable) ==
    [name |-> name, prefixed |-> prefixed, order |-> order, readable |-> readable]
SourceEntrySets ==
    SUBSET {SourceEntry(1, TRUE, 1, TRUE), SourceEntry(2, FALSE, 2, TRUE),
            SourceEntry(0, FALSE, 3, FALSE)}
DeclaringJars ==
    {[jar |-> jar, selected |-> selected, paired |-> paired, declared |-> declared,
      located |-> {"class", "()"}, classReadable |-> readable, entries |-> entries,
      packaged |-> paired = selected] :
        jar \in {1, 2}, selected \in BOOLEAN, paired \in BOOLEAN,
        declared \in {{"()"}, {"()", "(I)"}}, readable \in BOOLEAN,
        entries \in SourceEntrySets}
DeclarationQuestions ==
    {[op |-> "declaration", member |-> member, descriptor |-> descriptor, jars |-> {j, k}] :
        member \in BOOLEAN, descriptor \in {NoAnswer, "(I)"},
        j \in {x \in DeclaringJars : x.jar = 1 /\ x.selected},
        k \in {x \in DeclaringJars : x.jar = 2 /\ x.paired /\ x.classReadable}}

Member(name, visibility) == [name |-> name, visibility |-> visibility]
ClassFile(class, version, canonical, visibility, super, interfaces, members) ==
    [class |-> class, version |-> version, canonical |-> canonical,
     visibility |-> visibility, super |-> super, interfaces |-> interfaces,
     members |-> members]

(* In the order of their names: version directories come before packages,  *)
(* and 10 before 9.                                                        *)
ClassFilePool ==
    << {ClassFile("A", 10, TRUE, "public", "S", {}, {Member("m", "protected")})},
       {ClassFile("A", 9, FALSE, "public", "T", {}, {}),
        ClassFile("A", 9, TRUE, "public", "S", {"I"}, {Member("m", "private")})},
       {ClassFile("A", 0, TRUE, "public", "S", {}, {Member("m", "private")}),
        ClassFile("A", 0, TRUE, "package_private", "S", {}, {Member("m", "public")}),
        ClassFile("A", 0, TRUE, "public", "T", {}, {Member("m", "public")})},
       {ClassFile("B", 8, TRUE, "public", "S", {}, {}),
        ClassFile("B", 0, TRUE, "public", "S", {}, {})} >>
Entries4 ==
    {SelectSeq(chosen, LAMBDA e : e # NoAnswer) :
        chosen \in (ClassFilePool[1] \cup {NoAnswer}) \X (ClassFilePool[2] \cup {NoAnswer})
                     \X (ClassFilePool[3] \cup {NoAnswer}) \X (ClassFilePool[4] \cup {NoAnswer})}
MCJars == {[multiRelease |-> multi, entries |-> entries] : multi \in BOOLEAN, entries \in Entries4}
ApiQuestions ==
    {[op |-> "api", previous |-> previous, current |-> current] :
        previous \in MCJars, current \in {j \in MCJars : j.multiRelease}}

MCQuestions ==
    HierarchyQuestions \cup SearchQuestions \cup SourceQuestions
        \cup DeclarationQuestions \cup ApiQuestions

=============================================================================
