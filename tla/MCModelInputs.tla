---------------------------- MODULE MCModelInputs ----------------------------
(* An instance of ModelInputs for TLC: a project with one POM, a local     *)
(* parent, and two artifacts with up to two versions each.                 *)
EXTENDS ModelInputs

Ref(artifact, version) == [artifact |-> artifact, version |-> version]

Plain == [parent |-> None, relative |-> None, imports |-> {}, profileImports |-> {},
          literal |-> {}, encoded |-> {}, entity |-> FALSE, broken |-> FALSE]

Project == <<"local", "project">>
Parent == <<"local", "parent">>
LocalPoms == {Project, Parent}
ReactorPoms == {Project}
SelectedPom == {<<"a", "1">>}

ProjectTexts ==
    {[Plain EXCEPT !.parent = parent, !.relative = relative, !.profileImports = imports] :
        parent \in {None, Ref("b", "1")}, relative \in {None, Parent},
        imports \in {{}, {Ref("b", Open)}}}
ParentTexts ==
    {Missing, Plain, [Plain EXCEPT !.entity = TRUE],
     [Plain EXCEPT !.parent = Ref("a", Open), !.relative = Project, !.encoded = {"X"}]}
A1Texts ==
    {Missing, [Plain EXCEPT !.literal = {"X"}, !.parent = Ref("b", "2"), !.relative = Parent]}
A2Texts ==
    {Missing, [Plain EXCEPT !.imports = {Ref("b", "1")}, !.encoded = {"Y"}]}
B1Texts ==
    {Missing, [Plain EXCEPT !.broken = TRUE], [Plain EXCEPT !.literal = {"S", "Y"}]}
B2Texts ==
    {Missing, [Plain EXCEPT !.imports = {Ref("a", "2")}],
     [Plain EXCEPT !.profileImports = {Ref(Unknown, "1")}]}

MCWorlds ==
    {[p \in Poms |-> CASE p = Project -> w[1] [] p = Parent -> w[2]
                       [] p = <<"a", "1">> -> w[3] [] p = <<"a", "2">> -> w[4]
                       [] p = <<"b", "1">> -> w[5] [] OTHER -> w[6]] :
        w \in ProjectTexts \X ParentTexts \X A1Texts \X A2Texts \X B1Texts \X B2Texts}

MCConfigTexts == {{}, {"Y"}, Unreadable}
=============================================================================
