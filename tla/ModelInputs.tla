----------------------------- MODULE ModelInputs -----------------------------
(***************************************************************************)
(* What a stored classpath depends on: the walk over the POMs that take    *)
(* part in Maven's model building (src/index_cache/model_inputs.rs) and    *)
(* the variables of the environment that select artifacts                  *)
(* (src/index_cache/maven_environment.rs, the classpath context in         *)
(* src/index_cache.rs).                                                    *)
(*                                                                         *)
(* The walk must find every POM that Maven may have read, although it does *)
(* not build the model itself: where Maven decides a version it follows    *)
(* every version there is.  A POM is a local file or a version of an       *)
(* artifact in the repository, <<artifact, version>>.  Its text is what    *)
(* the walk reads of it.  No file changes during the walk; that the stamps *)
(* belong to what Maven read is the subject of StoredIndex.                *)
(***************************************************************************)
EXTENDS Integers, FiniteSets

CONSTANTS
    Local,          \* POM files outside the repository
    Reactor,        \* those of the project
    Artifacts, Versions,  \* of the repository
    Selected,       \* POMs beside the archives of the classpath
    Worlds,         \* what the POMs may say: a text for each POM, or Missing
    HasRepository,  \* whether the classpath shows where the repository is
    MaxFollowed,    \* MAX_FOLLOWED_VERSIONS
    MaxFiles,       \* MAX_XML_FILES of the walk's XmlBudget
    Names, Values,  \* environment variables
    Launcher,       \* variables that Maven's launcher, Java or jenv read
    ServerOnly,     \* SERVER_ONLY_ENVIRONMENT, removed from Maven's environment
    ConfigTexts,    \* references in settings and shell files, or Unreadable
    Open,           \* a version that Maven decides: property, range, SNAPSHOT
    Unknown,        \* a coordinate that needs other properties
    Missing, Unreadable, None

Repository == Artifacts \X Versions
Poms == Local \cup Repository

ASSUME PomAssumption ==
    /\ Local \cap Repository = {}
    /\ Reactor \subseteq Local /\ Selected \subseteq Repository
    /\ Open \notin Versions /\ Unknown \notin Artifacts /\ None \notin Local
ASSUME WorldsAssumption ==
    \A w \in Worlds, p \in Poms : w[p] # Missing =>
        /\ w[p].relative \in Local \cup {None}
        /\ \A ref \in w[p].imports \cup w[p].profileImports
                        \cup (IF w[p].parent = None THEN {} ELSE {w[p].parent}) :
              ref.artifact \in Artifacts \cup {Unknown} /\ ref.version \in Versions \cup {Open}
ASSUME NamesAssumption ==   \* every variable that is referenced has a name
    /\ Launcher \subseteq Names
    /\ \A c \in ConfigTexts : c = Unreadable \/ c \subseteq Names
    /\ \A w \in Worlds, p \in Poms : w[p] # Missing => w[p].literal \cup w[p].encoded \subseteq Names
ASSUME BoundAssumption == MaxFollowed \in Nat /\ MaxFiles \in Nat

VARIABLES
    pom,         \* the text of each POM
    config,      \* the names referenced by the other configuration files
    pending,     \* queue: POMs to visit, with in_reactor
    visited, inputs, references,
    files,       \* files read from the budget
    outcome      \* "walking", "declined" or "done"

vars == <<pom, config, pending, visited, inputs, references, files, outcome>>

-----------------------------------------------------------------------------
(* Texts.  relative is the file that relativePath or its default names, or *)
(* None when it is empty; literal and encoded are the variables referenced *)
(* in plain text and through XML references; entity tells that an unknown  *)
(* entity is used, broken that the XML cannot be parsed.                   *)

References(p) ==
    IF pom[p].parent = None THEN pom[p].imports \cup pom[p].profileImports
    ELSE pom[p].imports \cup pom[p].profileImports \cup {pom[p].parent}

(* Mutant: the imports of profiles are left out. *)
ReferencesOutsideProfiles(p) ==
    IF pom[p].parent = None THEN pom[p].imports ELSE pom[p].imports \cup {pom[p].parent}

(* imports, coordinate: what a POM refers to. *)
Coordinates(p) == References(p)

(* env_references: the text is read as it is and with its XML references   *)
(* decoded; an unknown entity may hide anything.                           *)
EnvReferences(text) ==
    IF text.entity THEN Unreadable ELSE text.literal \cup text.encoded

(* The versions that a directory of the repository has. *)
VersionsOf(a) == {v \in Versions : pom[<<a, v>>] # Missing}

RelativeParent(p, in_reactor) ==
    IF in_reactor /\ pom[p].parent # None /\ pom[p].relative # None
    THEN {pom[p].relative} ELSE {}

(* The POMs that a reference names. *)
PomsOf(ref) ==
    IF ref.version = Open THEN {<<ref.artifact, v>> : v \in VersionsOf(ref.artifact)}
    ELSE {<<ref.artifact, ref.version>>}

(* What is stamped for a reference: the POM, or the artifact's directory   *)
(* with all that is in it, <<artifact, Open>>.                             *)
StampedFor(ref) == <<ref.artifact, ref.version>>

(* A reference that cannot be followed ends the walk without inputs. *)
Followable(ref) ==
    /\ ref.artifact # Unknown
    /\ HasRepository
    /\ ref.version = Open => Cardinality(VersionsOf(ref.artifact)) <= MaxFollowed

-----------------------------------------------------------------------------
(* The walk *)

Init ==
    /\ pom \in Worlds
    /\ config \in ConfigTexts
    /\ pending = {<<p, TRUE>> : p \in Reactor} \cup {<<p, FALSE>> : p \in Selected}
    /\ visited = Reactor \cup Selected
    /\ inputs = {} /\ references = {} /\ files = 0
    /\ outcome = "walking"

(* enqueue *)
Enqueue(rest, targets, in_reactor) ==
    rest \cup {<<t, in_reactor>> : t \in targets \ visited}

Decline ==
    /\ outcome' = "declined"
    /\ UNCHANGED <<pom, config, pending, visited, inputs, references, files>>

(* A POM that is missing is stamped as missing and not followed. *)
Skip(p, in_reactor) ==
    /\ outcome = "walking" /\ <<p, in_reactor>> \in pending
    /\ pom[p] = Missing
    /\ pending' = pending \ {<<p, in_reactor>>}
    /\ UNCHANGED <<pom, config, visited, inputs, references, files, outcome>>

Unfollowable(p) ==
    \/ files >= MaxFiles
    \/ EnvReferences(pom[p]) = Unreadable
    \/ pom[p].broken
    \/ \E ref \in Coordinates(p) : ~Followable(ref)

GiveUp(p, in_reactor) ==
    /\ outcome = "walking" /\ <<p, in_reactor>> \in pending
    /\ pom[p] # Missing /\ Unfollowable(p)
    /\ Decline

(* visit: the order in which the queue is worked off and directories are   *)
(* listed makes no difference and is left open.                            *)
Visit(p, in_reactor) ==
    /\ outcome = "walking" /\ <<p, in_reactor>> \in pending
    /\ pom[p] # Missing /\ ~Unfollowable(p)
    /\ files' = files + 1
    /\ references' = references \cup EnvReferences(pom[p])
    /\ LET local == RelativeParent(p, in_reactor)
           others == UNION {PomsOf(ref) : ref \in Coordinates(p)}
           rest == pending \ {<<p, in_reactor>>}
       IN /\ pending' = Enqueue(Enqueue(rest, local, TRUE), others, FALSE)
          /\ visited' = visited \cup local \cup others
          /\ inputs' = inputs \cup local \cup {StampedFor(ref) : ref \in Coordinates(p)}
    /\ UNCHANGED <<pom, config, outcome>>

Finish ==
    /\ outcome = "walking" /\ pending = {}
    /\ outcome' = "done"
    /\ UNCHANGED <<pom, config, pending, visited, inputs, references, files>>

Next ==
    \/ \E entry \in pending :
         \/ Skip(entry[1], entry[2])
         \/ GiveUp(entry[1], entry[2])
         \/ Visit(entry[1], entry[2])
    \/ Finish

Spec == Init /\ [][Next]_vars /\ WF_vars(Next)

-----------------------------------------------------------------------------
(* The environment *)

(* referenced_names: what the reactor and the configuration reference;     *)
(* Unreadable when a file cannot be scanned.                               *)
ReferencedNames ==
    LET reactor == {EnvReferences(pom[p]) : p \in {q \in Reactor : pom[q] # Missing}} IN
    IF config = Unreadable \/ Unreadable \in reactor THEN Unreadable
    ELSE config \cup UNION reactor

(* Mutant: without the references only the launcher's variables count. *)
TakesPartByName(name, referenced) ==
    /\ name \notin ServerOnly
    /\ name \in Launcher \/ (referenced # Unreadable /\ name \in referenced)

TakesPart(name, referenced) ==
    /\ name \notin ServerOnly
    /\ referenced = Unreadable \/ name \in Launcher \/ name \in referenced

(* A digest stands for the names it covers and their values. *)
Digest(environment, selected) == [n \in selected |-> environment[n]]

EnvironmentDigest(environment) ==
    Digest(environment, {n \in Names : environment[n] # None /\ TakesPart(n, ReferencedNames)})

ReferencedDigest(environment, referenced) ==
    Digest(environment, {n \in Names : /\ environment[n] # None
                                       /\ n \in referenced \ ServerOnly})

-----------------------------------------------------------------------------
(* Properties *)

(* external: the POMs that Maven's model building may read.  Maven prefers *)
(* a local parent that fits and takes the repository's otherwise, and it   *)
(* chooses one of the versions there are.                                  *)
ClosedUnderModelBuilding(S) ==
    /\ Reactor \cup Selected \subseteq S
    /\ \A p \in S : pom[p] # Missing =>
         /\ RelativeParent(p, p \in Local) \subseteq S
         /\ \A ref \in References(p) : ref.artifact # Unknown => PomsOf(ref) \subseteq S
MavenReads == {p \in Poms : \A S \in SUBSET Poms : ClosedUnderModelBuilding(S) => p \in S}

(* The fingerprint of the project, the classpath inputs, or the walk's     *)
(* paths and directories stamp a POM.                                      *)
Stamped(p) ==
    \/ p \in Reactor \cup Selected \cup inputs
    \/ p \in Repository /\ <<p[1], Open>> \in inputs

(* When the walk ends with inputs, Maven read no POM that is not stamped,  *)
(* whichever versions and parents it chose; a version that appears later   *)
(* where Maven chose one is stamped too; and every variable that one of    *)
(* those POMs references is recorded.                                      *)
InputsComplete ==
    outcome = "done" =>
        \A p \in MavenReads :
            /\ Stamped(p)
            /\ pom[p] # Missing =>
                 /\ pom[p].literal \cup pom[p].encoded \subseteq references
                 /\ \A ref \in References(p) : ref.artifact # Unknown /\ StampedFor(ref) \in inputs

(* A process whose classpath context and recorded variables agree with     *)
(* those of the process that stored a classpath gives Maven the same value *)
(* for every variable that Maven may read.                                 *)
MavenSees ==
    (Launcher \cup (IF config = Unreadable THEN Names ELSE config)
        \cup UNION {pom[p].literal \cup pom[p].encoded :
                      p \in {q \in MavenReads : pom[q] # Missing}}) \ ServerOnly
SameKeySameVariables ==
    outcome = "done" =>
        \A e1, e2 \in [Names -> Values \cup {None}] :
            /\ EnvironmentDigest(e1) = EnvironmentDigest(e2)
            /\ ReferencedDigest(e1, references) = ReferencedDigest(e2, references)
            => \A n \in MavenSees : e1[n] = e2[n]
=============================================================================
