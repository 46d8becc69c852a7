------------------------------- MODULE Builder -------------------------------
(***************************************************************************)
(* BuildRepository: from a description of features, files, groups, and     *)
(* packages to the database of a packed repository and its packages.       *)
(*                                                                         *)
(* References tie features and packages to files.  A file without a place  *)
(* in a package of the description goes to a package "main", and a package *)
(* stores each content of its files once.  The description is chosen at    *)
(* the start; nothing is undone when the build fails.                      *)
(***************************************************************************)
EXTENDS Integers, FiniteSets, Sequences

CONSTANTS
  Files, Groups,           \* File and Group nodes
  NoGroup,                 \* the group of a file outside of all groups
  Contents, Paths,         \* file contents and target paths
  Names,                   \* package names
  Main,                    \* the name "main"
  Documents                \* the descriptions to build from

(* Features and packages are numbered in the order of the document, which  *)
(* is depth-first: a parent comes before its children.  group is the       *)
(* innermost Group of a file, ids are the files with an Id.  Ids differ,   *)
(* every Group has one, and no reference is given twice.                   *)
IsDocument(d) ==
  /\ d.groups \subseteq Groups
  /\ d.group \in [Files -> d.groups \cup {NoGroup}]
  /\ d.ids \subseteq Files
  /\ d.content \in [Files -> Contents]
  /\ d.target \in [Files -> Paths]
  /\ d.packages \in Seq([name : Names, references : SUBSET (Files \cup Groups)])
  /\ d.features \in Seq([parent : Nat, requires : SUBSET Nat,
                         references : SUBSET (Files \cup Groups)])
  /\ \A i \in DOMAIN d.features : d.features[i].parent < i

ASSUME BuilderAssumption ==
  /\ IsFiniteSet(Files)
  /\ Files \cap Groups = {}
  /\ NoGroup \notin Groups
  /\ Main \in Names
  /\ \A d \in Documents : IsDocument(d)

VARIABLES
  document,                \* the description
  debug,                   \* assertions are compiled in
  pc,                      \* what the builder does next
  packages,                \* packages_, by name; the position is the Id
  unassigned,              \* unassignedObjects
  pending,                 \* pendingLinks_ of the package linker
  referencedFiles,         \* referencedFiles_ of each package
  packageId,               \* File::packageId, 0 for none
  featureId,               \* File::featureId, 0 for none
  rows,                    \* fs_files: files that have been stored
  chunks,                  \* the contents in each package, once written
  result                   \* how the build ended

links == <<unassigned, pending, referencedFiles, packageId>>
output == <<featureId, rows, chunks>>
vars == <<document, debug, pc, packages, links, output, result>>

None == 0
Goto(label) == pc' = label

(* The build ends, whatever has been written stays.                        *)
Stop(reason) ==
  /\ Goto("done")
  /\ result' = reason

(* A statement that violates a constraint throws, and its destructor once  *)
(* more while that exception passes: the process ends, no error returns.   *)
Terminate == Stop("terminated")

(* repositoryObjects_: what a reference can name.                          *)
Objects == document.groups \cup document.ids

Children(g) == {f \in Files : document.group[f] = g}

(* RepositoryObjectLinker::Prepare: a group stands for its children.       *)
Targets(object) == IF object \in Groups THEN Children(object) ELSE {object}

Links(source, references) ==
  UNION {{[source |-> source, object |-> o, file |-> f] : f \in Targets(o)} :
         o \in references}

FilesOf(references) == UNION {Targets(o) : o \in references \cap Objects}

-----------------------------------------------------------------------------
(* Features, and the contents of files                                     *)

(* A dependency on a feature that is not there violates NOT NULL.          *)
CreateFeatures ==
  /\ pc = "features"
  /\ IF \A i \in DOMAIN document.features :
          document.features[i].requires \subseteq DOMAIN document.features
       THEN Goto("packages") /\ UNCHANGED result
       ELSE Terminate
  /\ UNCHANGED <<document, debug, packages, links, output>>

-----------------------------------------------------------------------------
(* Packages                                                                *)

(* fs_packages.Filename is unique.                                         *)
StorePackage(name) ==
  /\ \A i \in DOMAIN packages : packages[i] # name
  /\ packages' = Append(packages, name)
  /\ referencedFiles' = Append(referencedFiles, {})

NameTaken(name) ==
  /\ \E i \in DOMAIN packages : packages[i] = name
  /\ Terminate
  /\ UNCHANGED <<document, debug, packages, links, output>>

(* Mutant: everything a package stands for counts as assigned, also the    *)
(* groups a file of it is in.                                              *)
MutantAssignGroups(references) ==
  references \cup {document.group[f] : f \in FilesOf(references)}

(* Only what is referenced itself counts as assigned to a package.         *)
Assigned(references) == references

CreatePackage ==
  LET next == Len(packages) + 1
      package == document.packages[next]
      known == package.references \cap Objects
  IN
  /\ pc = "packages"
  /\ next \in DOMAIN document.packages
  /\ \/ NameTaken(package.name)
     \/ /\ StorePackage(package.name)
        /\ pending' = pending \cup Links(next, known)
        /\ unassigned' = unassigned \ Assigned(known)
        /\ UNCHANGED <<document, debug, pc, packageId, output, result>>

PackagesCreated ==
  /\ pc = "packages"
  /\ Len(packages) = Len(document.packages)
  /\ Goto("link")
  /\ UNCHANGED <<document, debug, packages, links, output, result>>

(* Links are made package by package.                                      *)
NextLinks ==
  {l \in pending : \A m \in pending : l.source <= m.source}

(* Mutant: the file is added without a look at its package.                *)
MutantAddAlways(l) ==
  /\ referencedFiles' = [referencedFiles EXCEPT ![l.source] = @ \cup {l.file}]
  /\ packageId' = [packageId EXCEPT ![l.file] = l.source]

(* Package::AddLink and File::OnLinkAdded: the first package keeps a file. *)
AddLink(l) ==
  IF packageId[l.file] = None
    THEN /\ referencedFiles' =
              [referencedFiles EXCEPT ![l.source] = @ \cup {l.file}]
         /\ packageId' = [packageId EXCEPT ![l.file] = l.source]
    ELSE UNCHANGED <<referencedFiles, packageId>>

(* Both assert that the package of a file they skip is another one.        *)
LinkPackage ==
  /\ pc \in {"link", "linkMain"}
  /\ \E l \in NextLinks :
       /\ pending' = pending \ {l}
       /\ AddLink(l)
       /\ IF debug /\ packageId[l.file] = l.source
            THEN Stop("asserted") ELSE UNCHANGED <<pc, result>>
  /\ UNCHANGED <<document, debug, packages, unassigned, output>>

PackagesLinked ==
  /\ pending = {}
  /\ \/ pc = "link" /\ Goto("main")
     \/ pc = "linkMain" /\ Goto("trim")
  /\ UNCHANGED <<document, debug, packages, links, output, result>>

CreateMain ==
  LET next == Len(packages) + 1 IN
  /\ pc = "main"
  /\ \/ /\ unassigned = {}
        /\ Goto("trim")
        /\ UNCHANGED <<document, debug, packages, links, output, result>>
     \/ unassigned # {} /\ NameTaken(Main)
     \/ /\ unassigned # {}
        /\ StorePackage(Main)
        /\ pending' = Links(next, unassigned)
        /\ Goto("linkMain")
        /\ UNCHANGED <<document, debug, unassigned, packageId, output, result>>

(* Mutant: the last package goes in any case.                              *)
MutantTrimAlways ==
  /\ pc = "trim"
  /\ packages' = SubSeq(packages, 1, Len(packages) - 1)
  /\ referencedFiles' = SubSeq(referencedFiles, 1, Len(packages) - 1)
  /\ Goto("linkFeatures")
  /\ UNCHANGED <<document, debug, unassigned, pending, packageId, output, result>>

(* The last package goes when it is empty.  It is taken for "main", which  *)
(* there may be none of, or even for a package when there is none.         *)
TrimPackages ==
  /\ pc = "trim"
  /\ IF packages = <<>>
       THEN /\ Stop("undefined")
            /\ UNCHANGED <<packages, referencedFiles>>
       ELSE LET last == Len(packages)
                size == IF referencedFiles[last] = {} THEN last - 1 ELSE last
            IN /\ packages' = SubSeq(packages, 1, size)
               /\ referencedFiles' = SubSeq(referencedFiles, 1, size)
               /\ Goto("linkFeatures")
               /\ UNCHANGED result
  /\ UNCHANGED <<document, debug, unassigned, pending, packageId, output>>

-----------------------------------------------------------------------------
(* Features and files                                                      *)

Owners(f) ==
  {i \in DOMAIN document.features : f \in FilesOf(document.features[i].references)}

(* Every feature with a link to the file sets featureId: the last one has  *)
(* it.                                                                     *)
LinkFeatures ==
  /\ pc = "linkFeatures"
  /\ featureId' = [f \in Files |->
       IF Owners(f) = {} THEN None
       ELSE CHOOSE i \in Owners(f) : \A j \in Owners(f) : j <= i]
  /\ Goto("files")
  /\ UNCHANGED <<document, debug, packages, links, rows, chunks, result>>

(* fs_files.FeatureId is a foreign key, and Path the primary key.          *)
Storable(f) ==
  /\ featureId[f] # None
  /\ \A g \in rows : document.target[g] # document.target[f]

(* Files are stored in any order, the code takes that of the document.     *)
StoreFile ==
  /\ pc = "files"
  /\ \E f \in Files \ rows :
       IF Storable(f)
         THEN rows' = rows \cup {f} /\ UNCHANGED <<pc, result>>
         ELSE Terminate /\ UNCHANGED rows
  /\ UNCHANGED <<document, debug, packages, links, featureId, chunks>>

FilesStored ==
  /\ pc = "files"
  /\ rows = Files
  /\ Goto("chunks")
  /\ UNCHANGED <<document, debug, packages, links, output, result>>

-----------------------------------------------------------------------------
(* The packages are written                                                *)

(* Mutant: of contents that occur twice, both occurrences are dropped.     *)
MutantUniqueContents(i) ==
  {c \in Contents :
     Cardinality({f \in referencedFiles[i] : document.content[f] = c}) = 1}

(* Package::GetUniqueContents *)
UniqueContents(i) == {document.content[f] : f \in referencedFiles[i]}

WritePackage ==
  LET next == Len(chunks) + 1 IN
  /\ pc = "chunks"
  /\ next \in DOMAIN packages
  /\ chunks' = Append(chunks, UniqueContents(next))
  /\ UNCHANGED <<document, debug, pc, packages, links, featureId, rows, result>>

Finish ==
  /\ pc = "chunks"
  /\ Len(chunks) = Len(packages)
  /\ Stop("ok")
  /\ UNCHANGED <<document, debug, packages, links, output>>

Finished == pc = "done" /\ UNCHANGED vars

-----------------------------------------------------------------------------
Init ==
  /\ document \in Documents
  /\ debug \in BOOLEAN
  /\ pc = "features"
  /\ packages = <<>>
  /\ unassigned = Objects
  /\ pending = {}
  /\ referencedFiles = <<>>
  /\ packageId = [f \in Files |-> None]
  /\ featureId = [f \in Files |-> None]
  /\ rows = {}
  /\ chunks = <<>>
  /\ result = "running"

Next ==
  \/ CreateFeatures
  \/ CreatePackage
  \/ PackagesCreated
  \/ LinkPackage
  \/ PackagesLinked
  \/ CreateMain
  \/ TrimPackages
  \/ LinkFeatures
  \/ StoreFile
  \/ FilesStored
  \/ WritePackage
  \/ Finish
  \/ Finished

Spec == Init /\ [][Next]_vars
-----------------------------------------------------------------------------
(* Properties                                                              *)

Labels == {"features", "packages", "link", "main", "linkMain", "trim",
           "linkFeatures", "files", "chunks", "done"}

(* Types of the variables.  In particular no file and no link names a      *)
(* package that is not there, also after an empty one has gone.            *)
TypeOK ==
  /\ IsDocument(document)
  /\ debug \in BOOLEAN
  /\ pc \in Labels
  /\ packages \in Seq(Names)
  /\ unassigned \subseteq Objects
  /\ pending \subseteq [source : DOMAIN packages, object : Objects, file : Files]
  /\ referencedFiles \in [DOMAIN packages -> SUBSET Files]
  /\ packageId \in [Files -> DOMAIN packages \cup {None}]
  /\ featureId \in [Files -> DOMAIN document.features \cup {None}]
  /\ rows \subseteq Files
  /\ chunks \in Seq(SUBSET Contents)
  /\ result \in {"running", "ok", "terminated", "asserted", "undefined"}

(* However packages, groups, and files refer to each other, no file is in  *)
(* two packages, and a file knows the package it is in.                    *)
OnePackagePerFile ==
  \A i \in DOMAIN referencedFiles : \A f \in referencedFiles[i] :
    packageId[f] = i

(* A file goes to "main" exactly when no package of the description names  *)
(* it or its group.                                                        *)
MainIsRemainder ==
  result = "ok" =>
    \A f \in Files :
      packageId[f] > Len(document.packages)
        <=> \A i \in DOMAIN document.packages :
              f \notin FilesOf(document.packages[i].references)

(* A build that succeeds leaves nothing out: the content of every file in  *)
(* the database is in a package, and the package is in the database.       *)
NothingLeftOut ==
  result = "ok" =>
    \A f \in rows :
      \E i \in DOMAIN chunks \cap DOMAIN packages : document.content[f] \in chunks[i]

(* A content is stored twice only where the description asks for it, with  *)
(* two files that are alike and belong to different packages; neither the  *)
(* order of the links nor a file reached by its Id and by its group makes  *)
(* a second copy.  Whoever installs from such packages gets the content    *)
(* twice and does not survive it (Staging!CutsExplained;                   *)
(* RepositoryBuilder.cpp:589-609, :1042-1072).                             *)
CopiesAreMeant ==
  \A i, j \in DOMAIN chunks : \A c \in chunks[i] \cap chunks[j] :
    i # j => \E f, h \in Files :
               /\ f # h
               /\ document.content[f] = c /\ packageId[f] = i
               /\ document.content[h] = c /\ packageId[h] = j

(* What the comment on "main" says of a file in a group, both with an Id   *)
(* and neither in another package: "main" links to it once, and goes on.   *)
LinkedOnce ==
  Len(packages) > Len(document.packages) => result # "asserted"
=============================================================================
