---------------------------- MODULE BuilderProofs ----------------------------
(***************************************************************************)
(* Proofs about Builder, for any descriptions: the types, that no file is  *)
(* in two packages, when a content is stored twice, that a build which     *)
(* succeeds leaves nothing out, and what "main" holds.                     *)
(***************************************************************************)
EXTENDS Builder, SequenceTheorems, WellFoundedInduction, TLAPS

-----------------------------------------------------------------------------
(* Sequences as functions on 1..n                                          *)

(* One element more.                                                       *)
LEMMA AppendOne ==
  ASSUME NEW S, NEW n \in Nat, NEW s \in [1..n -> S], NEW e \in S
  PROVE  /\ Append(s, e) \in [1..(n + 1) -> S]
         /\ \A i \in 1..n : Append(s, e)[i] = s[i]
         /\ Append(s, e)[n + 1] = e
<1>1. s \in Seq(S) /\ Len(s) = n
  OBVIOUS
<1>2. /\ Append(s, e) \in Seq(S)
      /\ Len(Append(s, e)) = n + 1
      /\ \A i \in 1..n : Append(s, e)[i] = s[i]
      /\ Append(s, e)[n + 1] = e
  BY <1>1, AppendProperties
<1> HIDE <1>1
<1>3. Append(s, e) \in [1..(n + 1) -> S]
  BY <1>2, LenProperties
<1> QED
  BY <1>2, <1>3

(* Fewer elements.                                                         *)
LEMMA Shorter ==
  ASSUME NEW S, NEW n \in Nat, NEW s \in [1..n -> S], NEW m \in 0..n
  PROVE  /\ SubSeq(s, 1, m) \in [1..m -> S]
         /\ \A i \in 1..m : SubSeq(s, 1, m)[i] = s[i]
<1>1. /\ SubSeq(s, 1, m) \in Seq(S)
      /\ Len(SubSeq(s, 1, m)) = (IF 1 <= m THEN m - 1 + 1 ELSE 0)
      /\ \A i \in 1..(m - 1 + 1) : SubSeq(s, 1, m)[i] = s[1 + i - 1]
  <2>1. 1 \in Int /\ m \in Int /\ \A i \in 1..m : s[i] \in S
    OBVIOUS
  <2> QED
    BY <2>1, SubSeqProperties
<1>2. Len(SubSeq(s, 1, m)) = m
  BY <1>1
<1>3. SubSeq(s, 1, m) \in [1..m -> S]
  BY <1>1, <1>2, LenProperties
<1>4. \A i \in 1..m : i \in 1..(m - 1 + 1) /\ 1 + i - 1 = i
  OBVIOUS
<1> QED
  BY <1>1, <1>3, <1>4

(* Sequences and functions on 1..n are the same.                           *)
LEMMA SequenceIsFunction ==
  ASSUME NEW S, NEW s \in Seq(S)
  PROVE  /\ Len(s) \in Nat /\ DOMAIN s = 1..Len(s)
         /\ s \in [1..Len(s) -> S]
  OBVIOUS

(* A set of numbers up to n has a largest one.                             *)
LEMMA LargestExists ==
  ASSUME NEW n \in Nat, NEW T, T \subseteq 1..n, T # {}
  PROVE  \E i \in T : \A j \in T : j <= i
<1> DEFINE U == {n - i : i \in T}
<1>1. U \subseteq Nat /\ U # {}
  <2>1. \A i \in T : n - i \in Nat
    OBVIOUS
  <2>2. PICK i \in T : TRUE
    OBVIOUS
  <2>3. n - i \in U
    OBVIOUS
  <2> QED
    BY <2>1, <2>3
<1> DEFINE R == OpToRel(<, Nat)
<1>2. \E x \in U : \A y \in U : ~ (<<y, x>> \in R)
  <2> HIDE DEF R, U
  <2>1. IsWellFoundedOn(R, Nat)
    BY NatLessThanWellFounded DEF R
  <2> QED
    BY <1>1, <2>1, WFMin
<1>3. \E x \in U : \A y \in U : ~ (y < x)
  <2>1. \A x, y \in U : y < x => <<y, x>> \in R
    BY <1>1 DEF OpToRel
  <2> HIDE DEF R, U
  <2> QED
    BY <1>2, <2>1
<1>4. PICK i \in T : \A y \in U : ~ (y < n - i)
  BY <1>3
<1>5. ASSUME NEW j \in T  PROVE j <= i
  <2>1. n - j \in U
    OBVIOUS
  <2>2. ~ (n - j < n - i)
    BY <1>4, <2>1
  <2>3. n \in Int /\ i \in Int /\ j \in Int
    OBVIOUS
  <2> HIDE DEF U, R
  <2> QED
    BY <2>2, <2>3
<1> QED
  BY <1>5

-----------------------------------------------------------------------------
(* Types, and the bond between files and packages                          *)

(* The links of a package are made before the phases that follow; a file   *)
(* with a package is in it, so an empty package is nobody's.               *)
Bond ==
  /\ OnePackagePerFile
  /\ \A f \in Files :
       packageId[f] # None => f \in referencedFiles[packageId[f]]
  /\ pc \in {"main", "trim", "linkFeatures", "files", "chunks"} => pending = {}

IInv == TypeOK /\ Bond

(* What a reference stands for are files.                                  *)
LEMMA LinksTyped ==
  ASSUME IsDocument(document), NEW i, NEW R, R \subseteq Objects
  PROVE  Links(i, R) \subseteq [source : {i}, object : Objects, file : Files]
<1>1. \A o \in R : Targets(o) \subseteq Files
  BY DEF IsDocument, Objects, Targets, Children
<1> QED
  BY <1>1 DEF Links

(* The invariant holds at first.                                           *)
LEMMA InitIInv == Init => IInv
<1> SUFFICES ASSUME Init PROVE IInv
  OBVIOUS
<1>1. IsDocument(document)
  BY BuilderAssumption DEF Init
<1>2. DOMAIN packages = {} /\ packages \in Seq(Names) /\ chunks \in Seq(SUBSET Contents)
  BY DEF Init
<1>3. referencedFiles \in [DOMAIN packages -> SUBSET Files]
  BY <1>2 DEF Init
<1>4. TypeOK
  BY <1>1, <1>2, <1>3 DEF Init, TypeOK, Labels, None
<1> QED
  BY <1>4, <1>2 DEF Init, IInv, Bond, OnePackagePerFile, None

(* Types depend on the description, which never changes.                   *)
LEMMA SameDocument ==
  ASSUME document' = document
  PROVE  /\ Objects' = Objects
         /\ IsDocument(document)' = IsDocument(document)
         /\ \A o : Targets(o)' = Targets(o)
  BY DEF Objects, IsDocument, Targets, Children

(* A step that leaves the packages and links alone.                        *)
LEMMA LinksUntouched ==
  ASSUME IInv, UNCHANGED <<document, debug, packages, links, featureId, rows, chunks>>,
         pc' \in Labels,
         pc' \in {"main", "trim", "linkFeatures", "files", "chunks"}
           => pending = {},
         result' \in {"running", "ok", "terminated", "asserted", "undefined"}
  PROVE  IInv'
<1>1. TypeOK'
  BY SameDocument DEF IInv, TypeOK, links
<1>2. Bond'
  BY DEF IInv, Bond, OnePackagePerFile, links
<1> QED
  BY <1>1, <1>2 DEF IInv

(* A new package, with the links its references stand for.                 *)
LEMMA StorePackageKeeps ==
  ASSUME IInv, NEW name \in Names, NEW R, R \subseteq Objects,
         pc \in {"packages", "main"}, StorePackage(name),
         pending' \subseteq pending \cup Links(Len(packages) + 1, R),
         unassigned' \subseteq unassigned,
         pc' \in {"packages", "linkMain"},
         UNCHANGED <<document, debug, packageId, output, result>>
  PROVE  IInv'
<1> DEFINE n == Len(packages)
<1>1. n \in Nat /\ DOMAIN packages = 1..n /\ packages \in Seq(Names)
  BY SequenceIsFunction DEF IInv, TypeOK
<1>2. packages' \in Seq(Names) /\ DOMAIN packages' = 1..(n + 1)
  BY <1>1 DEF StorePackage
<1>3. /\ referencedFiles' \in [1..(n + 1) -> SUBSET Files]
      /\ \A i \in 1..n : referencedFiles'[i] = referencedFiles[i]
      /\ referencedFiles'[n + 1] = {}
  <2>1. referencedFiles \in [1..n -> SUBSET Files]
    BY <1>1 DEF IInv, TypeOK
  <2>2. {} \in SUBSET Files
    OBVIOUS
  <2>3. /\ Append(referencedFiles, {}) \in [1..(n + 1) -> SUBSET Files]
        /\ \A i \in 1..n : Append(referencedFiles, {})[i] = referencedFiles[i]
        /\ Append(referencedFiles, {})[n + 1] = {}
    <3> DEFINE S == SUBSET Files
    <3> HIDE DEF S, n
    <3>1. n \in Nat /\ referencedFiles \in [1..n -> S] /\ {} \in S
      BY <1>1, <2>1, <2>2 DEF S
    <3>2. Append(referencedFiles, {}) \in [1..(n + 1) -> S]
      BY <3>1, AppendOne
    <3>3. \A i \in 1..n : Append(referencedFiles, {})[i] = referencedFiles[i]
      BY <3>1, AppendOne
    <3>4. Append(referencedFiles, {})[n + 1] = {}
      BY <3>1, AppendOne
    <3> QED
      BY <3>2, <3>3, <3>4 DEF S
  <2> QED
    BY <2>3 DEF StorePackage
<1>4. pending' \subseteq [source : DOMAIN packages', object : Objects', file : Files]
  <2>1. Links(n + 1, R) \subseteq [source : {n + 1}, object : Objects, file : Files]
    BY LinksTyped DEF IInv, TypeOK
  <2>2. pending \subseteq [source : 1..n, object : Objects, file : Files]
    BY <1>1 DEF IInv, TypeOK
  <2>3. Objects' = Objects
    BY SameDocument
  <2>4. {n + 1} \subseteq DOMAIN packages' /\ 1..n \subseteq DOMAIN packages'
    BY <1>1, <1>2
  <2> QED
    BY <2>1, <2>2, <2>3, <2>4
<1>5. packageId' \in [Files -> DOMAIN packages' \cup {None}]
  BY <1>1, <1>2 DEF IInv, TypeOK
<1>6. TypeOK'
  BY <1>2, <1>3, <1>4, <1>5, SameDocument DEF IInv, TypeOK, Labels, output
<1>7. Bond'
  <2>1. packageId' = packageId /\ packageId \in [Files -> (1..n) \cup {None}]
    BY <1>1 DEF IInv, TypeOK
  <2>2. OnePackagePerFile'
    BY <1>3, <1>1, <2>1 DEF IInv, TypeOK, Bond, OnePackagePerFile
  <2>3. \A f \in Files : packageId'[f] # None => f \in referencedFiles'[packageId'[f]]
    BY <1>3, <2>1 DEF IInv, Bond, None
  <2> QED
    BY <2>2, <2>3 DEF Bond
<1> QED
  BY <1>6, <1>7 DEF IInv

(* A link: the first package keeps the file.                               *)
LEMMA LinkPackageKeeps == ASSUME IInv, LinkPackage PROVE IInv'
<1>1. PICK l \in NextLinks :
        /\ pending' = pending \ {l}
        /\ AddLink(l)
        /\ IF debug /\ packageId[l.file] = l.source
             THEN Stop("asserted") ELSE UNCHANGED <<pc, result>>
  BY DEF LinkPackage
<1>2. l.source \in DOMAIN packages /\ l.file \in Files /\ l \in pending
  BY DEF NextLinks, IInv, TypeOK
<1>3. DOMAIN packages = 1..Len(packages) /\ Len(packages) \in Nat
  BY SequenceIsFunction DEF IInv, TypeOK
<1>4. UNCHANGED <<document, debug, packages, unassigned, output>>
  BY DEF LinkPackage
<1>5. /\ pc' \in {"link", "linkMain", "done"}
      /\ result' \in {"running", "ok", "terminated", "asserted", "undefined"}
  BY <1>1 DEF LinkPackage, Stop, Goto, IInv, TypeOK
<1>6. /\ referencedFiles \in [DOMAIN packages -> SUBSET Files]
      /\ packageId \in [Files -> DOMAIN packages \cup {None}]
      /\ \A i \in DOMAIN packages : \A f \in referencedFiles[i] : packageId[f] = i
      /\ \A f \in Files :
           packageId[f] # None => f \in referencedFiles[packageId[f]]
  BY DEF IInv, TypeOK, Bond, OnePackagePerFile
<1>7. /\ referencedFiles' \in [DOMAIN packages -> SUBSET Files]
      /\ packageId' \in [Files -> DOMAIN packages \cup {None}]
      /\ \A i \in DOMAIN packages : \A f \in referencedFiles'[i] : packageId'[f] = i
      /\ \A f \in Files :
           packageId'[f] # None => f \in referencedFiles'[packageId'[f]]
  <2>1. CASE packageId[l.file] # None
    BY <1>1, <1>6, <2>1 DEF AddLink
  <2>2. CASE packageId[l.file] = None
    <3>1. /\ referencedFiles' =
               [referencedFiles EXCEPT ![l.source] = @ \cup {l.file}]
          /\ packageId' = [packageId EXCEPT ![l.file] = l.source]
      BY <1>1, <2>2 DEF AddLink
    <3>2. \A i \in DOMAIN packages : referencedFiles'[i] =
            IF i = l.source THEN referencedFiles[i] \cup {l.file} ELSE referencedFiles[i]
      BY <1>2, <1>6, <3>1
    <3>3. \A f \in Files : packageId'[f] = IF f = l.file THEN l.source ELSE packageId[f]
      BY <1>2, <1>6, <3>1
    <3>4. /\ referencedFiles' \in [DOMAIN packages -> SUBSET Files]
          /\ packageId' \in [Files -> DOMAIN packages \cup {None}]
      BY <1>2, <1>6, <3>1
    <3>5. None \notin DOMAIN packages
      BY <1>3 DEF None
    <3>6. l.file \notin UNION {referencedFiles[i] : i \in DOMAIN packages}
      BY <1>6, <2>2, <3>5
    <3> QED
      BY <1>2, <1>6, <3>2, <3>3, <3>4, <3>6
  <2> QED
    BY <2>1, <2>2
<1>8. TypeOK'
  BY <1>1, <1>4, <1>5, <1>7, SameDocument DEF IInv, TypeOK, Labels, output
<1> QED
  BY <1>4, <1>5, <1>7, <1>8 DEF IInv, Bond, OnePackagePerFile

(* Only an empty package goes, so no file loses its own.                   *)
LEMMA TrimKeeps == ASSUME IInv, TrimPackages PROVE IInv'
<1> DEFINE n == Len(packages)
<1>1. n \in Nat /\ DOMAIN packages = 1..n /\ packages \in [1..n -> Names]
      /\ referencedFiles \in [1..n -> SUBSET Files]
      /\ packageId \in [Files -> (1..n) \cup {None}]
  <2>1. packages \in Seq(Names)
    BY DEF IInv, TypeOK
  <2>2. n \in Nat /\ DOMAIN packages = 1..n /\ packages \in [1..n -> Names]
    BY <2>1, SequenceIsFunction
  <2> QED
    BY <2>2 DEF IInv, TypeOK
<1>2. /\ \A i \in 1..n : \A f \in referencedFiles[i] : packageId[f] = i
      /\ \A f \in Files :
           packageId[f] # None => f \in referencedFiles[packageId[f]]
  BY <1>1 DEF IInv, Bond, OnePackagePerFile
<1>3. pc = "trim" /\ pending = {} /\ pending' = {} /\ packageId' = packageId
      /\ UNCHANGED <<document, debug, unassigned, output>>
  BY DEF TrimPackages, IInv, Bond
<1>4. CASE packages = <<>>
  BY <1>3, <1>4, LinksUntouched
  DEF TrimPackages, Stop, Goto, Labels, links, output
<1>5. CASE packages # <<>>
  <2>1. n > 0
    BY <1>1, <1>5
  <2>2. PICK m \in {n - 1, n} :
          /\ packages' = SubSeq(packages, 1, m)
          /\ referencedFiles' = SubSeq(referencedFiles, 1, m)
          /\ m = n - 1 => referencedFiles[n] = {}
    <3>1. CASE referencedFiles[n] = {}
      BY <1>5, <3>1 DEF TrimPackages
    <3>2. CASE referencedFiles[n] # {}
      <4>1. n # n - 1
        <5> HIDE DEF n
        <5>1. n \in Nat
          BY <1>1
        <5> QED
          BY <5>1
      <4> QED
        BY <1>5, <3>2, <4>1 DEF TrimPackages
    <3> QED
      BY <3>1, <3>2
  <2>3. m \in 0..n
    <3> HIDE DEF n
    <3>1. n \in Nat /\ n > 0
      BY <1>1, <2>1
    <3> QED
      BY <3>1
  <2>4. packages' \in [1..m -> Names] /\ packages' \in Seq(Names) /\ DOMAIN packages' = 1..m
    <3> HIDE DEF n
    <3>1. n \in Nat /\ packages \in [1..n -> Names] /\ m \in Nat
      BY <1>1, <2>3
    <3>2. SubSeq(packages, 1, m) \in [1..m -> Names]
      BY <3>1, <2>3, Shorter
    <3>3. SubSeq(packages, 1, m) \in Seq(Names)
      BY <3>1, <3>2
    <3> QED
      BY <2>2, <3>2, <3>3
  <2>5. /\ referencedFiles' \in [1..m -> SUBSET Files]
        /\ \A i \in 1..m : referencedFiles'[i] = referencedFiles[i]
    <3> DEFINE S == SUBSET Files
    <3> HIDE DEF S, n
    <3>1. n \in Nat /\ referencedFiles \in [1..n -> S]
      BY <1>1 DEF S
    <3>2. /\ SubSeq(referencedFiles, 1, m) \in [1..m -> S]
          /\ \A i \in 1..m : SubSeq(referencedFiles, 1, m)[i] = referencedFiles[i]
      BY <2>3, <3>1, Shorter
    <3> QED
      BY <2>2, <3>2 DEF S
  <2>6. \A f \in Files : packageId[f] # None => packageId[f] \in 1..m
    <3> SUFFICES ASSUME NEW f \in Files, packageId[f] # None
                 PROVE  packageId[f] \in 1..m
      OBVIOUS
    <3>1. packageId[f] \in 1..n /\ f \in referencedFiles[packageId[f]]
      BY <1>1, <1>2
    <3>2. m = n - 1 => packageId[f] # n
      BY <2>2, <3>1
    <3> HIDE DEF n
    <3>3. n \in Nat
      BY <1>1
    <3> QED
      BY <3>1, <3>2, <3>3
  <2>7. packageId' \in [Files -> (1..m) \cup {None}]
    BY <1>1, <1>3, <2>6
  <2>8. pc' = "linkFeatures" /\ result' = result
    BY <1>5 DEF TrimPackages, Goto
  <2>9. TypeOK'
    BY <1>3, <2>4, <2>5, <2>7, <2>8, SameDocument DEF IInv, TypeOK, Labels, output
  <2>10. OnePackagePerFile'
    <3>1. DOMAIN referencedFiles' = 1..m
      BY <2>5
    <3>2. 1..m \subseteq 1..n
      <4> HIDE DEF n
      <4>1. n \in Nat
        BY <1>1
      <4> QED
        BY <2>3, <4>1
    <3> QED
      BY <1>2, <1>3, <2>5, <3>1, <3>2 DEF OnePackagePerFile
  <2>11. \A f \in Files : packageId'[f] # None => f \in referencedFiles'[packageId'[f]]
    BY <1>2, <1>3, <2>5, <2>6
  <2> QED
    BY <1>3, <2>9, <2>10, <2>11 DEF IInv, Bond
<1> QED
  BY <1>4, <1>5

(* A step that touches neither packages nor links.                         *)
LEMMA OutputKeeps ==
  ASSUME IInv, LinkFeatures \/ StoreFile \/ WritePackage
  PROVE  IInv'
<1>1. /\ UNCHANGED <<document, debug, packages, links>>
      /\ pc \in {"linkFeatures", "files", "chunks"}
      /\ pc' \in {"files", "chunks", "done"}
      /\ result' \in {"running", "ok", "terminated", "asserted", "undefined"}
  BY DEF LinkFeatures, StoreFile, WritePackage, Goto, Stop, Terminate, IInv, TypeOK
<1>2. featureId' \in [Files -> DOMAIN document.features \cup {None}]
  <2>1. CASE LinkFeatures
    <3>1. \A f \in Files : Owners(f) # {} =>
            (CHOOSE i \in Owners(f) : \A j \in Owners(f) : j <= i) \in DOMAIN document.features
      <4> SUFFICES ASSUME NEW f \in Files, Owners(f) # {}
                   PROVE  \E i \in Owners(f) : \A j \in Owners(f) : j <= i
        BY DEF Owners
      <4> DEFINE n == Len(document.features)
      <4>1. n \in Nat /\ Owners(f) \subseteq 1..n
        BY SequenceIsFunction DEF IInv, TypeOK, IsDocument, Owners
      <4> QED
        BY <4>1, LargestExists
    <3> QED
      BY <2>1, <3>1 DEF LinkFeatures
  <2>2. CASE StoreFile \/ WritePackage
    BY <2>2 DEF StoreFile, WritePackage, IInv, TypeOK
  <2> QED
    BY <2>1, <2>2
<1>3. rows' \subseteq Files
  BY DEF LinkFeatures, StoreFile, WritePackage, IInv, TypeOK
<1>4. chunks' \in Seq(SUBSET Contents)
  <2>1. \A i : UniqueContents(i) \in SUBSET Contents \/ i \notin DOMAIN packages
    BY DEF UniqueContents, IInv, TypeOK, IsDocument
  <2>2. chunks \in Seq(SUBSET Contents)
    BY DEF IInv, TypeOK
  <2>3. CASE WritePackage
    <3>1. PICK written \in SUBSET Contents : chunks' = Append(chunks, written)
      BY <2>1, <2>3 DEF WritePackage
    <3> QED
      BY <2>2, <3>1
  <2> QED
    BY <2>2, <2>3 DEF LinkFeatures, StoreFile
<1>5. TypeOK'
  BY <1>1, <1>2, <1>3, <1>4, SameDocument DEF IInv, TypeOK, Labels, links
<1>6. Bond'
  BY <1>1 DEF IInv, Bond, OnePackagePerFile, links
<1> QED
  BY <1>5, <1>6 DEF IInv

(* A package of the description, or an end with a name in use.             *)
LEMMA CreatePackageKeeps == ASSUME IInv, CreatePackage PROVE IInv'
<1> DEFINE next == Len(packages) + 1
           package == document.packages[next]
           known == package.references \cap Objects
<1>1. CASE NameTaken(package.name)
  BY <1>1, LinksUntouched DEF NameTaken, Stop, Terminate, Goto, Labels, output
<1>2. CASE /\ StorePackage(package.name)
           /\ pending' = pending \cup Links(next, known)
           /\ unassigned' = unassigned \ Assigned(known)
           /\ UNCHANGED <<document, debug, pc, packageId, output, result>>
  <2>1. package \in [name : Names, references : SUBSET (Files \cup Groups)]
    <3>1. next \in DOMAIN document.packages
      BY DEF CreatePackage
    <3>2. document.packages \in Seq([name : Names, references : SUBSET (Files \cup Groups)])
      BY DEF IInv, TypeOK, IsDocument
    <3>3. \A T : document.packages \in Seq(T)
                    => \A i \in DOMAIN document.packages : document.packages[i] \in T
      BY ElementOfSeq, LenProperties
    <3> HIDE DEF next
    <3> QED
      BY <3>1, <3>2, <3>3
  <2>2. package.name \in Names /\ known \subseteq Objects
    BY <2>1
  <2>3. pc = "packages" /\ pc' = "packages"
    BY <1>2 DEF CreatePackage
  <2> HIDE DEF known, package
  <2> QED
    BY <1>2, <2>2, <2>3, StorePackageKeeps
<1> QED
  BY <1>1, <1>2 DEF CreatePackage

(* The package "main", none, or an end.                                    *)
LEMMA CreateMainKeeps == ASSUME IInv, CreateMain PROVE IInv'
<1>1. pc = "main" /\ pending = {}
  BY DEF CreateMain, IInv, Bond
<1>2. CASE /\ Goto("trim")
           /\ UNCHANGED <<document, debug, packages, links, output, result>>
  BY <1>1, <1>2, LinksUntouched DEF Goto, Labels, IInv, TypeOK, output
<1>3. CASE NameTaken(Main)
  BY <1>3, LinksUntouched DEF NameTaken, Stop, Terminate, Goto, Labels, output
<1>4. CASE /\ StorePackage(Main)
           /\ pending' = Links(Len(packages) + 1, unassigned)
           /\ Goto("linkMain")
           /\ UNCHANGED <<document, debug, unassigned, packageId, output, result>>
  <2>1. Main \in Names /\ unassigned \subseteq Objects
    BY BuilderAssumption DEF IInv, TypeOK
  <2>2. pc' = "linkMain"
    BY <1>4 DEF Goto
  <2> QED
    BY <1>1, <1>4, <2>1, <2>2, StorePackageKeeps
<1> QED
  BY <1>2, <1>3, <1>4 DEF CreateMain

(* Every step keeps the invariant.                                         *)
LEMMA NextIInv == IInv /\ [Next]_vars => IInv'
<1> SUFFICES ASSUME IInv, [Next]_vars PROVE IInv'
  OBVIOUS
<1>1. CASE CreateFeatures
  BY <1>1, LinksUntouched
  DEF CreateFeatures, Goto, Stop, Terminate, Labels, IInv, TypeOK, output
<1>2. CASE CreatePackage
  BY <1>2, CreatePackageKeeps
<1>3. CASE PackagesCreated
  BY <1>3, LinksUntouched
  DEF PackagesCreated, Goto, Labels, IInv, TypeOK, output
<1>4. CASE LinkPackage
  BY <1>4, LinkPackageKeeps
<1>5. CASE PackagesLinked
  BY <1>5, LinksUntouched
  DEF PackagesLinked, Goto, Labels, IInv, TypeOK, output
<1>6. CASE CreateMain
  BY <1>6, CreateMainKeeps
<1>7. CASE TrimPackages
  BY <1>7, TrimKeeps
<1>8. CASE LinkFeatures \/ StoreFile \/ WritePackage
  BY <1>8, OutputKeeps
<1>9. CASE FilesStored
  BY <1>9, LinksUntouched
  DEF FilesStored, Goto, Labels, IInv, TypeOK, Bond, output
<1>10. CASE Finish
  BY <1>10, LinksUntouched
  DEF Finish, Stop, Goto, Labels, IInv, TypeOK, output
<1>11. CASE Finished \/ UNCHANGED vars
  BY <1>11, LinksUntouched
  DEF Finished, vars, Labels, IInv, TypeOK, Bond, output
<1> QED
  BY <1>1, <1>2, <1>3, <1>4, <1>5, <1>6, <1>7, <1>8, <1>9, <1>10, <1>11 DEF Next

(* Types are correct whatever the description: also after an empty package *)
(* has gone, no file names a package that is not there.                    *)
THEOREM TypeCorrect == Spec => []TypeOK
<1>1. IInv => TypeOK
  BY DEF IInv
<1> QED
  BY InitIInv, NextIInv, <1>1, PTL DEF Spec

(* However packages, groups, and files refer to each other, Package and    *)
(* File agree on the one package a file is in.                             *)
THEOREM OnePackageCorrect == Spec => []OnePackagePerFile
<1>1. IInv => OnePackagePerFile
  BY DEF IInv, Bond
<1> QED
  BY InitIInv, NextIInv, <1>1, PTL DEF Spec

-----------------------------------------------------------------------------
(* The rows of the database                                                *)

Early == {"features", "packages", "link", "main", "linkMain", "trim",
          "linkFeatures"}

(* Rows are stored with the features of the files settled.                 *)
RowsInv ==
  /\ \A f \in rows : featureId[f] \in DOMAIN document.features
  /\ pc \in Early => rows = {}

LEMMA NextRowsInv == IInv /\ RowsInv /\ [Next]_vars => RowsInv'
<1> SUFFICES ASSUME IInv, RowsInv, [Next]_vars PROVE RowsInv'
  OBVIOUS
<1>1. CASE LinkFeatures
  BY <1>1 DEF LinkFeatures, RowsInv, Early, Goto
<1>2. CASE StoreFile
  <2>1. UNCHANGED <<document, featureId>> /\ pc = "files" /\ pc' \notin Early
    BY <1>2 DEF StoreFile, Stop, Terminate, Goto, Early
  <2>2. PICK f \in Files \ rows :
          rows' = rows \/ (Storable(f) /\ rows' = rows \cup {f})
    BY <1>2 DEF StoreFile
  <2>3. Storable(f) => featureId[f] \in DOMAIN document.features
    BY DEF Storable, IInv, TypeOK
  <2> QED
    BY <2>1, <2>2, <2>3 DEF Storable, RowsInv
<1>3. CASE /\ UNCHANGED <<document, featureId, rows>>
           /\ pc' \in Early => pc \in Early
  BY <1>3 DEF RowsInv
<1>4. CASE \/ CreateFeatures \/ CreatePackage \/ PackagesCreated \/ LinkPackage
           \/ PackagesLinked \/ CreateMain \/ TrimPackages
  <2>1. UNCHANGED <<document, featureId, rows>> /\ pc \in Early
    BY <1>4 DEF CreateFeatures, CreatePackage, NameTaken, PackagesCreated, LinkPackage,
       PackagesLinked, CreateMain, TrimPackages, output, Early
  <2> QED
    BY <2>1, <1>3
<1>5. CASE FilesStored \/ WritePackage \/ Finish \/ Finished \/ UNCHANGED vars
  <2>1. UNCHANGED <<document, featureId, rows>> /\ (pc' \in Early => pc \in Early)
    BY <1>5 DEF FilesStored, WritePackage, Finish, Finished, vars, output, Early,
       Goto, Stop
  <2> QED
    BY <2>1, <1>3
<1> QED
  BY <1>1, <1>2, <1>4, <1>5 DEF Next

-----------------------------------------------------------------------------
(* Every file finds its package                                            *)

(* The file is in a package, or has a link that waits.                     *)
Placed(f) == packageId[f] # None \/ \E l \in pending : l.file = f

AllPlaced(objects) == \A o \in objects : \A f \in Targets(o) : Placed(f)

(* What has been assigned is placed, and from "main" on everything.        *)
PlacedInv ==
  /\ AllPlaced(Objects \ unassigned)
  /\ pc \in {"linkMain", "trim", "linkFeatures", "files", "chunks"} \/ result = "ok"
       => AllPlaced(Objects)

(* A file with a feature is referenced.                                    *)
OwnedInv ==
  \A f \in Files : featureId[f] # None => \E o \in Objects : f \in Targets(o)

(* Packages are written as they are when the links have been made.         *)
WrittenInv ==
  /\ pc # "done" => result = "running"
  /\ pc \notin {"chunks", "done"} => chunks = <<>>
  /\ result = "ok" => pending = {} /\ Len(chunks) = Len(packages)
  /\ \A i \in DOMAIN chunks : i \in DOMAIN packages /\ chunks[i] = UniqueContents(i)

(* A link of a group's child or of a file waits for every file the         *)
(* references stand for.                                                   *)
LEMMA LinksPlace ==
  ASSUME NEW i, NEW R, NEW o \in R, NEW f \in Targets(o)
  PROVE  \E l \in Links(i, R) : l.file = f
<1>1. [source |-> i, object |-> o, file |-> f] \in Links(i, R)
  BY DEF Links
<1> QED
  BY <1>1

(* A package that has been described places what it refers to.             *)
LEMMA StorePackagePlaces ==
  ASSUME PlacedInv, NEW i, NEW R,
         pending \cup Links(i, R) \subseteq pending',
         unassigned \ R \subseteq unassigned',
         UNCHANGED <<document, packageId>>
  PROVE  /\ AllPlaced(Objects \ unassigned)'
         /\ unassigned \subseteq R => AllPlaced(Objects)'
<1>1. ASSUME NEW o \in R PROVE \A f \in Targets(o) : Placed(f)'
  BY <1>1, LinksPlace DEF Placed
<1>2. ASSUME NEW o \in Objects \ unassigned PROVE \A f \in Targets(o) : Placed(f)'
  BY <1>2 DEF PlacedInv, AllPlaced, Placed
<1> QED
  BY <1>1, <1>2, SameDocument DEF AllPlaced

(* The description is the one the build has started with.                 *)
LEMMA DocumentKept == ASSUME [Next]_vars PROVE document' = document
  BY DEF Next, vars, CreateFeatures, CreatePackage, NameTaken, PackagesCreated,
     LinkPackage, PackagesLinked, CreateMain, TrimPackages, LinkFeatures, StoreFile,
     FilesStored, WritePackage, Finish, Finished

(* A link that is taken leaves its file in a package.                      *)
LEMMA LinkPackagePlaces ==
  ASSUME IInv, LinkPackage, NEW f \in Files, Placed(f)
  PROVE  Placed(f)'
<1>1. PICK l \in NextLinks : pending' = pending \ {l} /\ AddLink(l)
  BY DEF LinkPackage
<1>2. l.source \in DOMAIN packages /\ l.file \in Files
  BY DEF NextLinks, IInv, TypeOK
<1>3. l.source # None
  <2>1. packages \in Seq(Names)
    BY DEF IInv, TypeOK
  <2> QED
    BY <1>2, <2>1 DEF None
<1>4. packageId \in [Files -> DOMAIN packages \cup {None}]
  BY DEF IInv, TypeOK
<1>5. packageId'[l.file] # None /\ (packageId[f] # None => packageId'[f] # None)
  <2>1. CASE packageId[l.file] = None
    BY <1>1, <1>2, <1>3, <1>4, <2>1 DEF AddLink
  <2>2. CASE packageId[l.file] # None
    BY <1>1, <2>2 DEF AddLink
  <2> QED
    BY <2>1, <2>2
<1> QED
  BY <1>1, <1>5 DEF Placed

(* Every step keeps files placed.                                          *)
LEMMA NextPlacedInv == IInv /\ PlacedInv /\ WrittenInv /\ [Next]_vars => PlacedInv'
<1> SUFFICES ASSUME IInv, PlacedInv, WrittenInv, [Next]_vars PROVE PlacedInv'
  OBVIOUS
<1> DEFINE Late == {"linkMain", "trim", "linkFeatures", "files", "chunks"}
<1>1. Objects' = Objects /\ \A o : Targets(o)' = Targets(o)
  BY DocumentKept, SameDocument
<1>2. CASE /\ UNCHANGED <<unassigned, packageId, pending>>
           /\ pc' \in Late \/ result' = "ok" => pc \in Late \/ result = "ok"
  BY <1>1, <1>2 DEF PlacedInv, AllPlaced, Placed
<1>3. CASE LinkPackage
  <2>1. /\ unassigned' = unassigned
        /\ pc' \in Late \/ result' = "ok" => pc \in Late \/ result = "ok"
    BY <1>3 DEF LinkPackage, Stop, Goto
  <2>2. \A o \in Objects : Targets(o) \subseteq Files
    BY DEF IInv, TypeOK, IsDocument, Objects, Targets, Children
  <2>3. \A f \in Files : Placed(f) => Placed(f)'
    BY <1>3, LinkPackagePlaces
  <2> QED
    BY <1>1, <2>1, <2>2, <2>3 DEF PlacedInv, AllPlaced
<1>4. CASE CreatePackage
  <2> DEFINE next == Len(packages) + 1
             package == document.packages[next]
             known == package.references \cap Objects
  <2>1. CASE NameTaken(package.name)
    BY <1>2, <2>1 DEF NameTaken, Stop, Terminate, Goto, links
  <2>2. CASE /\ pending' = pending \cup Links(next, known)
             /\ unassigned' = unassigned \ Assigned(known)
             /\ UNCHANGED <<document, debug, pc, packageId, output, result>>
    <3>1. pc' = "packages" /\ result' = "running"
      BY <1>4, <2>2 DEF CreatePackage, WrittenInv
    <3> HIDE DEF known
    <3>2. AllPlaced(Objects \ unassigned)'
      BY <2>2, StorePackagePlaces DEF Assigned
    <3> QED
      BY <3>1, <3>2 DEF PlacedInv
  <2> QED
    BY <1>4, <2>1, <2>2 DEF CreatePackage
<1>5. CASE CreateMain
  <2>1. pc = "main" /\ pending = {} /\ result = "running"
    BY <1>5 DEF CreateMain, IInv, Bond, WrittenInv
  <2>2. CASE NameTaken(Main)
    BY <1>2, <2>2 DEF NameTaken, Stop, Terminate, Goto, links
  <2>3. CASE /\ unassigned = {}
             /\ UNCHANGED <<document, links>>
    BY <1>1, <2>3 DEF PlacedInv, AllPlaced, Placed, links
  <2>4. CASE /\ pending' = Links(Len(packages) + 1, unassigned)
             /\ UNCHANGED <<document, unassigned, packageId>>
    BY <2>1, <2>4, StorePackagePlaces DEF PlacedInv
  <2> QED
    BY <1>5, <2>2, <2>3, <2>4 DEF CreateMain
<1>6. CASE CreateFeatures \/ PackagesCreated \/ PackagesLinked
  <2>1. UNCHANGED <<unassigned, packageId, pending>>
    BY <1>6 DEF CreateFeatures, PackagesCreated, PackagesLinked, links
  <2>2. pc' \in Late \/ result' = "ok" => pc \in Late \/ result = "ok"
    BY <1>6 DEF CreateFeatures, PackagesCreated, PackagesLinked, Stop, Terminate, Goto
  <2> QED
    BY <1>2, <2>1, <2>2
<1>7. CASE TrimPackages \/ LinkFeatures \/ StoreFile \/ FilesStored \/ WritePackage \/ Finish
  <2>1. UNCHANGED <<unassigned, packageId, pending>> /\ pc \in Late
    BY <1>7 DEF TrimPackages, LinkFeatures, StoreFile, FilesStored, WritePackage,
       Finish, links
  <2> QED
    BY <1>2, <2>1
<1>8. CASE Finished \/ UNCHANGED vars
  BY <1>2, <1>8 DEF Finished, vars, links
<1> QED
  BY <1>3, <1>4, <1>5, <1>6, <1>7, <1>8 DEF Next

(* Only a feature with a reference that stands for the file gets it.       *)
LEMMA NextOwnedInv == OwnedInv /\ [Next]_vars => OwnedInv'
<1> SUFFICES ASSUME OwnedInv, [Next]_vars PROVE OwnedInv'
  OBVIOUS
<1>1. Objects' = Objects /\ \A o : Targets(o)' = Targets(o)
  BY DocumentKept, SameDocument
<1>2. CASE LinkFeatures
  <2> SUFFICES ASSUME NEW f \in Files, featureId'[f] # None
               PROVE  \E o \in Objects : f \in Targets(o)
    BY <1>1 DEF OwnedInv
  <2>1. Owners(f) # {}
    BY <1>2 DEF LinkFeatures
  <2> QED
    BY <2>1 DEF Owners, FilesOf
<1>3. CASE featureId' = featureId
  BY <1>1, <1>3 DEF OwnedInv
<1>4. featureId' = featureId \/ LinkFeatures
  BY DEF Next, vars, output, CreateFeatures, CreatePackage, NameTaken, PackagesCreated,
     LinkPackage, PackagesLinked, CreateMain, TrimPackages, StoreFile, FilesStored,
     WritePackage, Finish, Finished
<1> QED
  BY <1>2, <1>3, <1>4

(* Every step keeps what is written in step with the packages.             *)
LEMMA NextWrittenInv == IInv /\ WrittenInv /\ [Next]_vars => WrittenInv'
<1> SUFFICES ASSUME IInv, WrittenInv, [Next]_vars PROVE WrittenInv'
  OBVIOUS
<1>1. CASE WritePackage
  <2> DEFINE next == Len(chunks) + 1
  <2>1. /\ pc = "chunks" /\ pc' = pc /\ result' = result
        /\ chunks' = Append(chunks, UniqueContents(next))
    BY <1>1 DEF WritePackage
  <2>2. \A i : UniqueContents(i)' = UniqueContents(i)
    BY <1>1 DEF WritePackage, UniqueContents, links
  <2>3. chunks \in Seq(SUBSET Contents) /\ UniqueContents(next) \in SUBSET Contents
    BY <1>1 DEF WritePackage, UniqueContents, IInv, TypeOK, IsDocument
  <2>4. DOMAIN chunks = 1..Len(chunks) /\ Len(chunks) \in Nat
    BY <2>3, LenProperties
  <2>5. DOMAIN chunks' = 1..next
    BY <2>1, <2>3
  <2>6. next \in DOMAIN packages /\ packages' = packages
    BY <1>1 DEF WritePackage
  <2>7. ASSUME NEW i \in 1..next PROVE i \in DOMAIN packages /\ chunks'[i] = UniqueContents(i)
    <3>1. CASE i = next
      BY <2>1, <2>3, <2>6, <3>1, AppendProperties
    <3>2. CASE i # next
      <4>1. i \in 1..Len(chunks)
        BY <2>4, <2>7, <3>2
      <4>2. chunks'[i] = chunks[i]
        BY <2>1, <2>3, <4>1, AppendProperties
      <4> QED
        BY <2>4, <4>1, <4>2 DEF WrittenInv
    <3> QED
      BY <3>1, <3>2
  <2> QED
    BY <2>1, <2>2, <2>5, <2>6, <2>7 DEF WrittenInv
<1>2. CASE Finish
  BY <1>2 DEF Finish, Stop, Goto, links, output, UniqueContents, WrittenInv, IInv, Bond
<1>3. CASE FilesStored
  BY <1>3 DEF FilesStored, Goto, links, output, UniqueContents, WrittenInv
<1>4. CASE /\ pc \notin {"chunks", "done"} /\ chunks' = chunks
           /\ pc' # "done" => result' = "running"
           /\ result' # "ok"
  BY <1>4 DEF WrittenInv
<1>5. CASE \/ CreateFeatures \/ CreatePackage \/ PackagesCreated \/ LinkPackage
           \/ PackagesLinked \/ CreateMain \/ TrimPackages \/ LinkFeatures
           \/ StoreFile
  <2>1. pc \notin {"chunks", "done"} /\ chunks' = chunks
    BY <1>5 DEF CreateFeatures, CreatePackage, NameTaken, PackagesCreated, LinkPackage,
       PackagesLinked, CreateMain, TrimPackages, LinkFeatures, StoreFile, output
  <2>2. result = "running"
    BY <2>1 DEF WrittenInv
  <2>3. (pc' # "done" => result' = "running") /\ result' # "ok"
    BY <1>5, <2>2 DEF CreateFeatures, CreatePackage, NameTaken, PackagesCreated,
       LinkPackage, PackagesLinked, CreateMain, TrimPackages, LinkFeatures, StoreFile,
       Stop, Terminate, Goto
  <2> QED
    BY <1>4, <2>1, <2>3
<1>6. CASE Finished \/ UNCHANGED vars
  BY <1>6 DEF Finished, vars, links, output, UniqueContents, WrittenInv
<1> QED
  BY <1>1, <1>2, <1>3, <1>5, <1>6 DEF Next

(* A build that succeeds leaves nothing out: no file is in the database    *)
(* whose content Persist has not written to a package in the database.     *)
THEOREM NothingLeftOutCorrect == Spec => []NothingLeftOut
<1> DEFINE Inv == IInv /\ RowsInv /\ PlacedInv /\ OwnedInv /\ WrittenInv
<1>1. Init => Inv
  <2> SUFFICES ASSUME Init PROVE Inv
    OBVIOUS
  <2>1. RowsInv /\ PlacedInv /\ OwnedInv
    BY DEF Init, RowsInv, PlacedInv, AllPlaced, OwnedInv
  <2>2. WrittenInv
    BY DEF Init, WrittenInv
  <2> QED
    BY <2>1, <2>2, InitIInv
<1>2. Inv /\ [Next]_vars => Inv'
  BY NextIInv, NextRowsInv, NextPlacedInv, NextOwnedInv, NextWrittenInv
<1>3. Inv => NothingLeftOut
  <2> SUFFICES ASSUME Inv, result = "ok", NEW f \in rows
               PROVE  \E i \in DOMAIN chunks \cap DOMAIN packages :
                        document.content[f] \in chunks[i]
    BY DEF NothingLeftOut
  <2>1. f \in Files /\ featureId[f] # None
    <3>1. f \in Files /\ featureId[f] \in DOMAIN document.features
      BY DEF IInv, TypeOK, RowsInv
    <3>2. document.features \in Seq([parent : Nat, requires : SUBSET Nat,
                                     references : SUBSET (Files \cup Groups)])
      BY DEF IInv, TypeOK, IsDocument
    <3>3. None \notin DOMAIN document.features
      BY <3>2, SequenceIsFunction DEF None
    <3> QED
      BY <3>1, <3>3
  <2>2. Placed(f) /\ pending = {}
    BY <2>1 DEF OwnedInv, PlacedInv, AllPlaced, WrittenInv
  <2>3. packageId[f] # None
    BY <2>2 DEF Placed
  <2>4. packageId[f] \in DOMAIN packages /\ f \in referencedFiles[packageId[f]]
    BY <2>1, <2>3 DEF IInv, TypeOK, Bond
  <2>5. DOMAIN chunks = DOMAIN packages
    <3>1. DOMAIN chunks = 1..Len(chunks) /\ DOMAIN packages = 1..Len(packages)
      BY LenProperties DEF IInv, TypeOK
    <3> QED
      BY <3>1 DEF WrittenInv
  <2>6. document.content[f] \in chunks[packageId[f]]
    BY <2>4, <2>5 DEF WrittenInv, UniqueContents
  <2> QED
    BY <2>4, <2>5, <2>6
<1> QED
  BY <1>1, <1>2, <1>3, PTL DEF Spec

(* Whatever the description and the order of its links: two packages hold  *)
(* the same content only because each has a file of its own with it.       *)
THEOREM CopiesCorrect == Spec => []CopiesAreMeant
<1>1. Init => IInv /\ WrittenInv
  BY InitIInv DEF Init, WrittenInv
<1>2. IInv /\ WrittenInv => CopiesAreMeant
  <2> SUFFICES ASSUME IInv, WrittenInv, NEW i \in DOMAIN chunks, NEW j \in DOMAIN chunks,
                      NEW c \in chunks[i] \cap chunks[j], i # j
               PROVE  \E f, h \in Files :
                        /\ f # h
                        /\ document.content[f] = c /\ packageId[f] = i
                        /\ document.content[h] = c /\ packageId[h] = j
    BY DEF CopiesAreMeant
  <2>1. ASSUME NEW k \in DOMAIN chunks, c \in chunks[k]
        PROVE  \E f \in Files : document.content[f] = c /\ packageId[f] = k
    <3>1. PICK f \in referencedFiles[k] : document.content[f] = c
      BY <2>1 DEF WrittenInv, UniqueContents
    <3>2. k \in DOMAIN referencedFiles /\ f \in Files
      BY <2>1, <3>1 DEF IInv, TypeOK, WrittenInv
    <3> QED
      BY <3>1, <3>2 DEF IInv, Bond, OnePackagePerFile
  <2> QED
    BY <2>1
<1> QED
  BY NextIInv, NextWrittenInv, <1>1, <1>2, PTL DEF Spec

-----------------------------------------------------------------------------
(* What "main" is for                                                      *)

Described == DOMAIN document.packages

NamedBy(i) == FilesOf(document.packages[i].references)

(* The links of the packages of the description are waiting or made.       *)
Made(i) ==
  \/ i <= Len(packages)
  \/ pc \in {"link", "main", "linkMain", "trim", "linkFeatures", "files", "chunks"}
  \/ result = "ok"

(* The file is in a package of the description, or is going to be.         *)
Destined(f) ==
  \/ packageId[f] \in Described
  \/ packageId[f] = None /\ \E l \in pending : l.file = f /\ l.source \in Described

(* Links follow the references of the description; those to "main" are     *)
(* made when all others are.                                               *)
NamedInv ==
  /\ pc \in {"features", "packages", "link", "main"}
       => Len(packages) <= Len(document.packages)
  /\ pc \in {"link", "main"} => Len(packages) = Len(document.packages)
  /\ pc = "linkMain" => \A l \in pending : l.source \notin Described
  /\ \A l \in pending : l.source \in Described => l.file \in NamedBy(l.source)
  /\ \A f \in Files : packageId[f] \in Described => f \in NamedBy(packageId[f])
  /\ \A i \in Described : Made(i) => \A f \in NamedBy(i) : Destined(f)
  /\ pc = "chunks" \/ result = "ok" => rows = Files

LEMMA DescribedNumbers ==
  ASSUME IsDocument(document)
  PROVE  /\ Described = 1..Len(document.packages) /\ Len(document.packages) \in Nat
         /\ None \notin Described
  BY SequenceIsFunction DEF IsDocument, Described, None

(* A step that makes no link and describes no package.                     *)
LEMMA NamedKept ==
  ASSUME NamedInv, UNCHANGED <<document, packageId, pending>>,
         pc' \in {"features", "packages", "link", "main"}
           => Len(packages') <= Len(document.packages),
         pc' \in {"link", "main"} => Len(packages') = Len(document.packages),
         pc' = "linkMain" => pc = "linkMain",
         \A i \in Described : Made(i)' => Made(i),
         pc' = "chunks" \/ result' = "ok" => rows' = Files
  PROVE  NamedInv'
<1>1. Described' = Described /\ \A i : NamedBy(i)' = NamedBy(i)
  BY DEF Described, NamedBy, FilesOf, Objects, Targets, Children
<1>2. \A f : Destined(f)' = Destined(f)
  BY <1>1 DEF Destined
<1> QED
  BY <1>1, <1>2 DEF NamedInv

(* A package of the description: its links wait for the files it names.    *)
LEMMA CreatePackageNames ==
  ASSUME IInv, NamedInv, WrittenInv, CreatePackage
  PROVE  NamedInv'
<1> DEFINE next == Len(packages) + 1
           package == document.packages[next]
           known == package.references \cap Objects
<1>1. pc = "packages" /\ next \in Described /\ result = "running"
  BY DEF CreatePackage, WrittenInv, Described
<1>2. Len(packages) \in Nat /\ packages \in Seq(Names)
  BY DEF IInv, TypeOK
<1>3. /\ Described = 1..Len(document.packages) /\ Len(document.packages) \in Nat
      /\ None \notin Described
  BY DescribedNumbers DEF IInv, TypeOK
<1>4. CASE NameTaken(package.name)
  <2>1. UNCHANGED <<document, packageId, pending, packages, rows>>
        /\ pc' = "done" /\ result' = "terminated"
    BY <1>4 DEF NameTaken, Terminate, Stop, Goto, links, output
  <2> QED
    BY <2>1, NamedKept DEF Made
<1>5. CASE /\ StorePackage(package.name)
           /\ pending' = pending \cup Links(next, known)
           /\ UNCHANGED <<document, pc, packageId, rows, result>>
  <2>1. Len(packages') = next /\ Len(packages) < next
    BY <1>2, <1>5 DEF StorePackage
  <2>2. Described' = Described /\ \A i : NamedBy(i)' = NamedBy(i)
    BY <1>5 DEF Described, NamedBy, FilesOf, Objects, Targets, Children
  <2>3. \A l \in Links(next, known) : l.source = next /\ l.file \in NamedBy(next)
    BY DEF Links, NamedBy, FilesOf
  <2>4. \A l \in pending' : l.source \in Described => l.file \in NamedBy(l.source)
    BY <1>5, <2>3 DEF NamedInv
  <2>5. ASSUME NEW i \in Described, Made(i)', NEW f \in NamedBy(i) PROVE Destined(f)'
    <3>1. CASE i = next
      <4>1. PICK o \in known : f \in Targets(o)
        BY <2>5, <3>1 DEF NamedBy, FilesOf
      <4>2. [source |-> next, object |-> o, file |-> f] \in Links(next, known)
        BY <4>1 DEF Links
      <4>3. \E l \in pending' : l.file = f /\ l.source \in Described
        BY <1>1, <1>5, <4>2
      <4>4. f \in Files
        BY <4>1 DEF known, IInv, TypeOK, IsDocument, Objects, Targets, Children
      <4>5. packageId[f] \in DOMAIN packages \cup {None}
        BY <4>4 DEF IInv, TypeOK
      <4>6. packageId[f] # None => packageId[f] \in Described
        BY <4>5, <1>1, <1>2, <1>3
      <4> QED
        BY <1>5, <2>2, <4>3, <4>6 DEF Destined
    <3>2. CASE i # next
      <4>1. i <= Len(packages)
        BY <1>1, <1>2, <1>3, <1>5, <2>1, <2>5, <3>2 DEF Made
      <4>2. Destined(f)
        BY <2>5, <4>1 DEF NamedInv, Made
      <4> QED
        BY <4>2, <1>5, <2>2 DEF Destined
    <3> QED
      BY <3>1, <3>2
  <2>6. Len(packages') <= Len(document'.packages)
    BY <1>1, <1>3, <1>5, <2>1
  <2>7. pc' = "packages" /\ result' = "running"
    BY <1>1, <1>5
  <2>8. \A f \in Files : packageId'[f] \in Described => f \in NamedBy(packageId'[f])
    BY <1>5 DEF NamedInv
  <2> HIDE DEF next, package, known
  <2> QED
    BY <2>2, <2>4, <2>5, <2>6, <2>7, <2>8 DEF NamedInv
<1> QED
  BY <1>4, <1>5 DEF CreatePackage, output

(* A link that is made is one of the description as long as there are any. *)
LEMMA LinkPackageNames ==
  ASSUME IInv, NamedInv, WrittenInv, LinkPackage
  PROVE  NamedInv'
<1>1. PICK l \in NextLinks :
        /\ pending' = pending \ {l}
        /\ AddLink(l)
        /\ UNCHANGED <<pc, result>> \/ (pc' = "done" /\ result' = "asserted")
  BY DEF LinkPackage, Stop, Goto
<1>2. /\ l \in pending /\ l.source \in DOMAIN packages /\ l.file \in Files
      /\ packageId \in [Files -> DOMAIN packages \cup {None}]
      /\ packages \in Seq(Names)
  BY DEF NextLinks, IInv, TypeOK
<1>3. /\ Described = 1..Len(document.packages) /\ Len(document.packages) \in Nat
      /\ None \notin Described
  BY DescribedNumbers DEF IInv, TypeOK
<1>4. UNCHANGED <<document, packages, rows>> /\ pc \in {"link", "linkMain"} /\ result = "running"
  BY DEF LinkPackage, output, WrittenInv
<1>5. Described' = Described /\ \A i : NamedBy(i)' = NamedBy(i)
  BY <1>4 DEF Described, NamedBy, FilesOf, Objects, Targets, Children
<1>6. \A f \in Files : packageId'[f] = packageId[f]
                       \/ (packageId[f] = None /\ f = l.file /\ packageId'[f] = l.source)
  BY <1>1, <1>2 DEF AddLink
<1>7. packageId[l.file] = None => packageId'[l.file] = l.source
  BY <1>1, <1>2 DEF AddLink
<1>8. \A f \in Files : packageId'[f] \in Described => f \in NamedBy(packageId'[f])
  BY <1>2, <1>6 DEF NamedInv
<1>9. ASSUME NEW i \in Described, NEW f \in NamedBy(i) PROVE Destined(f)'
  <2>1. f \in Files
    BY <1>9 DEF NamedBy, FilesOf, IInv, TypeOK, IsDocument, Objects, Targets, Children
  <2>2. Destined(f)
    BY <1>4, <1>9 DEF NamedInv, Made
  <2>3. CASE packageId[f] \in Described
    BY <2>1, <2>3, <1>3, <1>5, <1>6 DEF Destined
  <2>4. ASSUME packageId[f] = None, NEW m \in pending, m.file = f, m.source \in Described
        PROVE  Destined(f)'
    <3>1. l.source \in Described
      <4>1. pc = "link"
        BY <1>4, <2>4 DEF NamedInv
      <4>2. Len(packages) = Len(document.packages)
        BY <4>1 DEF NamedInv
      <4> QED
        BY <4>2, <1>2, <1>3
    <3>2. CASE l.file = f
      BY <3>1, <3>2, <1>5, <1>7, <2>4 DEF Destined
    <3>3. CASE l.file # f
      <4>1. m \in pending' /\ packageId'[f] = None
        BY <3>3, <1>1, <1>6, <2>1, <2>4
      <4> QED
        BY <4>1, <1>5, <2>4 DEF Destined
    <3> QED
      BY <3>2, <3>3
  <2> QED
    BY <2>2, <2>3, <2>4 DEF Destined
<1>10. \A m \in pending' : m \in pending
  BY <1>1
<1> QED
  BY <1>1, <1>4, <1>5, <1>8, <1>9, <1>10 DEF NamedInv

(* "main" gets the links of what is left.                                  *)
LEMMA CreateMainNames ==
  ASSUME IInv, NamedInv, WrittenInv, CreateMain
  PROVE  NamedInv'
<1>1. /\ pc = "main" /\ pending = {} /\ result = "running"
      /\ Len(packages) = Len(document.packages)
  BY DEF CreateMain, IInv, Bond, WrittenInv, NamedInv
<1>2. /\ Described = 1..Len(document.packages) /\ Len(document.packages) \in Nat
      /\ None \notin Described
  BY DescribedNumbers DEF IInv, TypeOK
<1>3. CASE /\ UNCHANGED <<document, packageId, pending>>
           /\ pc' \in {"trim", "done"} /\ result' # "ok"
  BY <1>1, <1>3, NamedKept DEF Made
<1>4. CASE /\ pending' = Links(Len(packages) + 1, unassigned)
           /\ pc' = "linkMain"
           /\ UNCHANGED <<document, packageId, result>>
  <2>1. Described' = Described /\ \A i : NamedBy(i)' = NamedBy(i)
    BY <1>4 DEF Described, NamedBy, FilesOf, Objects, Targets, Children
  <2>2. \A l \in pending' : l.source \notin Described
    BY <1>1, <1>2, <1>4 DEF Links
  <2>3. ASSUME NEW i \in Described, NEW f \in NamedBy(i) PROVE Destined(f)'
    <3>1. Destined(f)
      BY <1>1, <2>3 DEF NamedInv, Made
    <3> QED
      BY <3>1, <1>1, <1>4, <2>1 DEF Destined
  <2>4. \A f \in Files : packageId'[f] \in Described => f \in NamedBy(packageId'[f])
    BY <1>4 DEF NamedInv
  <2>5. pc' = "linkMain" /\ result' = "running"
    BY <1>1, <1>4
  <2> QED
    BY <2>1, <2>2, <2>3, <2>4, <2>5 DEF NamedInv
<1> QED
  BY <1>1, <1>3, <1>4 DEF CreateMain, NameTaken, Terminate, Stop, Goto, links, output

(* Every step keeps files with the packages that name them.                *)
LEMMA NextNamedInv == IInv /\ NamedInv /\ WrittenInv /\ [Next]_vars => NamedInv'
<1> SUFFICES ASSUME IInv, NamedInv, WrittenInv, [Next]_vars PROVE NamedInv'
  OBVIOUS
<1>0. packages \in Seq(Names) /\ Len(document.packages) \in Nat
  BY DescribedNumbers DEF IInv, TypeOK
<1>1. CASE CreateFeatures
  <2>1. UNCHANGED <<document, packageId, pending, packages, rows>> /\ pc = "features"
        /\ pc' \in {"packages", "done"} /\ result' # "ok"
    BY <1>1 DEF CreateFeatures, Stop, Terminate, Goto, links, output, WrittenInv
  <2> QED
    BY <2>1, NamedKept DEF NamedInv, Made
<1>2. CASE PackagesCreated
  <2>1. UNCHANGED <<document, packageId, pending, packages, rows, result>> /\ pc = "packages"
        /\ pc' = "link" /\ result = "running" /\ Len(packages) = Len(document.packages)
    BY <1>2 DEF PackagesCreated, Goto, links, output, WrittenInv
  <2>2. \A i \in Described : i <= Len(packages)
    BY <2>1, DescribedNumbers DEF IInv, TypeOK
  <2> QED
    BY <2>1, <2>2, <1>0, NamedKept DEF Made
<1>3. CASE PackagesLinked
  <2>1. /\ UNCHANGED <<document, packageId, pending, packages, rows, result>> /\ result = "running"
        /\ (pc = "link" /\ pc' = "main") \/ (pc = "linkMain" /\ pc' = "trim")
    BY <1>3 DEF PackagesLinked, Goto, links, output, WrittenInv
  <2>2. pc = "link" => Len(packages) = Len(document.packages)
    BY DEF NamedInv
  <2> QED
    BY <2>1, <2>2, <1>0, NamedKept DEF Made
<1>4. CASE TrimPackages \/ LinkFeatures \/ StoreFile \/ FilesStored \/ WritePackage \/ Finish
  <2>1. /\ UNCHANGED <<document, packageId, pending>>
        /\ pc \in {"trim", "linkFeatures", "files", "chunks"} /\ result = "running"
        /\ pc' \in {"linkFeatures", "files", "chunks", "done"}
    BY <1>4 DEF TrimPackages, LinkFeatures, StoreFile, FilesStored, WritePackage, Finish,
       Stop, Terminate, Goto, links, output, WrittenInv
  <2>2. pc' = "chunks" \/ result' = "ok" => rows' = Files
    BY <1>4, <2>1 DEF TrimPackages, LinkFeatures, StoreFile, FilesStored, WritePackage, Finish,
       Stop, Terminate, Goto, links, output, NamedInv
  <2> QED
    BY <2>1, <2>2, NamedKept DEF Made
<1>5. CASE Finished \/ UNCHANGED vars
  <2>1. UNCHANGED <<document, packages, packageId, pending, pc, rows, result>>
    BY <1>5 DEF Finished, vars, links, output
  <2> QED
    BY <2>1, NamedKept DEF NamedInv, Made
<1> QED
  BY <1>1, <1>2, <1>3, <1>4, <1>5, CreatePackageNames, LinkPackageNames, CreateMainNames
     DEF Next

(***************************************************************************)
(* Whatever files, groups, and packages the description has, "main" gets   *)
(* exactly the files that no package of it names, by themselves or by      *)
(* their group.                                                            *)
(***************************************************************************)
THEOREM MainCorrect == Spec => []MainIsRemainder
<1> DEFINE Inv == IInv /\ RowsInv /\ PlacedInv /\ OwnedInv /\ WrittenInv /\ NamedInv
<1>1. Init => Inv
  <2> SUFFICES ASSUME Init PROVE Inv
    OBVIOUS
  <2>1. IInv /\ RowsInv /\ PlacedInv /\ OwnedInv /\ WrittenInv
    BY InitIInv DEF Init, RowsInv, PlacedInv, AllPlaced, OwnedInv, WrittenInv
  <2>2. /\ Described = 1..Len(document.packages) /\ Len(document.packages) \in Nat
        /\ None \notin Described
    BY <2>1, DescribedNumbers DEF IInv, TypeOK
  <2>3. \A i \in Described : ~ Made(i)
    BY <2>2 DEF Init, Made
  <2>4. NamedInv
    BY <2>2, <2>3 DEF Init, NamedInv
  <2> QED
    BY <2>1, <2>4
<1>2. Inv /\ [Next]_vars => Inv'
  BY NextIInv, NextRowsInv, NextPlacedInv, NextOwnedInv, NextWrittenInv, NextNamedInv
<1>3. Inv => MainIsRemainder
  <2> SUFFICES ASSUME Inv, result = "ok", NEW f \in Files
               PROVE  packageId[f] > Len(document.packages)
                        <=> \A i \in Described : f \notin NamedBy(i)
    BY DEF MainIsRemainder, Described, NamedBy
  <2>1. /\ Described = 1..Len(document.packages) /\ Len(document.packages) \in Nat
        /\ None \notin Described
    BY DescribedNumbers DEF IInv, TypeOK
  <2>2. f \in rows /\ pending = {}
    BY DEF NamedInv, WrittenInv
  <2>3. featureId[f] # None
    <3>1. featureId[f] \in DOMAIN document.features
      BY <2>2 DEF RowsInv
    <3>2. document.features \in Seq([parent : Nat, requires : SUBSET Nat,
                                     references : SUBSET (Files \cup Groups)])
      BY DEF IInv, TypeOK, IsDocument
    <3> QED
      BY <3>1, <3>2, SequenceIsFunction DEF None
  <2>4. packageId[f] # None
    BY <2>2, <2>3 DEF OwnedInv, PlacedInv, AllPlaced, Placed
  <2>5. packageId[f] \in DOMAIN packages
    BY <2>4 DEF IInv, TypeOK
  <2>6. packageId[f] \in Nat \ {0}
    <3>1. DOMAIN packages = 1..Len(packages) /\ Len(packages) \in Nat
      BY SequenceIsFunction DEF IInv, TypeOK
    <3> QED
      BY <3>1, <2>5
  <2>7. packageId[f] \in Described => f \in NamedBy(packageId[f])
    BY DEF NamedInv
  <2>8. ASSUME NEW i \in Described, f \in NamedBy(i) PROVE packageId[f] \in Described
    BY <2>2, <2>4, <2>8 DEF NamedInv, Made, Destined
  <2> QED
    BY <2>1, <2>6, <2>7, <2>8
<1> QED
  BY <1>1, <1>2, <1>3, PTL DEF Spec
=============================================================================
