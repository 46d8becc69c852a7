----------------------------- MODULE MCDeployed -----------------------------
(* Small installers for Deployed: two versions of one program.             *)
EXTENDS Deployed, TLC

CONSTANTS p1, p2, p3, c1, c2, c3, f1, f2

MCPaths == {p1, p2, p3}
MCContents == {c1, c2, c3}
MCFeatures == {f1, f2}

(* An older file of c1 shows behind a newer one of c2.                     *)
MCSize == c1 :> 2 @@ c2 :> 1 @@ c3 :> 1
MCStaged == {c3}

File(content, feature) == [content |-> content, feature |-> feature]

Nested == f1 :> NoParent @@ f2 :> f1
Flat == f1 :> NoParent @@ f2 :> NoParent

(* f2 is part of f1; p2 and p3 share a content.                            *)
Version1 ==
  [features |-> Nested,
   files |-> p1 :> File(c1, f1) @@ p2 :> File(c3, f2) @@ p3 :> File(c3, f2)]

(* p2 moves to f1 unchanged, p1 changes to a content there already.        *)
Version2 ==
  [features |-> Flat,
   files |-> p1 :> File(c3, f1) @@ p2 :> File(c3, f1) @@ p3 :> File(c2, f2)]

MCSources == {Version1, Version2}

(* Versions in which p3 of f2 comes to share a content with p1 of f1, and  *)
(* p2 passes its old content on to p1.                                     *)
Shared1 ==
  [features |-> Flat,
   files |-> p1 :> File(c1, f1) @@ p2 :> File(c2, f1) @@ p3 :> File(c3, f2)]

Shared2 ==
  [features |-> Flat,
   files |-> p1 :> File(c2, f1) @@ p2 :> File(c3, f1) @@ p3 :> File(c2, f2)]

SharedSources == {Shared1, Shared2}
=============================================================================
