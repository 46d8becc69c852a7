------------------------------ MODULE MCBuilder ------------------------------
(* Small descriptions for Builder: one group, up to two packages, and two  *)
(* features, the second inside the first.                                  *)
EXTENDS Builder, TLC

CONSTANTS x, y, g, c1, c2, p1, p2, bin, doc, main

MCFiles == {x, y}
MCGroups == {g}
MCContents == {c1, c2}
MCPaths == {p1, p2}
MCNames == {bin, doc, main}

References == SUBSET {x, y, g}

Package(name, references) == [name |-> name, references |-> references]

(* "main" may be the name of a package, and a name may be taken twice.     *)
PackageLists ==
  {<<>>, <<Package(main, {x})>>, <<Package(bin, {x}), Package(bin, {y})>>}
    \cup {<<Package(bin, r)>> : r \in References}
    \cup {<<Package(bin, r), Package(doc, s)>> : r, s \in References}

Feature(parent, requires, references) ==
  [parent |-> parent, requires |-> requires, references |-> references]

(* The group has an owner, or each file has one, or there is a dependency  *)
(* on a feature that is not in the description.                            *)
FeatureLists ==
  {<<Feature(0, {}, {g}), Feature(1, {1}, {y})>>,
   <<Feature(0, {2}, {x, y}), Feature(1, {}, {})>>,
   <<Feature(0, {2}, {x, y})>>}

(* Two files of one content, two of different contents, and two with the   *)
(* same path.                                                              *)
Same == [content |-> x :> c1 @@ y :> c1, target |-> x :> p1 @@ y :> p2]
Different == [content |-> x :> c1 @@ y :> c2, target |-> x :> p1 @@ y :> p2]
Clash == [content |-> x :> c1 @@ y :> c2, target |-> x :> p1 @@ y :> p1]

Layouts ==
  {l \in [groups : SUBSET MCGroups, group : [MCFiles -> {g, NoGroup}],
          ids : SUBSET MCFiles] : \A f \in MCFiles : l.group[f] \in l.groups \cup {NoGroup}}

MCDocuments ==
  {l @@ f @@ [packages |-> p, features |-> q] :
     l \in Layouts, f \in {Same, Different, Clash},
     p \in PackageLists, q \in FeatureLists}
=============================================================================
