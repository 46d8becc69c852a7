------------------------------ MODULE MCRepair ------------------------------
(* Databases of three files for Repair: two share a content and the third  *)
(* has no bytes, or there is one file for each content.  A third content   *)
(* may be left in fs_contents without a file.                              *)
EXTENDS Repair, TLC

CONSTANTS p1, p2, p3, full, empty, unused

MCPaths == {p1, p2, p3}
MCContents == {full, empty, unused}
MCSize == full :> 2 @@ empty :> 0 @@ unused :> 2
MCDatabases == {p1 :> full @@ p2 :> full @@ p3 :> empty, p1 :> full @@ p3 :> empty}
=============================================================================
