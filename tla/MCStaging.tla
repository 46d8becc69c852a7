----------------------------- MODULE MCStaging -----------------------------
(* Small packages for Staging: a content of three chunks for two files, an *)
(* empty one, one that arrives whole, and one that nobody wants.           *)
EXTENDS Staging, TLC

CONSTANTS big, small, empty, other, main, extra, p1, p2, p3, p4

MCContents == {big, small, empty, other}
MCPackages == {main, extra}
MCPaths == {p1, p2, p3, p4}

MCTotalSize == big :> 4 @@ small :> 1 @@ empty :> 0 @@ other :> 1
MCTargets == big :> <<p1, p2>> @@ small :> <<p3>> @@ empty :> <<p4>> @@ other :> <<>>

(* Bytes of each chunk in the package and in the file.                     *)
Stored == big :> <<3, 1, 1>> @@ small :> <<1>> @@ empty :> <<0>> @@ other :> <<1>>
Source == big :> <<2, 1, 1>> @@ small :> <<1>> @@ empty :> <<0>> @@ other :> <<1>>

Total(sizes) == FoldLeft(+, 0, sizes)
Before(sizes, i) == Total(SubSeq(sizes, 1, i - 1))

(* The chunks of contents that are written one after the other.            *)
ChunksOf(contents) ==
  LET sizes(i) == Total(Stored[contents[i]])
      begin(i) == Before([j \in DOMAIN contents |-> sizes(j)], i)
  IN FlattenSeq([i \in DOMAIN contents |->
       [k \in DOMAIN Stored[contents[i]] |->
          [content |-> contents[i],
           packageOffset |-> begin(i) + Before(Stored[contents[i]], k),
           packageSize |-> Stored[contents[i]][k],
           sourceOffset |-> Before(Source[contents[i]], k),
           sourceSize |-> Source[contents[i]][k]]]])

(* All in one package, in the order of their hashes, the big one first or  *)
(* last and what nobody wants after the first; or spread over two          *)
(* packages, and last with a content that is in both.                      *)
MCLayouts ==
  {main :> ChunksOf(InsertAt(s, 2, other)) @@ extra :> <<>> :
     s \in {s \in SetToSeqs(MCContents \ {other}) : s[2] # big}}
  \cup {main :> ChunksOf(<<empty, big>>) @@ extra :> ChunksOf(<<small>>),
        main :> ChunksOf(<<empty, big>>) @@ extra :> ChunksOf(<<big, small>>)}

(* Contents of which writes may get lost, any number of times each.        *)
MaxLost == 1

(* A deployed source has no packages: one layout stands for all.           *)
MCSpec ==
  /\ Init /\ (kind = "deployed" => stored = CHOOSE layout \in Layouts : TRUE)
  /\ [][Next /\ Cardinality(lost') <= MaxLost]_vars
=============================================================================
