------------------------------ MODULE MCFiles ------------------------------
(* Three mounts on nested paths, with names that begin like others; archives  *)
(* of three entries; two pulls and two releases, the second of which has a    *)
(* link where the first has a file; directories of three files,               *)
(* of whose contents two have the same short hash.                            *)
EXTENDS Files, TLC

MCNames == {"a", "ab", "b", ".b"}
MCBegins == {[name |-> "ab", with |-> "a", rest |-> "b"], [name |-> ".b", with |-> ".", rest |-> "b"]}
MCRoots == {{}, {"ab", "b"}}
MCMountPoints == {<<>>, <<"a">>, <<"a", "b">>}
MCPaths == MCMountPoints \cup {<<"ab">>, <<".b">>}

MCEntryPaths == {<<"a">>, <<"b">>, <<"a", "b">>}

MCPublished == <<"v1", "v2">>
MCImageFiles == 1..2
MCIrregular == "v1" :> {} @@ "v2" :> {1}

\* Two commands of pull differ in nothing but what they are given.
PullersAlike == Permutations(Pullers)

MCSourceFiles == 1..3
MCFileContents == {"nothing", "guest86", "x"}
MCShortHash == "nothing" :> "0" @@ "guest86" :> "1" @@ "x" :> "0"
=============================================================================
