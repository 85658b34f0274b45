---------------------------- MODULE MCFileSystem ----------------------------
(* Instances of FileSystem for TLC: what mkfs copies, and the paths. *)
EXTENDS FileSystem

Abs(elems) == [abs |-> TRUE, elems |-> elems]
Rel(elems) == [abs |-> FALSE, elems |-> elems]

Small == <<M!HostFile("a", 1), M!HostDir("d", <<>>)>>
Nested == <<M!HostDir("d", <<M!HostDir("e", <<>>)>>)>>

MCPaths == {Abs(<<"a">>), Abs(<<"d">>), Abs(<<"d", "a">>)}
UpPaths == MCPaths \cup {Abs(<<"d", "..">>), Rel(<<"a">>)}
NestedPaths == {Abs(<<"d">>), Abs(<<"d", "e">>)}
============================================================================
