---------------------------- MODULE MCFileSystem ----------------------------
(* A directory "d" with a file in it, and two files beside it, of which    *)
(* one is renamed to the other.  The hashes of "x" and "y" begin alike,    *)
(* except that of a "y" behind which the buffer held something else.       *)
EXTENDS FileSystem, TLC

MCPaths == { <<"a">>, <<"b">>, <<"d">>, <<"d", "a">> }
MCLongPaths == { <<"d", "a">> }
MCRenames == <<"a">> :> <<"b">>
MCHash == [block \in Blocks |-> IF block[2] = 0 THEN <<"xy", 0>> ELSE block]
=============================================================================
