------------------------------ MODULE MCPacker ------------------------------
(* Constants for checking Packer. *)
EXTENDS Packer

MCNameLength == [n \in Names |-> IF n = "LONG" THEN 64 ELSE 8]

In(name) == <<"contents", name>>

\* Every kind of path, the same name twice, and one file more than the counter
\* of entries can count.
MCCommandLines ==
  {<<>>, <<<<"A">>>>, <<<<"romdisk", "contents", "A">>>>, <<In("lower")>>,
   <<In("LONG"), In("A")>>, <<In("A"), <<"romdisk", "A">>>>,
   <<In("A"), In("B"), In("A")>>,
   <<In("A"), In("A"), In("A"), In("A")>>}

\* Nothing, a whole block, and a block and a half.
MCFileContents == {<<>>, <<"y", "x">>, <<"x", "y", "x">>}
=============================================================================
