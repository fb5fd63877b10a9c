--------------------------- MODULE MCStaticFiles ---------------------------
(***************************************************************************)
(* An instance of StaticFiles: a directory with or without an index, and   *)
(* that index asked for by its own name (which with the extension html is  *)
(* itself).                                                                *)
(***************************************************************************)
EXTENDS StaticFiles

MCKeys == {"docs", "docs/index.html"}

MCDirs == {"docs"}

MCFiles == {"docs/index.html"}

MCHtml == [k \in MCKeys |-> IF k = "docs" THEN NoPath ELSE k]

MCIndex == [k \in MCDirs |-> "docs/index.html"]

MCListing == [k \in MCDirs |-> "docs/listing"]
=============================================================================
