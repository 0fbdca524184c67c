----------------------------- MODULE MetadataSources -----------------------------
(***************************************************************************)
(* Where the Databricks adapter looks for metadata: the information schema *)
(* of the metastore ("system"), which holds every catalog, that of the     *)
(* catalog in question, or, if there is none, that of the session.         *)
(***************************************************************************)
CONSTANT None  \* Python's None

\* `value or default`: the empty text counts for nothing.
Or(value, default) == IF value \in {None, ""} THEN default ELSE value

metadata_sources(catalog) ==
  IF Or(catalog, None) = None THEN << "system", "session" >>
  ELSE IF catalog = "system" THEN << "system" >>
  ELSE << "system", "catalog" >>
==============================================================================
