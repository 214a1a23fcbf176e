------------------------- MODULE MCResourceManager -------------------------
(* ResourceManager with a provider of each kind, two of the same order, which
   have the same identifier, and one that is put before both. *)
EXTENDS ResourceManager

Kinds == <<"archive", "directory", "immediate">>
Orders == <<2, 1, 2>>
Identifiers == <<"own", "files", "own">>
=============================================================================
