----------------------- MODULE MCApplicationLifespan -----------------------
(* Small instances of ApplicationLifespan.                                 *)
EXTENDS ApplicationLifespan
=============================================================================
