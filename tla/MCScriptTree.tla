----------------------------- MODULE MCScriptTree -----------------------------
(* A folder a in the archive, a folder b in a, and a lib in either.        *)
EXTENDS ScriptTree

CONSTANTS zip, a, b, lib, alib, na, nb, nlib

MCDir == {zip, a, b, lib, alib}
MCParentOf == a :> zip @@ b :> a @@ lib :> zip @@ alib :> a
MCNameOf == a :> na @@ b :> nb @@ lib :> nlib @@ alib :> nlib
MCLib == {lib, alib}
===============================================================================
