------------------------------ MODULE MCCatalog ------------------------------
(***************************************************************************)
(* A tenant's CatalogDO with the objects and the bucket behind it: its     *)
(* sessions, its skills and its input files.  They share no row and no     *)
(* request, so a behaviour exercises one of them.                          *)
(***************************************************************************)
EXTENDS Catalog, Library

VARIABLE part

\* A hosted session with input, and a fork of one without.
MCBody == {[fork |-> FALSE, hosted |-> TRUE, input |-> TRUE],
           [fork |-> TRUE, hosted |-> FALSE, input |-> FALSE]}

CatalogInit == part \in {"sessions", "skills", "files"} /\ Init /\ LibraryInit

CatalogNext ==
  \/ part = "sessions" /\ Next /\ KeysNotReused' /\ UNCHANGED <<part, libraryVars>>
  \/ part = "skills" /\ SkillNext /\ UNCHANGED <<part, vars>>
  \/ part = "files" /\ FileNext /\ UNCHANGED <<part, vars>>

CatalogSpec == CatalogInit /\ [][CatalogNext]_<<part, vars, libraryVars>>
=============================================================================
