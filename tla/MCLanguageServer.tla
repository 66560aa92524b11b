-------------------------- MODULE MCLanguageServer --------------------------
(* Small instances of LanguageServer. *)
EXTENDS LanguageServer

CONSTANTS complete, format   \* two requests

Both == {complete, format}
JustOne == {complete}
None == {}
=============================================================================
