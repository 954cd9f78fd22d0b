--------------------------- MODULE SourceStrings ---------------------------
(***************************************************************************)
(* The strings a source file may hold, as the interner and the AST see     *)
(* them: values that are equal or not.                                     *)
(***************************************************************************)

CONSTANTS
    Str,        \* the strings that may be interned
    EmptyStr    \* the empty string, one of them

ASSUME StrAssumption == EmptyStr \in Str
=============================================================================
