------------------------------ MODULE FileLength ------------------------------
(***************************************************************************)
(* int size = ftell(file); char* chars = new char[size + 1]; as both loops *)
(* that read a whole file have it: ReadFile and ReadLibFile in             *)
(* librunjs.cpp, FileRead in file.cpp.                                     *)
(***************************************************************************)
EXTENDS Integers

CONSTANT IntLimit   (* 2 ^ 31 *)

ASSUME IntLimitAssumption == IntLimit \in Nat \ {0}

\* The long that ftell returns, in an int.
ToInt(n) == ((n + IntLimit) % (2 * IntLimit)) - IntLimit

(***************************************************************************)
(* An array was made for it.  For other sizes new throws what nothing      *)
(* catches or, for -1, makes an array in front of which chars[size] is     *)
(* written: what comes then is not modelled.                               *)
(***************************************************************************)
Allocated(size) == 0 <= size /\ size + 1 < IntLimit

===============================================================================
