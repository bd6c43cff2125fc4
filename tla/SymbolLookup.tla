---------------------------- MODULE SymbolLookup ----------------------------
(***************************************************************************)
(* Where get_symbol_offset (trampoline_setup.c) finds a symbol of ld.so:   *)
(* in the library, or in the debug file that its .gnu_debuglink section    *)
(* names.  Of an ELF file the lookup tells apart whether it has a symbol   *)
(* table, whether it has a debug link, and what its symbols are.  (.symtab *)
(* and .strtab are stripped together.)  NoFile is a file that is not there *)
(* or that is no ELF file.                                                 *)
(***************************************************************************)
EXTENDS Integers

NoFile == [symtab |-> FALSE, debuglink |-> FALSE, symbols |-> <<>>]

\* Results of getSymbolTable beside a file with a table: an assertion fails;
\* -1; a file without a table, and nothing that tells the caller.
Dies == [result |-> "dies"]
Failed == [result |-> "failed"]
Unset == [result |-> "unset"]

\* Mutant: whether there is a link is asked of the last file read only.
MutantGivesUp(file, linked) == file.symtab \/ ~file.debuglink

\* symtab_found || !foundDebugLib: foundDebugLib is not reset for the second
\* file.
GivesUp(file, linked) == file.symtab \/ ~linked

Table(file) == IF file.symtab THEN file ELSE Unset

getSymbolTable(lib, debug) ==
  CASE lib = NoFile -> Dies
    [] lib # NoFile /\ GivesUp(lib, lib.debuglink) -> Table(lib)
    [] OTHER ->
        IF debug = NoFile THEN Dies
        ELSE IF GivesUp(debug, lib.debuglink) THEN Table(debug) ELSE Failed

NotFound == -1
Crash == -2

\* The possible results.  With a table that is not set, sh_offset, sh_size and
\* the string table are what the stack held: nothing is read, or the read or
\* the comparison fails.
get_symbol_offset(lib, debug, symbol) ==
  LET table == getSymbolTable(lib, debug)
  IN  CASE table = Dies -> {Crash}
        [] table = Failed -> {NotFound}
        [] table = Unset -> {NotFound, Crash}
        [] OTHER -> {table.symbols[symbol]}
=============================================================================
