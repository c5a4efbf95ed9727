------------------------------ MODULE Requests ------------------------------
(***************************************************************************)
(* The table of pending receives that both libraries keep                  *)
(* (src/src/mpire/mpire.h).  An entry is filed under the ADDRESS of the    *)
(* application's request variable, never under the handle it contains, and *)
(* remembers the buffer of the receive; count and datatype always travel   *)
(* with the buffer and are left out.                                       *)
(*                                                                         *)
(* The table is a function whose domain is the set of addresses with an    *)
(* entry.  ccan's htable, which stores it, is the subject of module        *)
(* Htable, whose LookupsExact says that it is such a table.                *)
(***************************************************************************)
CONSTANTS
  NULL,         \* what htable_get returns when there is no entry
  OutOfMemory   \* may malloc fail?

(* f with k mapped to v, whether or not k was in its domain *)
Put(f, k, v) == [x \in DOMAIN f \cup {k} |-> IF x = k THEN v ELSE f[x]]

EmptyTable == [a \in {} |-> NULL]

get_request(tab, a) == IF a \in DOMAIN tab THEN tab[a] ELSE NULL

(* MUTANT: the entry keeps the address instead of the buffer. *)
add_request_address(tab, a, buf) == {Put(tab, a, a)}

(* The tables add_request may leave.  Nobody looks at the result of        *)
(* htable_add, which leaves the table alone when it cannot grow it.        *)
add_request(tab, a, buf) ==
  {Put(tab, a, buf)} \cup (IF OutOfMemory THEN {tab} ELSE {})

(* The ways add_request ends the process: it exits when the address has an *)
(* entry already; without memory for the entry it follows a null pointer.  *)
IsDuplicate(tab, a) == get_request(tab, a) # NULL

NoEntry(tab, a) == ~IsDuplicate(tab, a) /\ OutOfMemory

(* MUTANT: a dumped receive keeps its entry. *)
del_request_none(tab, a) == tab

del_request(tab, a) == [x \in DOMAIN tab \ {a} |-> tab[x]]

=============================================================================
