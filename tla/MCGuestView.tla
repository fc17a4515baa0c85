---------------------------- MODULE MCGuestView ------------------------------
(* Values of the constants of GuestView for model checking. *)
EXTENDS GuestView

\* Five lanes: a register, two lanes of memory, two registers.
MCMemory == [base |-> 1, size |-> 2]

\* The memory, its upper half and the registers above, and all of it with the register below.
MCWindows == { [bind |-> 1, size |-> 2], [bind |-> 2, size |-> 2], [bind |-> 0, size |-> 4] }

\* An unknown name and one format of 16 bits.
MCFormats == {-1, 10}
=============================================================================
