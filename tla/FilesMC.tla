------------------------------- MODULE FilesMC -------------------------------
(* Small instances of Files: the files of one comment, and one of the ticket. *)
EXTENDS Files, TLC

CONSTANTS
    note,       \* the comment
    onTicket    \* the files of the ticket

Parents == [f \in File |-> IF f \in onTicket THEN Ticket ELSE note]
=============================================================================
