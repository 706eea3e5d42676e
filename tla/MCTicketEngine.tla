-------------------------- MODULE MCTicketEngine --------------------------
(* Small instances of TicketEngine: the sets of processes and tickets come *)
(* from the .cfg, the qualification relation from here.                    *)
EXTENDS TicketEngine

\* Every worker may do every ticket, except that the last worker is only
\* qualified for the first ticket, when there are two of each.
CONSTANTS FirstTicket, Specialist

MCQualified ==
  [t \in Tickets |-> IF t = FirstTicket THEN Workers ELSE Workers \ {Specialist}]
=============================================================================
