--------------------------- MODULE MCMultiLookup ---------------------------
(***************************************************************************)
(* Instances of MultiLookup for TLC, and what the comments of the program  *)
(* promise of its end.                                                     *)
(***************************************************************************)
EXTENDS NameFlow

CONSTANTS a, b, c

\* One requester, one file of two names.
OneFile   == << <<[opened |-> TRUE, names |-> <<a, b>>]>> >>

\* Two requesters: one whose second file does not open, and one with one name.
TwoFiles  == << <<[opened |-> TRUE, names |-> <<a, b>>],
                  [opened |-> FALSE, names |-> << >>],
                  [opened |-> TRUE, names |-> <<b>>]>>,
                <<[opened |-> TRUE, names |-> <<c>>]>> >>

Addresses == [n \in Names |-> CASE n = a -> "an.ip.v4.address"
                                [] n = b -> FAILED
                                [] OTHER -> "UNHANDELED"]
------------------------------------------------------------------------------
\* "the program must end after all names in each file have been serviced": when
\* main returns, every name of every file that opened is in the output file.
Readable(r) == {n \in Names : \E i \in DOMAIN Input[r] :
                   Input[r][i].opened /\ n \in ToSet(Input[r][i].names)}
AllResolved ==
    status = "done" => \A r \in Requesters : \A n \in Readable(r) : Printed({n}) # {}
=============================================================================
