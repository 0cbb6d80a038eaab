---------------------------- MODULE MCSubmission ----------------------------
(***************************************************************************)
(* Submission with two families and a name that looks like the second      *)
(* version of one of them.                                                 *)
(***************************************************************************)
EXTENDS Submission

MCNames == {[stem |-> "Foo", suffixes |-> <<>>],
            [stem |-> "Bar", suffixes |-> <<>>],
            [stem |-> "Foo", suffixes |-> <<2>>]}

=============================================================================
