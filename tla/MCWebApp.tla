------------------------------ MODULE MCWebApp ------------------------------
(* Module WebApp for TLC: one room has an identifier of the old form. *)
EXTENDS WebApp

\* A first visit, and the lists of a user, the saved rooms out of order.
Origins ==
  {[recent |-> <<>>, saved |-> <<>>],
   [recent |-> <<"a", "b">>, saved |-> <<"old", "c", "b", "c">>]}
=============================================================================
