------------------------------ MODULE MCFinance ------------------------------
(***************************************************************************)
(* The instance of Finance that TLC checks.                                *)
(***************************************************************************)
EXTENDS Finance, TLC

\* An account of the tenant's own, and one that takes a default account's code.
ExtraAccounts == {<<"tills", "asset">>, <<"cash_on_hand", "expense">>}

\* Concurrent transactions are interchangeable, and so are authorization ids.
Symmetry == Permutations(Requests) \cup Permutations(Authorizations)

=============================================================================
