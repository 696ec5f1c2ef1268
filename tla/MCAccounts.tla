----------------------------- MODULE MCAccounts -----------------------------
(* Instances of OperatorConsole and Accounts for TLC *)
EXTENDS OperatorConsole, TLC

Setting(prod, supplied, key) == [prod |-> prod, supplied |-> supplied, key |-> key]

\* Production as documented, without a password, and without a signing key
MCDeployment == {Setting(TRUE, TRUE, TRUE), Setting(TRUE, FALSE, TRUE),
                 Setting(TRUE, TRUE, FALSE)}

Symmetry == Permutations(Replica) \cup Permutations(Call)

=============================================================================
