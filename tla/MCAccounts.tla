---------------------------- MODULE MCAccounts ----------------------------
EXTENDS Accounts, TLC

Symmetry == Permutations(Requests) \union Permutations(Names)
                \union Permutations(Emails) \union Permutations(Passwords)
=============================================================================
